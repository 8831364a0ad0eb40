----------------------------- MODULE TraceCodec -----------------------------
(***************************************************************************)
(* The record layer of a trace file: what record_codec.cpp writes for each *)
(* record and what it accepts back.  A payload is a sequence of bytes; an  *)
(* append_X builds it from <<width, value>> fields and a decode_X takes it *)
(* apart by widths of its own, so that a field written at one place and    *)
(* read at another shows.  A byte has ByteBase values instead of 256: the  *)
(* widths are the real ones, and eight bytes still fit TLC's integers.     *)
(*                                                                         *)
(* Decoding returns the record, Unknown where the code returns nullopt     *)
(* (another type or version) and Bad where it throws RecordCodecError.     *)
(* Enumerations keep their wire numbers; a value the wire gives 255 is     *)
(* ByteMax here.                                                           *)
(***************************************************************************)
EXTENDS Integers, Sequences, SequencesExt, FiniteSetsExt, TLC

CONSTANTS ByteBase,         \* the values of one byte
          MaxRecordSize,    \* maximum_record_size of writer and reader
          MaxMapRegions,    \* kMaximumMemoryMapRegions
          MaxCategories     \* kMaximumAgentMemoryCategories

\* The largest integers of the model, and the limits the record counts obey.
ASSUME CodecBounds == /\ ByteBase \in 9 .. 14
                      /\ MaxRecordSize \in Nat /\ MaxRecordSize >= 8
                      /\ {MaxMapRegions, MaxCategories} \subseteq Nat

ByteMax == ByteBase - 1
MaxU64 == ByteBase ^ 8 - 1
MaxU32 == ByteBase ^ 4 - 1
CustomHookApiIdBase == 4096
RecordVersion == 1
RecordHeaderSize == 8

Unknown == [kind |-> "unknown"]
Bad == [kind |-> "bad"]

U8(v)  == <<1, v>>
U16(v) == <<2, v>>
U32(v) == <<4, v>>
U64(v) == <<8, v>>
Zeros(n) == <<n, 0>>
Bool(b) == U8(IF b THEN 1 ELSE 0)

\* append_u8 .. append_zeros: little endian, field after field.
AppendFields(fields) ==
    FoldLeft(LAMBDA bytes, f : bytes \o [i \in 1 .. f[1] |->
                 IF f[2] = 0 THEN 0 ELSE (f[2] \div ByteBase ^ (i - 1)) % ByteBase],
             <<>>, fields)

\* append_i32 and read_i32: two's complement.
I32(v) == U32(IF v < 0 THEN v + MaxU32 + 1 ELSE v)
AsI32(v) == IF v > MaxU32 \div 2 THEN v - MaxU32 - 1 ELSE v

Total(numbers) == FoldLeft(LAMBDA a, b : a + b, 0, numbers)
Concat(seqs) == FoldLeft(LAMBDA a, b : a \o b, <<>>, seqs)

\* PayloadReader: the values of fields of these widths, from an offset on.
\* A decoder looks at the length before it looks at a field.
ReadFields(p, from, widths) ==
    [k \in DOMAIN widths |->
        LET offset == from + Total(SubSeq(widths, 1, k - 1))
        IN  Total([i \in 1 .. widths[k] |-> p[offset + i] * ByteBase ^ (i - 1)])]
ReadBytes(p, from, size) == SubSeq(p, from + 1, from + size)

\* decode_bool and the decode_<enum> functions: the numbers that have a meaning.
Bools == 0 .. 1
EventStatuses == 0 .. 3             \* success, failure, unmatched, preexisting
StackStatuses == 0 .. 3             \* complete, truncated, unwind_failed, unavailable
ErrorDomains == 0 .. 4              \* none, win32, nt_status, posix, mach
ProcessScopes == 0 .. 2             \* current, remote, unknown
ReallocationEffects == 0 .. 2       \* no_change, new_generation, freed
LossReasons == 1 .. 6
LossLocations == 1 .. 4
RegionStates == 1 .. 2
RegionTypes == 1 .. 3
SampleKinds == 1 .. 3
FailureRoles == 0 .. 2 \cup {ByteMax}
FailureReasons == 1 .. 7 \cup {ByteMax}

\* validate_string.
ValidString(s, required) == (required => s # <<>>) /\ 0 \notin Range(s)

-----------------------------------------------------------------------------
(* Metadata records.                                                       *)

\* validate_capture_scope.
ValidCaptureScope(r) == ~(r.atStart /\ r.unknown)

AppendCaptureScope(r) == AppendFields(<<Bool(r.atStart), Bool(r.unknown), Zeros(6)>>)

DecodeCaptureScope(p, f) ==
    LET r == [kind |-> "CaptureScope", atStart |-> f[1] = 1, unknown |-> f[2] = 1]
    IN  IF /\ Len(p) = 8
           /\ {f[1], f[2]} \subseteq Bools /\ f[3] = 0
           /\ ValidCaptureScope(r)
        THEN r ELSE Bad

\* validate_custom_hook_definition.
ValidHookDefinition(r) == /\ r.api >= CustomHookApiIdBase
                          /\ ValidString(r.module, TRUE) /\ ValidString(r.label, TRUE)

AppendHookDefinition(r) ==
    AppendFields(<<U32(r.api), U32(Len(r.module)), U32(Len(r.label)), Zeros(4)>>)
        \o r.module \o r.label

DecodeHookDefinition(p, f) ==
    LET r == [kind |-> "HookDefinition", api |-> f[1], module |-> ReadBytes(p, 16, f[2]),
              label |-> ReadBytes(p, 16 + f[2], f[3])]
    IN  IF /\ Len(p) >= 16 /\ f[4] = 0 /\ f[2] + f[3] = Len(p) - 16
           /\ ValidHookDefinition(r)
        THEN r ELSE Bad

\* validate_custom_hook_failure.
ValidHookFailure(r) == ValidString(r.module, TRUE) /\ ValidString(r.detail, TRUE)

AppendHookFailure(r) ==
    AppendFields(<<U32(Len(r.module)), U32(Len(r.detail)), U8(r.role), U8(r.reason), Zeros(6)>>)
        \o r.module \o r.detail

DecodeHookFailure(p, f) ==
    LET r == [kind |-> "HookFailure", role |-> f[3], reason |-> f[4],
              module |-> ReadBytes(p, 16, f[1]), detail |-> ReadBytes(p, 16 + f[1], f[2])]
    IN  IF /\ Len(p) >= 16 /\ f[5] = 0 /\ f[1] + f[2] = Len(p) - 16
           /\ f[3] \in FailureRoles /\ f[4] \in FailureReasons
           /\ ValidHookFailure(r)
        THEN r ELSE Bad

\* validate_buffer_configuration.
ValidBufferConfiguration(r) ==
    /\ 0 \notin {r.requested, r.slots, r.eventSize, r.slotSize}
    /\ r.slotSize >= r.eventSize
    /\ r.slots <= MaxU64 \div r.slotSize
    /\ r.reserved = r.slots * r.slotSize
    /\ r.resident <= r.reserved

AppendBufferConfiguration(r) ==
    AppendFields(<<U64(r.requested), U64(r.slots), U64(r.eventSize), U64(r.slotSize),
                   U64(r.reserved), U64(r.resident), U32(r.flags), Zeros(4)>>)

DecodeBufferConfiguration(p, f) ==
    LET r == [kind |-> "BufferConfiguration", requested |-> f[1], slots |-> f[2],
              eventSize |-> f[3], slotSize |-> f[4], reserved |-> f[5], resident |-> f[6],
              flags |-> f[7]]
    IN  IF Len(p) = 56 /\ f[8] = 0 /\ ValidBufferConfiguration(r) THEN r ELSE Bad

-----------------------------------------------------------------------------
(* Module and stack records.                                               *)

NoIdentity == [present |-> FALSE]

\* validate_module_load and validate_module_unload.
ValidModuleLoad(r) ==
    /\ r.id # 0 /\ r.base # 0 /\ r.size # 0 /\ r.size <= MaxU64 - r.base
    /\ ValidString(r.path, TRUE) /\ ValidString(r.pdbPath, FALSE)
    /\ r.flags \in 0 .. 3
    /\ r.image.present => r.image.size = r.size
    /\ ~r.pdb.present => r.pdbPath = <<>>
ValidModuleUnload(r) == r.id # 0

AppendModuleLoad(r) ==
    LET presence == (IF r.image.present THEN 1 ELSE 0) + (IF r.pdb.present THEN 2 ELSE 0)
        image    == IF r.image.present THEN <<r.image.timestamp, r.image.checksum, r.image.size>>
                    ELSE <<0, 0, 0>>
    IN  AppendFields(<<U64(r.id), U64(r.ticks), U64(r.base), U64(r.size), U32(r.flags),
                       U8(presence), Zeros(3), U32(image[1]), U32(image[2]), U32(image[3]),
                       U32(IF r.pdb.present THEN r.pdb.age ELSE 0),
                       U32(Len(r.path)), U32(Len(r.pdbPath))>>)
            \o (IF r.pdb.present THEN r.pdb.guid ELSE AppendFields(<<Zeros(16)>>))
            \o r.path \o r.pdbPath

AppendModuleUnload(r) == AppendFields(<<U64(r.id), U64(r.ticks)>>)

DecodeModuleLoad(p, f) ==
    LET guid == ReadBytes(p, 64, 16)
        r    == [kind |-> "ModuleLoad", id |-> f[1], ticks |-> f[2], base |-> f[3],
                 size |-> f[4], flags |-> f[5],
                 image |-> IF f[6] % 2 = 1
                           THEN [present |-> TRUE, timestamp |-> f[8], checksum |-> f[9],
                                 size |-> f[10]]
                           ELSE NoIdentity,
                 pdb |-> IF f[6] \div 2 = 1
                         THEN [present |-> TRUE, guid |-> guid, age |-> f[11]] ELSE NoIdentity,
                 path |-> ReadBytes(p, 80, f[12]), pdbPath |-> ReadBytes(p, 80 + f[12], f[13])]
    IN  IF /\ Len(p) >= 80
           /\ f[6] \in 0 .. 3 /\ f[7] = 0
           /\ f[12] + f[13] = Len(p) - 80
           /\ f[6] % 2 = 0 => {f[8], f[9], f[10]} = {0}
           /\ f[6] \div 2 = 0 => f[11] = 0 /\ Range(guid) = {0}
           /\ ValidModuleLoad(r)
        THEN r ELSE Bad

DecodeModuleUnload(p, f) ==
    LET r == [kind |-> "ModuleUnload", id |-> f[1], ticks |-> f[2]]
    IN  IF Len(p) = 16 /\ ValidModuleUnload(r) THEN r ELSE Bad

\* validate_stack_definition.
ValidStackDefinition(r) ==
    /\ r.id # 0
    /\ r.status \in StackStatuses
    /\ r.status \in 0 .. 1 <=> r.frames # <<>>
    /\ \A fr \in Range(r.frames) : /\ fr.address # 0
                                   /\ fr.module = 0 => fr.offset = 0
                                   /\ fr.flags = 0

AppendStackDefinition(r) ==
    AppendFields(<<U64(r.id), U8(r.status), Zeros(3), U32(Len(r.frames))>>)
        \o Concat([i \in DOMAIN r.frames |->
                      LET fr == r.frames[i]
                      IN  AppendFields(<<U64(fr.module), U64(fr.offset), U64(fr.address),
                                         U32(fr.flags), Zeros(4)>>)])

DecodeStackDefinition(p, f) ==
    LET frame == <<8, 8, 8, 4, 4>>
        g(i)  == ReadFields(p, 16 + 32 * (i - 1), frame)
        r     == [kind |-> "StackDefinition", id |-> f[1], status |-> f[2],
                  frames |-> [i \in 1 .. f[4] |->
                      [module |-> g(i)[1], offset |-> g(i)[2], address |-> g(i)[3],
                       flags |-> g(i)[4]]]]
    IN  IF /\ Len(p) >= 16 /\ f[2] \in StackStatuses /\ f[3] = 0
           /\ f[4] <= (Len(p) - 16) \div 32 /\ 16 + f[4] * 32 = Len(p)
           /\ \A i \in 1 .. f[4] : g(i)[5] = 0
           /\ ValidStackDefinition(r)
        THEN r ELSE Bad

-----------------------------------------------------------------------------
(* Event and loss records.  An event is its header and its body.           *)

EventOps == <<"HeapCreate", "HeapDestroy", "Allocate", "Reallocate", "Free",
              "VmAllocate", "VmFree", "Map", "Unmap">>
LossType == 10

\* event_record_type and decode_event_record_type.
EventRecordType(op) == CHOOSE i \in DOMAIN EventOps : EventOps[i] = op
AppendEventHeader(h) ==
    <<U64(h.seq), U64(h.ticks), U64(h.thread), U32(h.api), U8(h.status), U8(h.domain), U16(0),
      U64(h.stack), U32(h.flags), U32(0), U64(h.code)>>

DecodeEventHeader(f) ==
    [ok |-> f[5] \in EventStatuses /\ f[6] \in ErrorDomains /\ f[7] = 0 /\ f[10] = 0,
     seq |-> f[1], ticks |-> f[2], thread |-> f[3], api |-> f[4], status |-> f[5],
     domain |-> f[6], stack |-> f[8], flags |-> f[9], code |-> f[11]]

AppendProcessTarget(t) == <<U8(t.scope), Zeros(7), U64(t.handle), U64(t.process)>>
DecodeProcessTarget(f, k) == [scope |-> f[k], handle |-> f[k + 2], process |-> f[k + 3]]
ValidProcessTarget(f, k) == f[k] \in ProcessScopes /\ f[k + 1] = 0
TargetWidths == <<1, 7, 8, 8>>

AppendEventPayload(op, b) ==
    CASE op = "HeapCreate" ->
             <<U64(b.handle), U64(b.heap), U64(b.flags), U64(b.reserve), U64(b.commit)>>
      [] op = "HeapDestroy" -> <<U64(b.handle), U64(b.heap), U64(b.result)>>
      [] op = "Allocate" -> <<U64(b.handle), U64(b.heap), U64(b.size), U64(b.base), U64(b.id),
                              U64(b.flags)>>
      [] op = "Reallocate" -> <<U64(b.handle), U64(b.heap), U64(b.oldBase), U64(b.old),
                                U64(b.size), U64(b.base), U64(b.id), U64(b.flags),
                                U8(b.effect), Zeros(7)>>
      [] op = "Free" -> <<U64(b.handle), U64(b.heap), U64(b.oldBase), U64(b.old), U64(b.result),
                          U64(b.flags)>>
      [] op = "VmAllocate" -> AppendProcessTarget(b.target) \o
             <<U64(b.requestedBase), U64(b.base), U64(b.requestedSize), U64(b.size),
               U64(b.mappingBase), U64(b.mappingSize), U32(b.type), U32(b.protection), U64(b.id)>>
      [] op = "VmFree" -> AppendProcessTarget(b.target) \o
             <<U64(b.base), U64(b.size), U32(b.type), U32(0), U64(b.id)>>
      [] op = "Map" -> <<U64(b.section)>> \o AppendProcessTarget(b.target) \o
             <<U64(b.base), U64(b.size), U64(b.offset), U32(b.protection), U32(0), U64(b.id)>>
      [] op = "Unmap" -> AppendProcessTarget(b.target) \o <<U64(b.base), U64(b.id)>>

\* decode_memory_event_payload: the widths it reads after the header, the
\* fields that must be zero or of an enumeration, and the body.
PayloadWidths(op) ==
    CASE op = "HeapCreate"  -> <<8, 8, 8, 8, 8>>
      [] op = "HeapDestroy" -> <<8, 8, 8>>
      [] op = "Allocate"    -> <<8, 8, 8, 8, 8, 8>>
      [] op = "Reallocate"  -> <<8, 8, 8, 8, 8, 8, 8, 8, 1, 7>>
      [] op = "Free"        -> <<8, 8, 8, 8, 8, 8>>
      [] op = "VmAllocate"  -> TargetWidths \o <<8, 8, 8, 8, 8, 8, 4, 4, 8>>
      [] op = "VmFree"      -> TargetWidths \o <<8, 8, 4, 4, 8>>
      [] op = "Map"         -> <<8>> \o TargetWidths \o <<8, 8, 8, 4, 4, 8>>
      [] op = "Unmap"       -> TargetWidths \o <<8, 8>>

PayloadOk(op, f) ==
    CASE op = "Reallocate"  -> f[9] \in ReallocationEffects /\ f[10] = 0
      [] op = "VmFree"      -> ValidProcessTarget(f, 1) /\ f[8] = 0
      [] op = "Map"         -> ValidProcessTarget(f, 2) /\ f[10] = 0
      [] op \in {"VmAllocate", "Unmap"} -> ValidProcessTarget(f, 1)
      [] OTHER -> TRUE

DecodeMemoryEventPayload(op, f) ==
    CASE op = "HeapCreate" -> [handle |-> f[1], heap |-> f[2], flags |-> f[3],
                               reserve |-> f[4], commit |-> f[5]]
      [] op = "HeapDestroy" -> [handle |-> f[1], heap |-> f[2], result |-> f[3]]
      [] op = "Allocate" -> [handle |-> f[1], heap |-> f[2], size |-> f[3], base |-> f[4],
                             id |-> f[5], flags |-> f[6]]
      [] op = "Reallocate" -> [handle |-> f[1], heap |-> f[2], oldBase |-> f[3], old |-> f[4],
                               size |-> f[5], base |-> f[6], id |-> f[7], flags |-> f[8],
                               effect |-> f[9]]
      [] op = "Free" -> [handle |-> f[1], heap |-> f[2], oldBase |-> f[3], old |-> f[4],
                         result |-> f[5], flags |-> f[6]]
      [] op = "VmAllocate" -> [target |-> DecodeProcessTarget(f, 1), requestedBase |-> f[5],
                               base |-> f[6], requestedSize |-> f[7], size |-> f[8],
                               mappingBase |-> f[9], mappingSize |-> f[10], type |-> f[11],
                               protection |-> f[12], id |-> f[13]]
      [] op = "VmFree" -> [target |-> DecodeProcessTarget(f, 1), base |-> f[5], size |-> f[6],
                           type |-> f[7], id |-> f[9]]
      [] op = "Map" -> [section |-> f[1], target |-> DecodeProcessTarget(f, 2), base |-> f[6],
                        size |-> f[7], offset |-> f[8], protection |-> f[9], id |-> f[11]]
      [] op = "Unmap" -> [target |-> DecodeProcessTarget(f, 1), base |-> f[5], id |-> f[6]]

\* validate_header.
ValidHeader(h) == /\ h.seq # 0
                  /\ h.domain = 0 => h.code = 0

\* validate_event: what the status says about the ids a body may carry.
ValidEventRecord(op, h, b) ==
    LET failed    == h.status = 1
        unclaimed == h.status \in {2, 3}
        ends      == {"VmFree", "Unmap"}
    IN  /\ ValidHeader(h)
        /\ op \in {"HeapCreate", "Allocate"} => h.status \in {0, 1}
        /\ op = "HeapCreate" => IF failed THEN b.heap = 0 ELSE b.handle # 0 /\ b.heap # 0
        /\ op = "HeapDestroy" => /\ h.status = 0 => b.heap # 0
                                 /\ unclaimed => b.heap = 0
        /\ op = "Allocate" => IF failed THEN b.base = 0 /\ b.id = 0 ELSE b.base # 0 /\ b.id # 0
        /\ op = "Reallocate" =>
               /\ unclaimed => b.old = 0
               /\ failed => b.effect = 0
               /\ b.effect \in {0, 2} => b.base = 0 /\ b.id = 0
               /\ b.effect = 1 => b.base # 0 /\ b.id # 0 /\ b.id # b.old
               /\ b.effect = 2 => b.old # 0
        /\ op = "Free" => /\ h.status = 0 => b.old # 0
                          /\ unclaimed => b.old = 0
        /\ op \in {"VmAllocate", "Map"} => /\ h.status # 2
                                           /\ b.id # 0 <=> ~failed /\ b.target.scope = 0
        /\ op \in ends => /\ b.target.scope # 0 \/ unclaimed => b.id = 0
                          /\ h.status = 0 /\ b.target.scope = 0 => b.id # 0

\* append_event_record.
AppendEvent(r) == AppendFields(AppendEventHeader(r.header) \o AppendEventPayload(r.op, r.body))

DecodeEvent(op, p, h, f) ==
    LET header == [x \in DOMAIN h \ {"ok"} |-> h[x]]
        r == [kind |-> "Event", op |-> op, header |-> header,
              body |-> DecodeMemoryEventPayload(op, f)]
    IN  IF /\ Len(p) = 56 + Total(PayloadWidths(op))
           /\ h.ok /\ PayloadOk(op, f)
           /\ ValidEventRecord(op, header, r.body)
        THEN r ELSE Bad

None == <<>>

\* validate_loss_record.
ValidLossRecord(r) ==
    /\ r.reason \in LossReasons /\ r.location \in LossLocations
    /\ r.count # None => r.count[1] # 0
    /\ r.range # None => 0 \notin {r.range[1], r.range[2]} /\ r.range[1] <= r.range[2]
    /\ r.ticks # None => r.ticks[1] <= r.ticks[2]

AppendLoss(r) ==
    LET at(optional, i) == IF optional = None THEN 0 ELSE optional[i]
        bit(optional, b) == IF optional = None THEN 0 ELSE b
    IN  AppendFields(<<U8(r.reason), U8(r.location),
                       U8(bit(r.count, 1) + bit(r.range, 2) + bit(r.ticks, 4)), Zeros(5),
                       U64(at(r.count, 1)), U64(at(r.range, 1)), U64(at(r.range, 2)),
                       U64(at(r.ticks, 1)), U64(at(r.ticks, 2))>>)

\* Mutant: the fields that are not present are not looked at.
DecodeLoss_SkipsAbsent(p, f) ==
    LET has(b) == (f[3] \div b) % 2 = 1
        r == [kind |-> "Loss", reason |-> f[1], location |-> f[2],
              count |-> IF has(1) THEN <<f[5]>> ELSE None,
              range |-> IF has(2) THEN <<f[6], f[7]>> ELSE None,
              ticks |-> IF has(4) THEN <<f[8], f[9]>> ELSE None]
    IN  IF /\ Len(p) = 48 /\ f[1] \in LossReasons /\ f[2] \in LossLocations
           /\ f[3] <= 7 /\ f[4] = 0 /\ ValidLossRecord(r)
        THEN r ELSE Bad

\* decode_loss_payload: a field whose presence bit is clear must be zero.
DecodeLoss(p, f) ==
    LET has(b) == (f[3] \div b) % 2 = 1
        r == [kind |-> "Loss", reason |-> f[1], location |-> f[2],
              count |-> IF has(1) THEN <<f[5]>> ELSE None,
              range |-> IF has(2) THEN <<f[6], f[7]>> ELSE None,
              ticks |-> IF has(4) THEN <<f[8], f[9]>> ELSE None]
    IN  IF /\ Len(p) = 48
           /\ f[1] \in LossReasons /\ f[2] \in LossLocations
           /\ f[3] <= 7 /\ f[4] = 0
           /\ ~has(1) => f[5] = 0
           /\ ~has(2) => f[6] = 0 /\ f[7] = 0
           /\ ~has(4) => f[8] = 0 /\ f[9] = 0
           /\ ValidLossRecord(r)
        THEN r ELSE Bad

-----------------------------------------------------------------------------
(* Statistics and the end of the trace.                                    *)

\* validate_call_counts.
ValidCallCounts(c) == /\ c.successful + c.failed = c.observed
                      /\ c.filtered + c.dropped <= c.observed

\* validate_statistics: per API and in total, and the stacks of what was kept.
ValidStatisticsRecord(r) ==
    LET counts == {"observed", "successful", "failed", "filtered", "dropped"} IN
    /\ ValidCallCounts(r)
    /\ \A i \in DOMAIN r.apis : r.apis[i].api # 0 /\ ValidCallCounts(r.apis[i])
    /\ \A i, j \in DOMAIN r.apis : r.apis[i].api = r.apis[j].api => i = j
    /\ \A c \in counts : Total([i \in DOMAIN r.apis |-> r.apis[i][c]]) = r[c]
    /\ r.unique + r.reused <= r.observed - r.filtered - r.dropped

AppendStatistics(r) ==
    AppendFields(<<U64(r.observed), U64(r.successful), U64(r.failed), U64(r.filtered),
                   U64(r.dropped), U64(r.unique), U64(r.reused), U64(r.bytes), U64(r.stored),
                   U32(Len(r.apis)), U32(0)>>)
        \o Concat([i \in DOMAIN r.apis |->
                      LET a == r.apis[i]
                      IN  AppendFields(<<U32(a.api), U32(0), U64(a.observed), U64(a.successful),
                                         U64(a.failed), U64(a.filtered), U64(a.dropped)>>)])

DecodeStatistics(p, f) ==
    LET api  == <<4, 4, 8, 8, 8, 8, 8>>
        g(i) == ReadFields(p, 80 + 48 * (i - 1), api)
        r    == [kind |-> "Statistics", observed |-> f[1], successful |-> f[2],
                 failed |-> f[3], filtered |-> f[4], dropped |-> f[5], unique |-> f[6],
                 reused |-> f[7], bytes |-> f[8], stored |-> f[9],
                 apis |-> [i \in 1 .. f[10] |->
                     [api |-> g(i)[1], observed |-> g(i)[3], successful |-> g(i)[4],
                      failed |-> g(i)[5], filtered |-> g(i)[6], dropped |-> g(i)[7]]]]
    IN  IF /\ Len(p) >= 80 /\ f[11] = 0
           /\ f[10] <= (Len(p) - 80) \div 48 /\ 80 + f[10] * 48 = Len(p)
           /\ \A i \in 1 .. f[10] : g(i)[2] = 0
           /\ ValidStatisticsRecord(r)
        THEN r ELSE Bad

\* CompletenessReport::has, on the mask.
HasIssue(mask, bit) == (mask \div bit) % 2 = 1
MissingEnd == 64
AbnormalStop == 128

\* validate_end_of_trace.
ValidEndRecord(r) == /\ ~HasIssue(r.mask, MissingEnd)
                     /\ r.normal => ~HasIssue(r.mask, AbnormalStop)

AppendEndOfTrace(r) ==
    AppendFields(<<U64(r.seq), U64(r.ticks), Bool(r.normal), Bool(r.exit # None), Zeros(6),
                   I32(IF r.exit = None THEN 0 ELSE r.exit[1]), U32(0), U32(r.mask), U32(0)>>)

DecodeEndOfTrace(p, f) ==
    LET r == [kind |-> "EndOfTrace", seq |-> f[1], ticks |-> f[2], normal |-> f[3] = 1,
              exit |-> IF f[4] = 1 THEN <<AsI32(f[6])>> ELSE None, mask |-> f[8]]
    IN  IF /\ Len(p) = 40
           /\ {f[3], f[4]} \subseteq Bools /\ {f[5], f[7], f[9]} = {0}
           /\ f[4] = 0 => f[6] = 0
           /\ ValidEndRecord(r)
        THEN r ELSE Bad

-----------------------------------------------------------------------------
(* Memory snapshots.                                                       *)

\* validate_memory_counters.
ValidMemoryCounters(r) == r.peak >= r.workingSet

AppendMemoryCounters(r) ==
    AppendFields(<<U64(r.ticks), U64(r.workingSet), U64(r.peak), U64(r.private), U64(r.commit),
                   Zeros(8)>>)

DecodeMemoryCounters(p, f) ==
    LET r == [kind |-> "MemoryCounters", ticks |-> f[1], workingSet |-> f[2], peak |-> f[3],
              private |-> f[4], commit |-> f[5]]
    IN  IF Len(p) = 48 /\ f[6] = 0 /\ ValidMemoryCounters(r) THEN r ELSE Bad

\* validate_memory_map: non-empty regions, in order and disjoint.
ValidMemoryMap(r) ==
    /\ Len(r.regions) <= MaxMapRegions
    /\ \A i \in DOMAIN r.regions :
           LET x == r.regions[i] IN
           /\ x.size # 0 /\ x.base <= MaxU64 - x.size
           /\ i > 1 => x.base - r.regions[i - 1].size >= r.regions[i - 1].base

AppendMemoryMap(r) ==
    AppendFields(<<U64(r.ticks), Bool(r.truncated), Zeros(3), U32(Len(r.regions)),
                   U64(r.committed), U64(r.reserved), U64(r.free), U64(r.largest)>>)
        \o Concat([i \in DOMAIN r.regions |->
                      LET x == r.regions[i]
                      IN  AppendFields(<<U64(x.base), U64(x.size), U8(x.state), U8(x.type),
                                         U32(x.protect), Zeros(2)>>)])

DecodeMemoryMap(p, f) ==
    LET region == <<8, 8, 1, 1, 4, 2>>
        g(i)   == ReadFields(p, 48 + 24 * (i - 1), region)
        r      == [kind |-> "MemoryMap", ticks |-> f[1], truncated |-> f[2] = 1,
                   committed |-> f[5], reserved |-> f[6], free |-> f[7], largest |-> f[8],
                   regions |-> [i \in 1 .. f[4] |->
                       [base |-> g(i)[1], size |-> g(i)[2], state |-> g(i)[3],
                        type |-> g(i)[4], protect |-> g(i)[5]]]]
    IN  IF /\ Len(p) >= 48 /\ f[2] \in Bools /\ f[3] = 0
           /\ f[4] <= MaxMapRegions /\ 48 + f[4] * 24 = Len(p)
           /\ \A i \in 1 .. f[4] : /\ g(i)[3] \in RegionStates /\ g(i)[4] \in RegionTypes
                                   /\ g(i)[6] = 0
           /\ ValidMemoryMap(r)
        THEN r ELSE Bad

\* validate_agent_memory.
ValidAgentMemory(r) ==
    /\ r.sample \in SampleKinds
    /\ Len(r.categories) <= MaxCategories
    /\ \A i, j \in DOMAIN r.categories :
           r.categories[i].category = r.categories[j].category => i = j
    /\ \A c \in Range(r.categories) : c.resident <= c.reserved
    /\ \A i \in DOMAIN r.categories :      \* the totals stay below 2^64
           r.categories[i].reserved <= MaxU64 -
               Total([j \in 1 .. i - 1 |-> r.categories[j].reserved])

AppendAgentMemory(r) ==
    AppendFields(<<U64(r.ticks), U8(r.sample), U8(0), U16(0), U32(Len(r.categories))>>)
        \o Concat([i \in DOMAIN r.categories |->
                      LET c == r.categories[i]
                      IN  AppendFields(<<U32(c.category), U32(c.flags), U64(c.reserved),
                                         U64(c.resident)>>)])

\* A category number this reader does not know is kept.
DecodeAgentMemory(p, f) ==
    LET category == <<4, 4, 8, 8>>
        g(i)     == ReadFields(p, 16 + 24 * (i - 1), category)
        r        == [kind |-> "AgentMemory", ticks |-> f[1], sample |-> f[2],
                     categories |-> [i \in 1 .. f[4] |->
                         [category |-> g(i)[1], flags |-> g(i)[2], reserved |-> g(i)[3],
                          resident |-> g(i)[4]]]]
    IN  IF /\ Len(p) >= 16 /\ f[2] \in SampleKinds /\ f[3] = 0
           /\ f[4] <= MaxCategories /\ 16 + f[4] * 24 = Len(p)
           /\ ValidAgentMemory(r)
        THEN r ELSE Bad

-----------------------------------------------------------------------------
(* Framing: append_record, RecordCursor and the record types of a chunk.   *)

RecordType(r) ==
    CASE r.kind = "Event" -> EventRecordType(r.op)
      [] r.kind = "Loss" -> LossType
      [] r.kind \in {"HookDefinition", "ModuleUnload", "MemoryMap"} -> 2
      [] r.kind \in {"HookFailure", "AgentMemory"} -> 3
      [] r.kind = "BufferConfiguration" -> 4
      [] OTHER -> 1

\* The payload of a record, by the append_<kind>_record that writes it.
Payload(r) ==
    CASE r.kind = "CaptureScope" -> AppendCaptureScope(r)
      [] r.kind = "HookDefinition" -> AppendHookDefinition(r)
      [] r.kind = "HookFailure" -> AppendHookFailure(r)
      [] r.kind = "BufferConfiguration" -> AppendBufferConfiguration(r)
      [] r.kind = "ModuleLoad" -> AppendModuleLoad(r)
      [] r.kind = "ModuleUnload" -> AppendModuleUnload(r)
      [] r.kind = "StackDefinition" -> AppendStackDefinition(r)
      [] r.kind = "Event" -> AppendEvent(r)
      [] r.kind = "Loss" -> AppendLoss(r)
      [] r.kind = "Statistics" -> AppendStatistics(r)
      [] r.kind = "EndOfTrace" -> AppendEndOfTrace(r)
      [] r.kind = "MemoryCounters" -> AppendMemoryCounters(r)
      [] r.kind = "MemoryMap" -> AppendMemoryMap(r)
      [] r.kind = "AgentMemory" -> AppendAgentMemory(r)

\* The validate_<kind> every append_<kind>_record starts with.
Valid(r) ==
    CASE r.kind = "CaptureScope" -> ValidCaptureScope(r)
      [] r.kind = "HookDefinition" -> ValidHookDefinition(r)
      [] r.kind = "HookFailure" -> ValidHookFailure(r)
      [] r.kind = "BufferConfiguration" -> ValidBufferConfiguration(r)
      [] r.kind = "ModuleLoad" -> ValidModuleLoad(r)
      [] r.kind = "ModuleUnload" -> ValidModuleUnload(r)
      [] r.kind = "StackDefinition" -> ValidStackDefinition(r)
      [] r.kind = "Event" -> ValidEventRecord(r.op, r.header, r.body)
      [] r.kind = "Loss" -> ValidLossRecord(r)
      [] r.kind = "Statistics" -> ValidStatisticsRecord(r)
      [] r.kind = "EndOfTrace" -> ValidEndRecord(r)
      [] r.kind = "MemoryCounters" -> ValidMemoryCounters(r)
      [] r.kind = "MemoryMap" -> ValidMemoryMap(r)
      [] r.kind = "AgentMemory" -> ValidAgentMemory(r)

\* append_record, when the record fits.
RecordFits(payload) == Len(payload) <= MaxRecordSize - RecordHeaderSize
FrameRecord(type, version, payload) ==
    AppendFields(<<U16(type), U16(version), U32(RecordHeaderSize + Len(payload))>>) \o payload
AppendRecord(r) == FrameRecord(RecordType(r), RecordVersion, Payload(r))

\* decode_<kind>_record: the reader of a record of this type in such a chunk,
\* given the record and its leading fields.
DecodeRecord(chunk, type, version, p) ==
    IF version # RecordVersion THEN Unknown
    ELSE CASE chunk = "metadata" /\ type = 1 ->
               DecodeCaptureScope(p, ReadFields(p, 0, <<1, 1, 6>>))
           [] chunk = "metadata" /\ type = 2 ->
               DecodeHookDefinition(p, ReadFields(p, 0, <<4, 4, 4, 4>>))
           [] chunk = "metadata" /\ type = 3 ->
               DecodeHookFailure(p, ReadFields(p, 0, <<4, 4, 1, 1, 6>>))
           [] chunk = "metadata" /\ type = 4 ->
               DecodeBufferConfiguration(p, ReadFields(p, 0, <<8, 8, 8, 8, 8, 8, 4, 4>>))
           [] chunk = "module" /\ type = 1 ->
               DecodeModuleLoad(p, ReadFields(p, 0, <<8, 8, 8, 8, 4, 1, 3, 4, 4, 4, 4, 4, 4>>))
           [] chunk = "module" /\ type = 2 ->
               DecodeModuleUnload(p, ReadFields(p, 0, <<8, 8>>))
           [] chunk = "stack" /\ type = 1 ->
               DecodeStackDefinition(p, ReadFields(p, 0, <<8, 1, 3, 4>>))
           [] chunk = "event" /\ type = LossType ->
               DecodeLoss(p, ReadFields(p, 0, <<1, 1, 1, 5, 8, 8, 8, 8, 8>>))
           [] chunk = "event" /\ type \in DOMAIN EventOps ->
               DecodeEvent(EventOps[type], p,
                   DecodeEventHeader(ReadFields(p, 0, <<8, 8, 8, 4, 1, 1, 2, 8, 4, 4, 8>>)),
                   ReadFields(p, 56, PayloadWidths(EventOps[type])))
           [] chunk = "statistics" /\ type = 1 ->
               DecodeStatistics(p, ReadFields(p, 0, <<8, 8, 8, 8, 8, 8, 8, 8, 8, 4, 4>>))
           [] chunk = "end" /\ type = 1 ->
               DecodeEndOfTrace(p, ReadFields(p, 0, <<8, 8, 1, 1, 6, 4, 4, 4, 4>>))
           [] chunk = "memory" /\ type = 1 ->
               DecodeMemoryCounters(p, ReadFields(p, 0, <<8, 8, 8, 8, 8, 8>>))
           [] chunk = "memory" /\ type = 2 ->
               DecodeMemoryMap(p, ReadFields(p, 0, <<8, 1, 3, 4, 8, 8, 8, 8>>))
           [] chunk = "memory" /\ type = 3 ->
               DecodeAgentMemory(p, ReadFields(p, 0, <<8, 1, 3, 4>>))
           [] OTHER -> Unknown

\* RecordCursor::next: the record at an offset of the chunk's payload, decoded;
\* f is its header.
RecordAt(chunk, p, offset, f) ==
    LET remaining == Len(p) - offset
        size == f[3]
    IN  IF \/ remaining < RecordHeaderSize
           \/ f[1] = 0 \/ f[2] = 0
           \/ size < RecordHeaderSize \/ size > MaxRecordSize \/ size > remaining
        THEN [size |-> remaining, record |-> Bad]
        ELSE [size |-> size,
              record |-> DecodeRecord(chunk, f[1], f[2],
                             ReadBytes(p, offset + RecordHeaderSize, size - RecordHeaderSize))]

\* The records of a chunk, in order; the first bad one ends the reading.
Advance(state, at) == [offset |-> state.offset + at.size,
                       records |-> Append(state.records, at.record)]
DecodeChunk(chunk, p) ==
    LET step(state, i) ==
            IF state.offset = Len(p) \/ Bad \in Range(state.records) THEN state
            ELSE Advance(state, RecordAt(chunk, p, state.offset,
                                         ReadFields(p, state.offset, <<2, 2, 4>>)))
        most == Len(p) \div RecordHeaderSize + 1
    IN  FoldLeft(step, [offset |-> 0, records |-> <<>>], [i \in 1 .. most |-> i]).records
=============================================================================
