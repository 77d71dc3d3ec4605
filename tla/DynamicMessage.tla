--------------------------- MODULE DynamicMessage ---------------------------
(***************************************************************************)
(* One DynamicMessage (src/src/dynamic.zig) and the calls of its API, one  *)
(* loop iteration or one step between two allocations at a time.  A call   *)
(* holds its frame (the operation, the field and value it works on, loop   *)
(* indexes) until it returns; any allocation may fail, and the call then   *)
(* returns with what it has done so far, which is where the code's own     *)
(* partial states come from.  mergeFrom, copyFrom and decode call add once *)
(* per value, so they share its steps.                                     *)
(***************************************************************************)
EXTENDS FieldStore

CONSTANTS
    UnknownNumber,   \* numbers the descriptor does not declare
    Source,          \* the messages mergeFrom and copyFrom may read
    HashThreshold,   \* map size from which deduplication allocates a table (16)
    MaxValues,       \* bound: values per repeated field or map
    MaxBody,         \* bound: writes per nested message handed to a call
    MaxUnknown,      \* bound: unknown fields kept
    MaxRecords       \* bound: records of one decoded input

ASSUME NumberAssumption == UnknownNumber \subseteq (Nat \ {0}) \ Field

ASSUME BoundAssumption ==
    /\ HashThreshold \in Nat /\ MaxValues \in Nat /\ MaxBody \in Nat \ {0}
    /\ MaxUnknown \in Nat /\ MaxRecords \in Nat

UnknownField == [number : Field \cup UnknownNumber, data : Datum]

Assignment == [number : Field, value : Value]

\* A source as mergeFrom reads it: every value of every entry in storage order,
\* then the unknown fields.  It is a message of the same type: its values are
\* values of their fields.
ASSUME SourceAssumption ==
    /\ Source \subseteq [values : Seq(Assignment), unknown : Seq(UnknownField)]
    /\ \A s \in Source : \A i \in DOMAIN s.values :
          s.values[i].value \in ValuesFor(s.values[i].number, MaxBody)

NoField == 0
NoValue == Nested(<<>>)
NoSource == [values |-> <<>>, unknown |-> <<>>]

VARIABLES
    fields,         \* self.fields
    capacity,       \* the longest fields has been: it never gives memory back
    unknown_fields, \* self.unknown_fields
    pc,             \* where the call in progress is, "idle" between calls
    op,             \* the API call in progress
    fld, val,       \* add's arguments
    drop,           \* the numbers clearOneof, clearOneofExcept or
                    \* clearUnknownFieldsByNumber removes
    idx,            \* the index of the loop over fields
    rd, wr,         \* read_index and write_index of a compaction
    src,            \* what mergeFrom has not read yet
    records,        \* how many records decode has read
    outcome,        \* how the last call returned
    prior,          \* history: the fields set when the call began
    denormalized    \* history: since the last clear, a decode failed or a map
                    \* slot was overwritten by position

frame == <<op, fld, val, drop, idx, rd, wr, src, records, prior>>
vars == <<fields, capacity, unknown_fields, pc, outcome, denormalized, frame>>

Label == {"idle", "add", "clear", "create", "place", "decode", "packed",
          "dedup", "merge", "forget"}
Operation == {"none", "add", "set", "clearOneof", "clearUnknown", "decode", "merge"}

TypeOK ==
    /\ fields \in Seq(Entry)
    /\ capacity \in Nat /\ Len(fields) <= capacity
    /\ unknown_fields \in Seq(UnknownField)
    /\ pc \in Label /\ op \in Operation
    /\ fld \in Field \cup {NoField} /\ val \in Value
    /\ drop \subseteq Field \cup UnknownNumber
    /\ idx \in Nat \ {0} /\ rd \in Nat \ {0} /\ wr \in Nat \ {0}
    /\ src \in [values : Seq(Assignment), unknown : Seq(UnknownField)]
    /\ records \in Nat
    /\ outcome \in {"ok", "error"}
    /\ prior \subseteq Field
    /\ denormalized \in BOOLEAN

Init ==
    /\ fields = <<>> /\ capacity = 0 /\ unknown_fields = <<>>
    /\ pc = "idle" /\ op = "none"
    /\ fld = NoField /\ val = NoValue /\ drop = {}
    /\ idx = 1 /\ rd = 1 /\ wr = 1
    /\ src = NoSource /\ records = 0
    /\ outcome = "ok" /\ prior = {} /\ denormalized = FALSE

-----------------------------------------------------------------------------
(* Calls and returns *)

Begin(o, f, v, D, s, label) ==
    /\ pc = "idle"
    /\ op' = o /\ fld' = f /\ val' = v /\ drop' = D /\ src' = s
    /\ pc' = label /\ prior' = PresentNumbers(fields)
    /\ UNCHANGED <<capacity, idx, rd, wr, records, outcome>>

\* A call that runs to its end without allocating.
Immediate(fs) ==
    /\ pc = "idle" /\ fields' = fs /\ outcome' = "ok"
    /\ UNCHANGED <<capacity, unknown_fields, pc, denormalized, frame>>

\* The API call returns to the client and its frame is gone.
Finish(result) ==
    /\ pc' = "idle" /\ op' = "none" /\ outcome' = result
    /\ fld' = NoField /\ val' = NoValue /\ drop' = {}
    /\ idx' = 1 /\ rd' = 1 /\ wr' = 1
    /\ src' = NoSource /\ records' = 0 /\ prior' = {}
    /\ UNCHANGED capacity

\* add succeeded: back to the loop of decodeStream or mergeFrom, or to the client.
Return ==
    /\ IF op \in {"decode", "merge"}
       THEN /\ pc' = op /\ fld' = NoField /\ val' = NoValue
            /\ drop' = {} /\ idx' = 1
            /\ UNCHANGED <<capacity, op, rd, wr, src, records, outcome, prior>>
       ELSE Finish("ok")
    /\ UNCHANGED denormalized

\* An error leaves the whole API call, with the state as it is.  A decode that
\* fails has not run deduplicateDecodedMapFields.
Fail ==
    /\ Finish("error")
    /\ denormalized' = (denormalized \/ op = "decode")

Room(f, v) ==
    LET vs == Values(fields, f)
    IN  IF shouldMergeSingularMessageField(f)
        THEN vs # <<>> => Len(vs[1].body) + Len(v.body) <= MaxBody
        ELSE isRepeatedLike(f) => Len(vs) < MaxValues

-----------------------------------------------------------------------------
(* add(field, value) and Reflection.set *)

CallAdd(f, v) ==
    /\ Room(f, v)
    /\ Begin("add", f, v, Siblings(f), NoSource, "add")
    /\ UNCHANGED <<fields, unknown_fields, denormalized>>

\* Fault: every field is cleared before its replacement is there.
CallSetClearing(f, v) ==
    /\ f \in Repeated \/ Room(f, v)
    /\ Begin("set", f, v, Siblings(f), NoSource, "add")
    /\ fields' = ClearField(fields, f)
    /\ UNCHANGED <<unknown_fields, denormalized>>

CallSet(f, v) ==
    /\ f \in Repeated \/ Room(f, v)
    /\ Begin("set", f, v, Siblings(f), NoSource, "add")
    /\ fields' = IF f \in Repeated THEN ClearField(fields, f) ELSE fields
    /\ UNCHANGED <<unknown_fields, denormalized>>

\* mergeSingularMessageValue finds a message to merge into.
Mergeable == shouldMergeSingularMessageField(fld) /\ has(fields, fld)

\* Fault: the nested message is replaced.
MergedReplacing(s) == WithValues(fields, fld, <<Nested(s)>>)

Merged(s) == WithValues(fields, fld, <<Nested(Values(fields, fld)[1].body \o s)>>)

MergeSingular ==
    /\ pc = "add" /\ Mergeable
    /\ fields' = Merged(val.body)
    /\ Return
    /\ UNCHANGED unknown_fields

\* The nested mergeFrom runs out of memory after some of its writes.
MergeSingularFails ==
    /\ pc = "add" /\ Mergeable
    /\ \E n \in 0 .. Len(val.body) - 1 : fields' = Merged(SubSeq(val.body, 1, n))
    /\ Fail
    /\ UNCHANGED unknown_fields

\* Fault: clearOneofExcept is not called.
NothingToMergeOrClear ==
    /\ pc = "add" /\ ~Mergeable /\ pc' = "create"
    /\ UNCHANGED <<fields, unknown_fields, outcome, denormalized, capacity, frame>>

NothingToMerge ==
    /\ pc = "add" /\ ~Mergeable
    /\ pc' = IF Oneof[fld] # NoOneof THEN "clear" ELSE "create"
    /\ UNCHANGED <<fields, unknown_fields, outcome, denormalized, capacity, frame>>

\* One iteration of clearOneofExcept or clearOneof: after a swapRemove the same
\* index is looked at again.
ClearSibling ==
    /\ pc = "clear" /\ idx <= Len(fields)
    /\ fields[idx].number \in drop
    /\ fields' = SwapRemove(fields, idx)
    /\ UNCHANGED <<unknown_fields, pc, outcome, denormalized, capacity, frame>>

\* Fault: the index waits at an entry that stays.
SkipSiblingStuck ==
    /\ pc = "clear" /\ idx <= Len(fields)
    /\ fields[idx].number \notin drop
    /\ UNCHANGED vars

SkipSibling ==
    /\ pc = "clear" /\ idx <= Len(fields)
    /\ fields[idx].number \notin drop
    /\ idx' = idx + 1
    /\ UNCHANGED <<fields, unknown_fields, pc, outcome, denormalized,
                   capacity, op, fld, val, drop, rd, wr, src, records, prior>>

SiblingsCleared ==
    /\ pc = "clear" /\ idx > Len(fields)
    /\ IF op = "clearOneof"
       THEN Finish("ok")
       ELSE /\ pc' = "create"
            /\ UNCHANGED <<outcome, capacity, frame>>
    /\ UNCHANGED <<fields, unknown_fields, denormalized>>

\* getOrCreateMutable: an entry without values until place.
Created(f) ==
    IF f \in Numbers(fields) THEN fields
    ELSE Append(fields, [number |-> f, values |-> <<>>])

\* Fault: the capacity is not kept up with the length.
GrowForgotten == UNCHANGED capacity

Grow == capacity' = IF Len(fields') > capacity THEN Len(fields') ELSE capacity

Create ==
    /\ pc = "create"
    /\ fields' = Created(fld) /\ Grow
    /\ pc' = "place"
    /\ UNCHANGED <<unknown_fields, outcome, denormalized, frame>>

\* No memory for one more entry.  After a swapRemove in the same call there is.
CreateFails ==
    /\ pc = "create" /\ fld \notin Numbers(fields) /\ Len(fields) = capacity
    /\ Fail
    /\ UNCHANGED <<fields, unknown_fields>>

\* Fault: a singular value does not replace the one before it.
PlacedAppending ==
    IF Kind[fld] = "map" /\ op # "decode"
    THEN PutEntry(Values(fields, fld), val)
    ELSE Append(Values(fields, fld), val)

\* The rest of add, or of addDecodedMapEntry, which leaves duplicate keys to
\* the deduplication at the end of the decode.
Placed ==
    LET vs == Values(fields, fld)
    IN  CASE Kind[fld] = "map" /\ op # "decode" -> PutEntry(vs, val)
          [] ~isRepeatedLike(fld) -> <<val>>
          [] OTHER -> Append(vs, val)

Place ==
    /\ pc = "place"
    /\ fields' = WithValues(fields, fld, Placed)
    /\ Return
    /\ UNCHANGED unknown_fields

\* The append of the value fails.  A replaced map entry needs no append, and the
\* slot of a replaced singular value is free again.
PlaceFails ==
    LET vs == Values(fields, fld)
    IN  /\ pc = "place"
        /\ Len(Placed) > Len(vs)
        /\ Fail
        /\ UNCHANGED <<fields, unknown_fields>>

-----------------------------------------------------------------------------
(* The mutations that do not allocate *)

CallClearField(f) == f \in Numbers(fields) /\ Immediate(ClearField(fields, f))

\* Values of f with its slots replaced; a field left empty loses its entry.
WithSlots(f, vs) ==
    IF vs = <<>> THEN ClearField(fields, f) ELSE WithValues(fields, f, vs)

CallRemoveRepeatedValue(f, i) ==
    /\ isRepeatedLike(f) /\ i \in DOMAIN Values(fields, f)
    /\ Immediate(WithSlots(f, RemoveAt(Values(fields, f), i)))

CallSwapRepeatedValues(f, i, j) ==
    LET vs == Values(fields, f)
    IN  /\ isRepeatedLike(f) /\ i \in DOMAIN vs /\ j \in DOMAIN vs
        /\ Immediate(WithValues(fields, f, [vs EXCEPT ![i] = vs[j], ![j] = vs[i]]))

\* No look at the keys of the other slots, even when f is a map.
CallSetRepeatedValue(f, i, v) ==
    /\ pc = "idle" /\ isRepeatedLike(f) /\ i \in DOMAIN Values(fields, f)
    /\ fields' = WithValues(fields, f, [Values(fields, f) EXCEPT ![i] = v])
    /\ outcome' = "ok"
    /\ denormalized' = (denormalized \/ Kind[f] = "map")
    /\ UNCHANGED <<unknown_fields, pc, capacity, frame>>

CallClearMapEntry(f, k) ==
    LET vs == Values(fields, f)
    IN  /\ Kind[f] = "map" /\ k \in Keys(vs)
        /\ Immediate(WithSlots(f, RemoveAt(vs, KeySlot(vs, k))))

CallClearOneof(o) ==
    /\ Begin("clearOneof", NoField, NoValue, Members(o), NoSource, "clear")
    /\ UNCHANGED <<fields, unknown_fields, denormalized>>

CallClear ==
    /\ pc = "idle"
    /\ fields' = <<>> /\ unknown_fields' = <<>>
    /\ outcome' = "ok" /\ denormalized' = FALSE
    /\ UNCHANGED <<pc, capacity, frame>>

-----------------------------------------------------------------------------
(* Unknown fields *)

KeepUnknown(n, d) ==
    /\ Len(unknown_fields) < MaxUnknown
    /\ unknown_fields' = Append(unknown_fields, [number |-> n, data |-> d])

CallAppendUnknownRaw(n, d) ==
    /\ pc = "idle" /\ KeepUnknown(n, d) /\ outcome' = "ok"
    /\ UNCHANGED <<fields, pc, denormalized, capacity, frame>>

CallClearUnknown ==
    /\ pc = "idle" /\ unknown_fields' = <<>> /\ outcome' = "ok"
    /\ UNCHANGED <<fields, pc, denormalized, capacity, frame>>

CallClearUnknownByNumber(n) ==
    /\ Begin("clearUnknown", NoField, NoValue, {n}, NoSource, "forget")
    /\ UNCHANGED <<fields, unknown_fields, denormalized>>

\* Fault: the read index waits at a field that is removed.
ForgetUnknownStuck ==
    /\ pc = "forget" /\ rd <= Len(unknown_fields)
    /\ unknown_fields[rd].number \in drop
    /\ UNCHANGED vars

ForgetUnknown ==
    /\ pc = "forget" /\ rd <= Len(unknown_fields)
    /\ unknown_fields[rd].number \in drop
    /\ rd' = rd + 1
    /\ UNCHANGED <<fields, unknown_fields, pc, outcome, denormalized,
                   capacity, op, fld, val, drop, idx, wr, src, records, prior>>

\* Fault: the write index moves, the unknown field does not.
RetainUnknownUnmoved ==
    /\ pc = "forget" /\ rd <= Len(unknown_fields)
    /\ unknown_fields[rd].number \notin drop
    /\ rd' = rd + 1 /\ wr' = wr + 1
    /\ UNCHANGED <<fields, unknown_fields, pc, outcome, denormalized,
                   capacity, op, fld, val, drop, idx, src, records, prior>>

RetainUnknown ==
    /\ pc = "forget" /\ rd <= Len(unknown_fields)
    /\ unknown_fields[rd].number \notin drop
    /\ unknown_fields' = [unknown_fields EXCEPT ![wr] = unknown_fields[rd]]
    /\ rd' = rd + 1 /\ wr' = wr + 1
    /\ UNCHANGED <<fields, pc, outcome, denormalized,
                   capacity, op, fld, val, drop, idx, src, records, prior>>

UnknownForgotten ==
    /\ pc = "forget" /\ rd > Len(unknown_fields)
    /\ unknown_fields' = SubSeq(unknown_fields, 1, wr - 1)
    /\ Finish("ok")
    /\ UNCHANGED <<fields, denormalized>>

-----------------------------------------------------------------------------
(* mergeFrom and Reflection.copyFrom *)

MergeFits(fs, s) ==
    \A f \in Field :
        LET new == {i \in DOMAIN s.values : s.values[i].number = f}
            vs  == Values(fs, f)
        IN  /\ isRepeatedLike(f) => Len(vs) + Cardinality(new) <= MaxValues
            /\ shouldMergeSingularMessageField(f) /\ vs # <<>> =>
                 \A i \in new : Len(vs[1].body) + Len(s.values[i].value.body) <= MaxBody

CallMergeFrom(s) ==
    /\ MergeFits(fields, s)
    /\ Len(unknown_fields) + Len(s.unknown) <= MaxUnknown
    /\ Begin("merge", NoField, NoValue, {}, s, "merge")
    /\ UNCHANGED <<fields, unknown_fields, denormalized>>

CallCopyFrom(s) ==
    /\ Begin("merge", NoField, NoValue, {}, s, "merge")
    /\ fields' = <<>> /\ unknown_fields' = <<>> /\ denormalized' = FALSE

MergeField ==
    /\ pc = "merge" /\ src.values # <<>>
    /\ fld' = Head(src.values).number /\ val' = Head(src.values).value
    /\ drop' = Siblings(Head(src.values).number)
    /\ src' = [src EXCEPT !.values = Tail(@)]
    /\ pc' = "add"
    /\ UNCHANGED <<fields, unknown_fields, outcome, denormalized,
                   capacity, op, idx, rd, wr, records, prior>>

MergeUnknown ==
    /\ pc = "merge" /\ src.values = <<>> /\ src.unknown # <<>>
    /\ unknown_fields' = Append(unknown_fields, Head(src.unknown))
    /\ src' = [src EXCEPT !.unknown = Tail(@)]
    /\ UNCHANGED <<fields, pc, outcome, denormalized,
                   capacity, op, fld, val, drop, idx, rd, wr, records, prior>>

\* cloneValue or the copy of an unknown field runs out of memory.
MergeFails ==
    /\ pc = "merge" /\ src # NoSource
    /\ Fail
    /\ UNCHANGED <<fields, unknown_fields>>

MergeDone ==
    /\ pc = "merge" /\ src = NoSource
    /\ Finish("ok")
    /\ UNCHANGED <<fields, unknown_fields, denormalized>>

-----------------------------------------------------------------------------
(* decode: clear, decodeStream, deduplicateDecodedMapFields.  The input is     *)
(* chosen record by record.                                                    *)

CallDecode ==
    /\ Begin("decode", NoField, NoValue, {}, NoSource, "decode")
    /\ fields' = <<>> /\ unknown_fields' = <<>> /\ denormalized' = FALSE

Reading ==
    /\ pc = "decode" /\ records < MaxRecords
    /\ records' = records + 1

\* A well-formed record of a declared field.  Maps go straight to
\* addDecodedMapEntry; a closed enum keeps only declared numbers, and a map of
\* one the number 0 for an entry without a value.
DecodeField(f, v) ==
    /\ Reading /\ Room(f, v)
    /\ Kind[f] = "closed_enum" => v.body[1] \in EnumNumber
    /\ f \in EnumMap => v.body[1] \in EnumNumber \cup {EnumZero}
    /\ fld' = f /\ val' = v /\ drop' = Siblings(f)
    /\ pc' = IF Kind[f] = "map" THEN "create" ELSE "add"
    /\ UNCHANGED <<fields, unknown_fields, outcome, denormalized,
                   capacity, op, idx, rd, wr, src, prior>>

\* A number the descriptor does not have, or a closed enum value it does not, by
\* itself or in a map entry, which is kept whole (decodeMapEntryValue gives null).
DecodeUnknown(n, d) ==
    /\ Reading
    /\ n \in Field => (Kind[n] = "closed_enum" \/ n \in EnumMap) /\ d \notin EnumNumber
    /\ KeepUnknown(n, d)
    /\ UNCHANGED <<fields, pc, outcome, denormalized,
                   capacity, op, fld, val, drop, idx, rd, wr, src, prior>>

\* A packed payload: the entry is created (and its capacity reserved) first,
\* the elements are appended one by one, in place.
DecodePacked(f) ==
    /\ Reading
    /\ f \in Repeated /\ Kind[f] \in {"scalar", "closed_enum"}
    /\ fields' = Created(f) /\ Grow
    /\ fld' = f /\ pc' = "packed"
    /\ UNCHANGED <<unknown_fields, outcome, denormalized,
                   op, val, drop, idx, rd, wr, src, prior>>

PackedElement(d) ==
    /\ pc = "packed" /\ Room(fld, Scalar(d))
    /\ Kind[fld] = "closed_enum" => d \in EnumNumber
    /\ fields' = WithValues(fields, fld, Append(Values(fields, fld), Scalar(d)))
    /\ UNCHANGED <<unknown_fields, pc, outcome, denormalized, capacity, frame>>

PackedUnknown(d) ==
    /\ pc = "packed"
    /\ Kind[fld] = "closed_enum" /\ d \notin EnumNumber
    /\ KeepUnknown(fld, d)
    /\ UNCHANGED <<fields, pc, outcome, denormalized, capacity, frame>>

PackedDone ==
    /\ pc = "packed"
    /\ Return
    /\ UNCHANGED <<fields, unknown_fields>>

\* A malformed or truncated record, a wrong wire type, or no memory.
DecodeFails ==
    /\ pc \in {"decode", "packed"}
    /\ Fail
    /\ UNCHANGED <<fields, unknown_fields>>

DecodeEnd ==
    /\ pc = "decode"
    /\ pc' = "dedup"
    /\ UNCHANGED <<fields, unknown_fields, outcome, denormalized, capacity, frame>>

\* The entry the deduplication is at, when it is a map with two values or more.
Duplicable ==
    /\ idx <= Len(fields)
    /\ Kind[fields[idx].number] = "map" /\ Len(fields[idx].values) >= 2

\* Fault: the first payload of a key wins.
CompactedFirst(vs) ==
    LET v == vs[rd]
    IN  IF v.key \in Keys(SubSeq(vs, 1, wr - 1)) THEN vs ELSE [vs EXCEPT ![wr] = v]

\* One iteration: the retained slot is the first occurrence of the key, its
\* payload the last.
Compacted(vs) ==
    LET v == vs[rd]
    IN  IF v.key \in Keys(SubSeq(vs, 1, wr - 1))
        THEN [vs EXCEPT ![KeySlot(vs, v.key)] = v]
        ELSE [vs EXCEPT ![wr] = v]

\* Fault: the read index waits at a duplicate.
CompactStuck ==
    /\ pc = "dedup" /\ Duplicable
    /\ LET vs == fields[idx].values
           new == vs[rd].key \notin Keys(SubSeq(vs, 1, wr - 1))
       IN  /\ rd <= Len(vs)
           /\ fields' = SetValues(fields, idx, Compacted(vs))
           /\ wr' = IF new THEN wr + 1 ELSE wr
           /\ rd' = IF new THEN rd + 1 ELSE rd
    /\ UNCHANGED <<unknown_fields, pc, outcome, denormalized,
                   capacity, op, fld, val, drop, idx, src, records, prior>>

Compact ==
    /\ pc = "dedup" /\ Duplicable
    /\ LET vs == fields[idx].values
       IN  /\ rd <= Len(vs)
           /\ fields' = SetValues(fields, idx, Compacted(vs))
           /\ wr' = IF vs[rd].key \in Keys(SubSeq(vs, 1, wr - 1)) THEN wr ELSE wr + 1
    /\ rd' = rd + 1
    /\ UNCHANGED <<unknown_fields, pc, outcome, denormalized,
                   capacity, op, fld, val, drop, idx, src, records, prior>>

\* Fault: the length is not cut.
CompactNextUncut ==
    /\ pc = "dedup" /\ idx <= Len(fields)
    /\ Duplicable => rd > Len(fields[idx].values)
    /\ idx' = idx + 1 /\ rd' = 1 /\ wr' = 1
    /\ UNCHANGED <<fields, unknown_fields, pc, outcome, denormalized,
                   capacity, op, fld, val, drop, src, records, prior>>

\* The length is cut to write_index and the next entry is looked at.
CompactNext ==
    /\ pc = "dedup" /\ idx <= Len(fields)
    /\ IF Duplicable
       THEN /\ rd > Len(fields[idx].values)
            /\ fields' = SetValues(fields, idx, SubSeq(fields[idx].values, 1, wr - 1))
       ELSE UNCHANGED fields
    /\ idx' = idx + 1 /\ rd' = 1 /\ wr' = 1
    /\ UNCHANGED <<unknown_fields, pc, outcome, denormalized,
                   capacity, op, fld, val, drop, src, records, prior>>

\* The table of a large map cannot be allocated.
CompactFails ==
    /\ pc = "dedup" /\ Duplicable
    /\ rd = 1 /\ Len(fields[idx].values) >= HashThreshold
    /\ Fail
    /\ UNCHANGED <<fields, unknown_fields>>

DecodeDone ==
    /\ pc = "dedup" /\ idx > Len(fields)
    /\ Finish("ok")
    /\ UNCHANGED <<fields, unknown_fields, denormalized>>

-----------------------------------------------------------------------------
Add == \/ MergeSingular \/ MergeSingularFails \/ NothingToMerge
       \/ ClearSibling \/ SkipSibling \/ SiblingsCleared
       \/ Create \/ CreateFails \/ Place \/ PlaceFails

Forget == ForgetUnknown \/ RetainUnknown \/ UnknownForgotten

Merge == MergeField \/ MergeUnknown \/ MergeFails \/ MergeDone

Decode ==
    \/ \E f \in Field : \E v \in ValuesFor(f, 1) : DecodeField(f, v)
    \/ \E n \in Field \cup UnknownNumber, d \in Datum : DecodeUnknown(n, d)
    \/ \E f \in Field : DecodePacked(f)
    \/ \E d \in Datum : PackedElement(d) \/ PackedUnknown(d)
    \/ PackedDone \/ DecodeFails \/ DecodeEnd
    \/ Compact \/ CompactNext \/ CompactFails \/ DecodeDone

Mutate ==
    \/ \E f \in Field : CallClearField(f)
    \/ \E f \in Field, i \in 1 .. MaxValues : CallRemoveRepeatedValue(f, i)
    \/ \E f \in Field, i, j \in 1 .. MaxValues : CallSwapRepeatedValues(f, i, j)
    \/ \E f \in Field, i \in 1 .. MaxValues : \E v \in ValuesFor(f, 1) :
          CallSetRepeatedValue(f, i, v)
    \/ \E f \in Field, k \in Key : CallClearMapEntry(f, k)
    \/ \E o \in OneofName : CallClearOneof(o)
    \/ CallClear
    \/ \E n \in Field \cup UnknownNumber, d \in Datum : CallAppendUnknownRaw(n, d)
    \/ CallClearUnknown
    \/ \E n \in Field \cup UnknownNumber : CallClearUnknownByNumber(n)

Call ==
    \/ \E f \in Field : \E v \in ValuesFor(f, MaxBody) : CallAdd(f, v) \/ CallSet(f, v)
    \/ \E s \in Source : CallMergeFrom(s) \/ CallCopyFrom(s)
    \/ CallDecode

Next == Call \/ Mutate \/ Add \/ Forget \/ Merge \/ Decode

Spec == Init /\ [][Next]_vars
=============================================================================
