------------------------------ MODULE RawField ------------------------------
(***************************************************************************)
(* The bytes of one unknown field, from its tag to the end of its value,   *)
(* and the questions src/src/wire.zig and the extension helpers of         *)
(* src/src/codegen.zig ask of them: which number, valid or not, before or  *)
(* after another, which value of a message set.                            *)
(***************************************************************************)
EXTENDS Wire, Subsequence, SequencesExt, FiniteSetsExt

CONSTANT RecursionLimit     \* Reader.recursion_limit (100)

ASSUME LimitAssumption == RecursionLimit \in Nat

\* Reader.nextTag, at the start and behind i.
FirstTag(s) == readTag(s, 0, Len(s), MaxTag)
NextTag(s, i) == readTag(s, i, Len(s), MaxTag)

Failed == -1

\* A field's own tag may be longer where the generated loop reads it as a varint;
\* in groups it is nextTag that reads.
TagLimit(open, longest) == IF open = <<>> THEN longest ELSE MaxTag

(* A tag and skipValue: where the field behind i ends when open is empty,   *)
(* else where the fields of the open groups do, the innermost last in open; *)
(* Skip says it of what follows the tag behind i.                           *)
SkipTag(s, i, open, longest, Skip) ==
    LET Then(to, groups) == IF groups = <<>> THEN to ELSE Skip[<<to, groups>>]
        Behind(value) == IF value.ok THEN Then(value.index, open) ELSE Failed
        Field(tag) ==
            IF ~tag.ok THEN Failed
            ELSE IF tag.wire_type = EndGroup
            THEN IF open # <<>> /\ tag.number = Last(open)
                 THEN Then(tag.index, Front(open)) ELSE Failed
            ELSE IF tag.wire_type = StartGroup
            THEN IF Len(open) < RecursionLimit
                 THEN Then(tag.index, Append(open, tag.number)) ELSE Failed
            ELSE Behind(skipValue(s, tag.index, Len(s), tag.wire_type))
    IN  Field(readTag(s, i, Len(s), TagLimit(open, longest)))

\* Where the field behind i ends, whose tag has at most longest bytes.
FieldEndOf(s, i, longest) ==
    LET Skip[place \in Nat \X Seq(Nat)] == SkipTag(s, place[1], place[2], longest, Skip)
    IN  Skip[<<i, <<>>>>]

\* The same, read by nextTag.
FieldEnd(s, i) == FieldEndOf(s, i, MaxTag)

\* Fault: bytes may follow the field.
AcceptsPrefix(s) == FieldEnd(s, 0) # Failed

validateRawField(s) == FieldEnd(s, 0) = Len(s)

\* s is one field, with a tag of at most longest bytes.
WholeField(s, longest) == FieldEndOf(s, 0, longest) = Len(s)

(* A decode's loop over bytes without a declared field: the raw fields it  *)
(* hands to appendSkippedRawField, and whether it met an error.            *)
ReadFieldsOf(s, longest) ==
    LET Read[i \in Nat] ==
        LET Behind(to) ==
                IF to = Failed THEN [ok |-> FALSE, fields |-> <<>>]
                ELSE [Read[to] EXCEPT !.fields = <<SubSeq(s, i + 1, to)>> \o @]
        IN  IF i = Len(s) THEN [ok |-> TRUE, fields |-> <<>>]
            ELSE Behind(FieldEndOf(s, i, longest))
    IN  Read[0]

\* The loop of nextTag.
ReadFields(s) == ReadFieldsOf(s, MaxTag)

-----------------------------------------------------------------------------
(* Numbers *)

\* 0 stands for a field without bytes, in rawFieldNumbersAlloc's sidecar.
rawFieldNumber(s) == IF s = <<>> THEN 0 ELSE FirstTag(s).number

\* The k-th byte, k > 1, of the tag without a wire type, less its continuation
\* bit: bits 7(k - 1) and up of the number shifted by three.
CanonicalBits(number, k) == (number \div 2^(7 * k - 10)) % 128

startsWithCanonicalNumberTag(number, s) ==
    LET size == tagSize(number)
    IN  /\ Len(s) >= size
        /\ IF size = 1 THEN s[1] < 128
           ELSE /\ s[1] >= 128
                /\ \A k \in 2 .. size :
                      s[k] = CanonicalBits(number, k) + (IF k < size THEN 128 ELSE 0)

\* Fault: fields 1 to 15 are expected to have a tag of one byte.
CanonicalFirstByte(number, first) ==
    LET start == (number % 16) * 8
    IN  /\ first % 128 \in start .. start + 5
        /\ (number < 16) <=> (first < 128)

\* The lowest four bits of the number and the wire type.
firstByteMayMatch(number, first) ==
    LET start == (number % 16) * 8
    IN  /\ first % 128 \in start .. start + 5
        /\ number < 16 \/ first >= 128

(* RawFieldNumberMatcher.matches, for a field that was validated: behind   *)
(* the two fast tests "catch unreachable" decodes the tag.                 *)
matches(number, s) ==
    /\ s # <<>> /\ number # 0
    /\ firstByteMayMatch(number, s[1])
    /\ startsWithCanonicalNumberTag(number, s) \/ FirstTag(s).number = number

\* rawFieldHasNumberAssumeValid, rawFieldsByNumberAllocAssumeValid
HasNumber(raws, number) == \E i \in DOMAIN raws : matches(number, raws[i])
FieldsByNumber(raws, number) ==
    AtPositions(raws, {i \in DOMAIN raws : matches(number, raws[i])})

\* rawFieldNumberRunsFromSortedNumbersAlloc: a run for each number but 0.
NumberRuns(raws) ==
    LET numbers == [i \in DOMAIN raws |-> rawFieldNumber(raws[i])]
        present == ToSet(numbers) \ {0}
    IN  [k \in 1 .. Cardinality(present) |->
            [number |-> Nth(present, k),
             count  |-> Cardinality({i \in DOMAIN raws : numbers[i] = Nth(present, k)})]]

\* A binary search over positions 0 to Len(runs).
rawFieldNumberRunCount(runs, number) ==
    LET Position == 0 .. Len(runs)
        Search[span \in Position \X Position] ==
        LET low  == span[1]
            high == span[2]
            mid  == low + (high - low) \div 2
        IN  IF low >= high THEN 0
            ELSE IF runs[mid + 1].number < number THEN Search[<<mid + 1, high>>]
            ELSE IF runs[mid + 1].number > number THEN Search[<<low, mid>>]
            ELSE runs[mid + 1].count
    IN  Search[<<0, Len(runs)>>]

-----------------------------------------------------------------------------
(* The order of deterministic encoding *)

\* std.mem.lessThan
BytesLess(s, t) ==
    \E k \in 0 .. Len(s) :
        /\ IsPrefix(SubSeq(s, 1, k), t)
        /\ k < Len(t)
        /\ k = Len(s) \/ (k < Len(s) /\ s[k + 1] < t[k + 1])

\* Fault: fields with the same tag are equal.
LessByTag(s, t) ==
    LET Less(a, b) ==
            IF a.number # b.number THEN a.number < b.number ELSE a.wire_type < b.wire_type
    IN  Less(FirstTag(s), FirstTag(t))

\* deterministicRawFieldIndexLessThan
RawFieldLess(s, t) ==
    LET Less(a, b) ==
            IF ~a.ok \/ ~b.ok THEN BytesLess(s, t)
            ELSE IF a.number # b.number THEN a.number < b.number
            ELSE IF a.wire_type # b.wire_type THEN a.wire_type < b.wire_type
            ELSE BytesLess(s, t)
    IN  Less(FirstTag(s), FirstTag(t))

\* std.mem.sort on a few fields: each goes behind the last that is not greater.
Insert(sorted, s) ==
    InsertAt(sorted, 1 + Max({0} \cup {i \in DOMAIN sorted : ~RawFieldLess(s, sorted[i])}), s)

\* writeRawFieldsDeterministic
Deterministic(raws) == FoldLeft(Insert, <<>>, raws)

-----------------------------------------------------------------------------
(* Message sets: a value is a group 1 of a type id (2) and a payload (3), or a *)
(* field of the extension's own number.                                        *)

\* readUInt32 truncates; 0 is no type id and 2^29 and more is refused.
TypeId(s, i, j) ==
    IF Digit(s, i, j, 5) % 16 > 1 THEN 0
    ELSE Digit(s, i, j, 1) + 128 * (Digit(s, i, j, 2) + 128 * (Digit(s, i, j, 3)
            + 128 * (Digit(s, i, j, 4) + 128 * (Digit(s, i, j, 5) % 16))))

RefusedItem == [is |-> "error", index |-> 0]

\* Fault: the first type id counts.
MessageSetItemFirstId(s, number, i) ==
    LET Item[at \in Nat \X Nat \X BOOLEAN] ==
        LET type_id == at[2]
            payload == at[3]
            Behind(tag, to) ==
                IF to = Failed THEN RefusedItem
                ELSE IF tag.number = 2 /\ type_id = 0
                THEN Item[<<to, TypeId(s, tag.index, to), payload>>]
                ELSE Item[<<to, type_id, payload \/ tag.number = 3>>]
            Field(tag) ==
                IF ~tag.ok THEN RefusedItem
                ELSE IF tag.wire_type = EndGroup
                THEN [is    |-> IF type_id = number /\ payload THEN "value" ELSE "none",
                      index |-> tag.index]
                ELSE Behind(tag, FieldEnd(s, at[1]))
        IN  Field(NextTag(s, at[1]))
    IN  Item[<<i, 0, FALSE>>]

(* decodeMessageSetItem behind i, with the type id and the payload so far: *)
(* "value", "none" or "error", and where the item ends; Item says it of    *)
(* what follows the field behind i.                                        *)
ItemTag(s, number, i, type_id, payload, Item) ==
    LET Id(value, id)  == IF value.ok /\ id # 0 THEN Item[<<value.index, id, payload>>] ELSE RefusedItem
        Payload(value) == IF value.ok THEN Item[<<value.index, type_id, TRUE>>] ELSE RefusedItem
        Other(to)      == IF to # Failed THEN Item[<<to, type_id, payload>>] ELSE RefusedItem
        TypedBy(tag, value) == Id(value, TypeId(s, tag.index, value.index))
        Field(tag) ==
            IF ~tag.ok THEN RefusedItem
            ELSE IF tag.wire_type = EndGroup
            THEN IF tag.number # 1 THEN RefusedItem
                 ELSE [is    |-> IF type_id = number /\ payload THEN "value" ELSE "none",
                       index |-> tag.index]
            ELSE IF tag.number = 2
            THEN IF tag.wire_type = Varint
                 THEN TypedBy(tag, readVarint(s, tag.index, Len(s))) ELSE RefusedItem
            ELSE IF tag.number = 3
            THEN IF tag.wire_type = LengthDelimited
                 THEN Payload(readBytes(s, tag.index, Len(s))) ELSE RefusedItem
            ELSE Other(FieldEnd(s, i))
    IN  Field(NextTag(s, i))

\* decodeMessageSetItem behind i.
MessageSetItem(s, number, i) ==
    LET Item[at \in Nat \X Nat \X BOOLEAN] == ItemTag(s, number, at[1], at[2], at[3], Item)
    IN  Item[<<i, 0, FALSE>>]

\* decodeRaw of an extension of a message set.
DecodeRaw(s, number) ==
    LET Whole(is, index) == IF index = Len(s) THEN is ELSE "error"
        Item(item) == IF item.is = "error" THEN "error" ELSE Whole(item.is, item.index)
        Direct(value) == IF value.ok THEN Whole("value", value.index) ELSE "error"
        First(tag) ==
            IF ~tag.ok THEN "error"
            ELSE IF tag.number = 1 /\ tag.wire_type = StartGroup
            THEN Item(MessageSetItem(s, number, tag.index))
            ELSE IF tag.number = number /\ tag.wire_type = LengthDelimited
            THEN Direct(readBytes(s, tag.index, Len(s)))
            ELSE "none"
    IN  IF s = <<>> THEN "none" ELSE First(FirstTag(s))
=============================================================================
