------------------------- MODULE MessageReaderSafety -------------------------
(***************************************************************************)
(* The properties of MessageReader.  What an input means is defined a      *)
(* second time, as a grammar: a function on the slices of the input that   *)
(* knows nothing of loops, calls or a reader's state.                      *)
(***************************************************************************)
EXTENDS MessageReader

None == -1

NoField == [field |-> None, close |-> None, done |-> FALSE, unknown |-> {}]

\* A field up to to, and the fields behind it.
Followed(to, unknown, rest) ==
    [rest EXCEPT !.field = to, !.unknown = unknown \cup @]

\* The slices, from i to e, of which fields are declared if typed: not inside
\* unknown groups.
Places(s) ==
    {place \in (0 .. Len(s)) \X (0 .. Len(s)) \X BOOLEAN : place[1] <= place[2]}

(* parse[i, e, typed], by what parse says of the slices further on: field  *)
(* is the position behind the field that begins at i; close is the         *)
(* position of the end tag that whole fields from i lead to; done says     *)
(* that whole fields fill the slice; unknown are the slices of those the   *)
(* descriptor does not have.                                               *)
Parsed(s, i, e, typed, parse) ==
    LET is(tag, S) == typed /\ tag.number \in S
        WrongType(tag) ==
            \/ is(tag, ScalarField) /\ tag.wire_type # Varint
            \/ is(tag, MessageField) /\ tag.wire_type # LengthDelimited
            \/ is(tag, GroupField) /\ tag.wire_type # StartGroup
        Field(to, known, inside) ==
            Followed(to, IF known THEN inside
                         ELSE IF typed THEN {[from |-> i, to |-> to]} ELSE {},
                     parse[<<to, e, typed>>])
        Closed(tag, group, closing) ==
            IF group.close # None /\ closing.number = tag.number
            THEN Field(closing.index, is(tag, GroupField), group.unknown)
            ELSE NoField
        Group(tag, group) ==
            Closed(tag, group, readTag(s, group.close, e, MaxTag))
        Message(payload, message) ==
            IF payload.ok /\ message.done
            THEN Field(payload.index, TRUE, message.unknown)
            ELSE NoField
        Payload(payload) ==
            Message(payload, parse[<<payload.start, payload.index, TRUE>>])
        Value(tag, value) ==
            IF value.ok THEN Field(value.index, is(tag, ScalarField), {}) ELSE NoField
        Tagged(tag) ==
            IF ~tag.ok THEN NoField
            ELSE IF tag.wire_type = EndGroup THEN [NoField EXCEPT !.close = i]
            ELSE IF WrongType(tag) THEN NoField
            ELSE IF tag.wire_type = StartGroup
            THEN Group(tag, parse[<<tag.index, e, is(tag, GroupField)>>])
            ELSE IF is(tag, MessageField) THEN Payload(readBytes(s, tag.index, e))
            ELSE Value(tag, skipValue(s, tag.index, e, tag.wire_type))
    IN  IF i = e THEN [NoField EXCEPT !.done = TRUE]
        ELSE Tagged(readTag(s, i, e, MaxTag))

Grammar(s) ==
    LET parse[place \in Places(s)] == Parsed(s, place[1], place[2], place[3], parse)
    IN  parse

Meaning == Grammar(input)[<<0, Len(input), TRUE>>]

(* decodeStream accepts exactly the messages of the grammar, with groups   *)
(* inside groups, in submessages and in what is skipped: it refuses none   *)
(* for its form and takes nothing else, like the end of another group.     *)
AcceptsMessages ==
    decoder = "dynamic" /\ outcome \in {"ok", "input"} =>
        (outcome = "ok" <=> Meaning.done)

HasKept(message) ==
    message.done =>
        /\ ToSet(kept) = message.unknown
        /\ \A i, j \in DOMAIN kept : i < j => kept[i].to <= kept[j].from

(* What decodeStream and the generated loop have stored of a message they  *)
(* have decoded are its unknown fields, each of them once, in their order, *)
(* and no part of one a second time.                                       *)
UnknownFieldsKept == decoder # "fast" /\ outcome = "ok" => HasKept(Meaning)

(* Every recursive call is paid for: a Reader's depth is the number of     *)
(* activations below it, over nested Readers (Reader.nested), groups and   *)
(* skipped groups (enterRecursion, leaveRecursion), and never more than    *)
(* the limit.                                                              *)
DepthIsNesting ==
    /\ recursion_depth = Len(calls) - 1
    /\ recursion_depth <= RecursionLimit

\* validateRawField: one field from its tag to the end.
ValidRawField(from, to) == Grammar(input)[<<from, to, FALSE>>].field = to

TagTooLong(from, to) == readVarint(input, from, to).index - from > MaxTag

(* An unknown field is stored with exactly its bytes, which                *)
(* validateRawField accepts: from the first byte of its tag, whatever the  *)
(* tag is written with, to the end of its value or behind its end tag.     *)
(* Fields with a tag of more than five bytes aside.                        *)
StoredFieldsWhole ==
    \A i \in DOMAIN kept :
        LET from == kept[i].from
            to   == kept[i].to
        IN  TagTooLong(from, to) \/ ValidRawField(from, to)

(* A decode of any input comes to an end, with a message or an error: no   *)
(* loop over tags waits for one that does not come.                        *)
DecodeReturns == <>(outcome # "running")

Fairness == WF_vars(Next)

FairSpec == Spec /\ Fairness

-----------------------------------------------------------------------------
(* What comments of the code say and the code does not do.                 *)

(* "Generated messages and extension helpers only store raw fields that    *)
(* were accepted by a Reader or by appendUnknownRaw() validation."         *)
StoredFieldsAccepted ==
    \A i \in DOMAIN kept :
        LET from == kept[i].from
            to   == kept[i].to
        IN  ValidRawField(from, to)

(* "Callers therefore pass the position captured before tag decoding       *)
(* instead of recomputing a tag length from the canonical numeric value":  *)
(* here of a group, whose bytes are those before its end tag.              *)
GroupBytesEndAtTag ==
    \A i \in DOMAIN payloads : payloads[i].to = payloads[i].tag
=============================================================================
