---------------------------- MODULE MessageReader ----------------------------
(***************************************************************************)
(* Decoding the bytes of a message: the loops over tags that the dynamic   *)
(* message (src/src/dynamic.zig decodeStream) and the generated messages   *)
(* (src/src/codegen.zig, the two loops writeDecode and writeDecodeFastRaw- *)
(* Tag emit) run on a Reader of src/src/wire.zig, with the recursive calls *)
(* they make for groups, for submessages and for what they skip.  The      *)
(* message type is recursive: its group and message fields hold messages   *)
(* of the same type.  A step is one iteration of one of the loops.         *)
(***************************************************************************)
EXTENDS Wire, SequencesExt

CONSTANTS
    Input,          \* the inputs to decode
    Decoder,        \* "dynamic", "generated", "fast": the loop to decode with
    ScalarField,    \* numbers of the singular varint fields
    MessageField,   \* numbers of the length-delimited message fields
    GroupField,     \* numbers of the group (or delimited message) fields
    RecursionLimit  \* Reader.recursion_limit (100)

ASSUME InputAssumption ==
    \A s \in Input : s \in Seq(Byte) /\ Len(s) < Huge

ASSUME DecoderAssumption == Decoder \subseteq {"dynamic", "generated", "fast"}

ASSUME LimitAssumption == RecursionLimit \in Nat

\* A number has one declaration.
ASSUME FieldAssumption ==
    /\ ScalarField \cap MessageField = {}
    /\ ScalarField \cap GroupField = {}
    /\ MessageField \cap GroupField = {}

VARIABLES
    input,           \* what is decoded
    decoder,         \* the loop it is decoded with
    calls,           \* the activations in progress, the running one last
    index, end,      \* Reader.index and the end of its input
    recursion_depth, \* Reader.recursion_depth
    kept,            \* the slices stored as unknown fields, of all messages
    payloads,        \* the slices readGroupBytes returned, with the place of
                     \* the end tag
    outcome          \* "running", "ok", or the error that ended the decode

vars == <<input, decoder, calls, index, end, recursion_depth, kept, payloads,
          outcome>>

(* An activation: "message" is a loop over the fields of a message with a  *)
(* Reader of its own, "group" the same loop up to an end tag, "bytes" is   *)
(* readGroupBytes and "skip" is skipGroup.                                 *)
Activation ==
    [does   : {"message", "group", "bytes", "skip"},
     number : Nat,       \* of the group
     from   : Nat,       \* "bytes": where the group begins; "skip": its tag
     keep   : BOOLEAN,   \* "skip": an unknown field, to be stored
     index  : Nat,       \* "message": the caller's Reader
     end    : Nat]

Slice == [from : Nat, to : Nat]
GroupSlice == [from : Nat, to : Nat, tag : Nat]

TypeOK ==
    /\ input \in Seq(Byte) /\ decoder \in Decoder
    /\ calls \in Seq(Activation) /\ Len(calls) # 0
    /\ index \in Nat /\ end \in Nat /\ index <= end /\ end <= Len(input)
    /\ recursion_depth \in Nat
    /\ kept \in Seq(Slice) /\ payloads \in Seq(GroupSlice)
    /\ \A i \in DOMAIN kept : kept[i].from < kept[i].to /\ kept[i].to <= Len(input)
    /\ \A i \in DOMAIN payloads :
          payloads[i].from <= payloads[i].to /\ payloads[i].to <= Len(input)
    /\ outcome \in {"running", "ok", "input", "recursion", "memory"}

MessageCall(i, e) ==
    [does |-> "message", number |-> 0, from |-> 0, keep |-> FALSE, index |-> i, end |-> e]

GroupCall(d, n, f, k) ==
    [does |-> d, number |-> n, from |-> f, keep |-> k, index |-> 0, end |-> 0]

Init ==
    /\ input \in Input /\ decoder \in Decoder
    /\ calls = <<MessageCall(0, 0)>>
    /\ index = 0 /\ end = Len(input)
    /\ recursion_depth = 0
    /\ kept = <<>> /\ payloads = <<>>
    /\ outcome = "running"

-----------------------------------------------------------------------------
Top == Last(calls)

InMessage == Top.does \in {"message", "group"}

\* The generated loop over raw tags is for types without groups and messages.
Groups == IF decoder = "fast" THEN {} ELSE GroupField
Messages == IF decoder = "fast" THEN {} ELSE MessageField

\* That loop reads a tag as it reads any varint; the others go through nexttag.
LongestTag == IF decoder = "fast" /\ InMessage THEN MaxVarint ELSE MaxTag

\* The tag that is read next, if there is one.
NextTag == {tag \in {readTag(input, index, end, LongestTag)} : tag.ok}

OnTag ==
    /\ outcome = "running"
    /\ UNCHANGED <<input, decoder>>

Fail(error) ==
    /\ outcome' = error
    /\ UNCHANGED <<calls, index, end, recursion_depth, kept, payloads>>

\* The loop goes on behind a value that was read or skipped.
Goes(value) ==
    IF value.ok
    THEN /\ index' = value.index
         /\ UNCHANGED <<calls, end, recursion_depth, payloads, outcome>>
    ELSE Fail("input")

\* enterRecursion, and the call it is for.
Enters(tag, call) ==
    IF recursion_depth < RecursionLimit
    THEN /\ recursion_depth' = recursion_depth + 1
         /\ calls' = Append(calls, call)
         /\ index' = tag.index
         /\ UNCHANGED <<end, kept, payloads, outcome>>
    ELSE Fail("recursion")

\* Fault: no deferred leaveRecursion.
LeavesDeeper(tag) ==
    /\ recursion_depth' = recursion_depth
    /\ calls' = Front(calls)
    /\ index' = tag.index
    /\ UNCHANGED <<end, payloads, outcome>>

\* leaveRecursion, behind the end tag.
Leaves(tag) ==
    /\ recursion_depth' = recursion_depth - 1
    /\ calls' = Front(calls)
    /\ index' = tag.index
    /\ UNCHANGED <<end, payloads, outcome>>

\* Fault: the field begins the canonical size of its tag before its value.
KeepsCanonical(from, to) ==
    LET tag == readTag(input, from, to, MaxVarint)
    IN  kept' = Append(kept, [from |-> tag.index - tagSize(tag.number), to |-> to])

\* appendConsumedRawField, addUnknownRaw: the field from the first byte of its
\* tag, captured before the tag was read, to the Reader's position.
Keeps(from, to) == kept' = Append(kept, [from |-> from, to |-> to])

-----------------------------------------------------------------------------
(* The end of the slice, and what is no tag *)

\* A submessage is complete: its caller's Reader has already moved past it.
ReturnFromMessage ==
    /\ outcome = "running" /\ index = end
    /\ Top.does = "message" /\ Len(calls) > 1
    /\ calls' = Front(calls)
    /\ index' = Top.index /\ end' = Top.end
    /\ recursion_depth' = recursion_depth - 1
    /\ UNCHANGED <<input, decoder, kept, payloads, outcome>>

Complete ==
    /\ outcome = "running" /\ index = end
    /\ Top.does = "message" /\ Len(calls) = 1
    /\ outcome' = "ok"
    /\ UNCHANGED <<input, decoder, calls, index, end, recursion_depth, kept, payloads>>

\* Fault: a group's loop does not notice the end of the input.
BrokenTagsOnly ==
    /\ outcome = "running" /\ index < end
    /\ NextTag = {}
    /\ Fail("input")
    /\ UNCHANGED <<input, decoder>>

\* No end tag, or no tag.
Broken ==
    /\ outcome = "running"
    /\ index = end => Top.does # "message"
    /\ NextTag = {}
    /\ Fail("input")
    /\ UNCHANGED <<input, decoder>>

-----------------------------------------------------------------------------
(* Fields the descriptor has *)

\* The dynamic message refuses another wire type, the raw loop takes it for an
\* unknown field, the generated loop does not look at it.
Expected(tag, wire_type) == decoder = "generated" \/ tag.wire_type = wire_type

Declared(tag) ==
    \/ tag.number \in ScalarField /\ (decoder = "fast" => tag.wire_type = Varint)
    \/ tag.number \in Messages \cup Groups

\* A group's end comes before its number is looked at in decodeStream.
AtEnd(tag) == tag.wire_type = EndGroup /\ decoder = "dynamic"

WrongWireType(tag) ==
    /\ OnTag /\ InMessage /\ Declared(tag) /\ ~AtEnd(tag)
    /\ \/ tag.number \in ScalarField /\ ~Expected(tag, Varint)
       \/ tag.number \in Messages /\ ~Expected(tag, LengthDelimited)
       \/ tag.number \in Groups /\ ~Expected(tag, StartGroup)
    /\ Fail("input")

ReadScalar(tag) ==
    /\ OnTag /\ InMessage /\ tag.number \in ScalarField /\ Declared(tag)
    /\ Expected(tag, Varint)
    /\ Goes(readVarint(input, tag.index, end))
    /\ UNCHANGED kept

\* readBytes, then the payload on a nested Reader.
ReadMessage(tag) ==
    LET payload == readBytes(input, tag.index, end)
    IN  /\ OnTag /\ InMessage /\ tag.number \in Messages /\ Expected(tag, LengthDelimited)
        /\ IF ~payload.ok THEN Fail("input")
           ELSE IF recursion_depth = RecursionLimit THEN Fail("recursion")
           ELSE /\ calls' = Append(calls, MessageCall(payload.index, end))
                /\ index' = payload.start /\ end' = payload.index
                /\ recursion_depth' = recursion_depth + 1
                /\ UNCHANGED <<kept, payloads, outcome>>

\* decodeGroupValue and decodeDelimitedMessageValue read the group in place;
\* generated code has readGroupBytes find its end first.
ReadGroup(tag) ==
    /\ OnTag /\ InMessage /\ tag.number \in Groups /\ Expected(tag, StartGroup)
    /\ Enters(tag, GroupCall(IF decoder = "dynamic" THEN "group" ELSE "bytes",
                        tag.number, tag.index, FALSE))

-----------------------------------------------------------------------------
(* Fields it does not have, and the fields of groups being skipped *)

FieldToSkip(tag) == OnTag /\ (~InMessage \/ ~Declared(tag)) /\ tag.wire_type # EndGroup

\* skipValue; in a message, what was skipped is stored.
Skip(tag) ==
    LET value == skipValue(input, tag.index, end, tag.wire_type)
    IN  /\ FieldToSkip(tag) /\ tag.wire_type # StartGroup
        /\ Goes(value)
        /\ IF InMessage /\ value.ok THEN Keeps(index, value.index) ELSE UNCHANGED kept

\* There is no memory for the copy of the field.
OutOfMemory(tag) ==
    /\ FieldToSkip(tag) /\ InMessage /\ tag.wire_type # StartGroup
    /\ skipValue(input, tag.index, end, tag.wire_type).ok
    /\ Fail("memory")

\* Fault: a group inside a group is stored too.
SkipGroupKept(tag) ==
    /\ FieldToSkip(tag) /\ tag.wire_type = StartGroup
    /\ Enters(tag, GroupCall("skip", tag.number, index, TRUE))

SkipGroup(tag) ==
    /\ FieldToSkip(tag) /\ tag.wire_type = StartGroup
    /\ Enters(tag, GroupCall("skip", tag.number, index, InMessage))

-----------------------------------------------------------------------------
(* End tags *)

AtEndTag(tag) == OnTag /\ tag.wire_type = EndGroup

\* Fault: any end tag ends the group.
SkippedGroupAnyEnd(tag) ==
    /\ AtEndTag(tag) /\ Top.does = "skip"
    /\ Leaves(tag)
    /\ IF Top.keep THEN Keeps(Top.from, tag.index) ELSE UNCHANGED kept

SkippedGroup(tag) ==
    /\ AtEndTag(tag) /\ Top.does = "skip" /\ tag.number = Top.number
    /\ Leaves(tag)
    /\ IF Top.keep THEN Keeps(Top.from, tag.index) ELSE UNCHANGED kept

OutOfMemoryForGroup(tag) ==
    /\ AtEndTag(tag) /\ Top.does = "skip" /\ tag.number = Top.number /\ Top.keep
    /\ Fail("memory")

GroupDecoded(tag) ==
    /\ AtEndTag(tag) /\ Top.does = "group" /\ tag.number = Top.number
    /\ Leaves(tag)
    /\ UNCHANGED kept

\* readGroupBytes returns a slice and the caller decodes it on a nested Reader,
\* which is as deep as the scan was.
GroupBytesRead(tag) ==
    LET to == tag.index - tagSize(tag.number)
    IN  /\ AtEndTag(tag) /\ Top.does = "bytes" /\ tag.number = Top.number
        /\ payloads' = Append(payloads, [from |-> Top.from, to |-> to, tag |-> index])
        /\ calls' = Append(Front(calls), MessageCall(tag.index, end))
        /\ index' = Top.from /\ end' = to
        /\ UNCHANGED <<recursion_depth, kept, outcome>>

\* The end of another group, or of none.
WrongEnd(tag) ==
    /\ AtEndTag(tag)
    /\ Top.does = "message" => decoder = "dynamic" \/ ~Declared(tag)
    /\ Top.does # "message" => tag.number # Top.number
    /\ Fail("input")

Next ==
    \/ ReturnFromMessage \/ Complete \/ Broken
    \/ \E tag \in NextTag :
        \/ WrongWireType(tag) \/ ReadScalar(tag) \/ ReadMessage(tag) \/ ReadGroup(tag)
        \/ Skip(tag) \/ OutOfMemory(tag) \/ SkipGroup(tag)
        \/ SkippedGroup(tag) \/ OutOfMemoryForGroup(tag)
        \/ GroupDecoded(tag) \/ GroupBytesRead(tag)
        \/ WrongEnd(tag)

Spec == Init /\ [][Next]_vars
=============================================================================
