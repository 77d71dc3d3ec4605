---------------------------- MODULE UnknownFields ----------------------------
(***************************************************************************)
(* The unknown fields of generated messages (_unknown_fields in the code   *)
(* src/src/codegen.zig emits, with the functions of src/src/wire.zig it    *)
(* calls): a table of slices, each of them an allocation of its own, that  *)
(* appending, merging, cloning, decoding and clearing move between a       *)
(* message, a call and the allocator.  Extension values are stored here    *)
(* too.  A step is one allocation, with what is done until the next; every *)
(* allocation may fail.  The declared fields of the messages are left out. *)
(***************************************************************************)
EXTENDS RawField

CONSTANTS
    Message,        \* variables of one generated message type
    Raw,            \* the bytes appendUnknownRaw is called with
    Encoded,        \* the bytes messages are decoded from
    Asked,          \* field numbers asked for or cleared
    Extension,      \* number of the message-set extension
    MessageSet,     \* whether the type has message_set_wire_format
    RawTags,        \* whether it is decoded by the loop that reads a tag as a
                    \* varint (messageCanFastRawTagDecode), not by nextTag
    Room            \* bound: fields of a message

ASSUME MessageAssumption == Message # {}

ASSUME RawAssumption == Raw \subseteq Seq(Byte) /\ Encoded \subseteq Seq(Byte)

\* Numbers are FieldNumbers (u29).
ASSUME NumberAssumption == Asked \subseteq FieldNumber /\ Extension \in FieldNumber

\* A message set has no fields of its own (the parser and the descriptor decoder
\* refuse one that has), and the other loop is for types with strings, bytes or at
\* least eight fields.
ASSUME LoopAssumption == RawTags \in BOOLEAN /\ (MessageSet => ~RawTags)

VARIABLES
    heap,       \* the blocks that are allocated
    unknown,    \* unknown[m]: the table of m's fields
    defined,    \* the variables that hold a message; the others were never
                \* assigned, or deinit left them undefined
    call        \* the call in progress

vars == <<heap, unknown, defined, call>>

\* A table is a block unless it is empty (&.{}); so is each field in it.
NoTable == 0
Field == [block : Nat \ {0}, bytes : Seq(Byte)]
Table == [block : Nat, fields : Seq(Field)]

Empty == [block |-> NoTable, fields |-> <<>>]

(* does: "append" appends raws to a message's fields, "decode" stores them *)
(* as those of a new message, or of the same one (reuse), "remove" clears  *)
(* by number and "items" the values of the message-set extension.  fresh   *)
(* is the table the call builds; todo are the raws still to be copied,     *)
(* items the fields still to be kept or freed; then is appended after.     *)
Call ==
    [does   : {"none", "append", "decode", "remove", "items"},
     into   : Message,
     fresh  : Table,
     todo   : Seq(Seq(Byte)),
     items  : Seq(Field),
     then   : Seq(Seq(Byte)),
     number : Nat,
     reuse  : BOOLEAN,
     broken : BOOLEAN]  \* the input goes on with an error

Some == CHOOSE m \in Message : TRUE

NoCall ==
    [does |-> "none", into |-> Some, fresh |-> Empty, todo |-> <<>>, items |-> <<>>,
     then |-> <<>>, number |-> 0, reuse |-> FALSE, broken |-> FALSE]

TypeOK ==
    /\ heap \subseteq Nat \ {0}
    /\ unknown \in [Message -> Table]
    /\ defined \subseteq Message
    /\ call \in Call

Init ==
    /\ heap = {} /\ defined = {}
    /\ unknown = [m \in Message |-> Empty]
    /\ call = NoCall

-----------------------------------------------------------------------------
Bytes(fields) == [i \in DOMAIN fields |-> fields[i].bytes]

FieldBlocks(table) == {table.fields[i].block : i \in DOMAIN table.fields}

\* What freeRawFields frees.
Blocks(table) ==
    IF table.fields = <<>> THEN {} ELSE {table.block} \cup FieldBlocks(table)

\* The allocator's next block.
Block == CHOOSE b \in 1 .. Cardinality(heap) + 1 : b \notin heap

\* Nothing is freed that is in use: what a call does otherwise is undefined and
\* not modelled.
Idle ==
    /\ call.does = "none"
    /\ \A m \in Message : Blocks(unknown[m]) \subseteq heap

Running(does) == call.does = does

Return == call' = NoCall

\* Fault: an empty batch aside, nothing is validated.
AppendUnchecked(m, raws) ==
    call' = IF raws = <<>> THEN NoCall
            ELSE [NoCall EXCEPT !.does = "append", !.into = m, !.todo = raws]

\* appendRawFieldsClone: all are validated before anything is allocated.
Appending(m, raws) ==
    call' = IF raws = <<>> \/ \E i \in DOMAIN raws : ~validateRawField(raws[i])
            THEN NoCall
            ELSE [NoCall EXCEPT !.does = "append", !.into = m, !.todo = raws]

-----------------------------------------------------------------------------
(* Calls *)

Construct(m) ==
    /\ Idle /\ m \notin defined
    /\ defined' = defined \cup {m}
    /\ UNCHANGED <<heap, unknown, call>>

Freed(m) ==
    /\ heap' = heap \ Blocks(unknown[m])
    /\ unknown' = [unknown EXCEPT ![m] = Empty]

Deinit(m) ==
    /\ Idle /\ m \in defined
    /\ Freed(m)
    /\ defined' = defined \ {m}
    /\ UNCHANGED call

ClearUnknownFields(m) ==
    /\ Idle /\ m \in defined
    /\ Freed(m)
    /\ UNCHANGED <<defined, call>>

HasRoom(m, raws) == Len(unknown[m].fields) + Len(raws) <= Room

\* appendUnknownRaw, and an extension's appendToUnknown.
AppendUnknownRaw(m, raw) ==
    /\ Idle /\ m \in defined /\ HasRoom(m, <<raw>>)
    /\ Appending(m, <<raw>>)
    /\ UNCHANGED <<heap, unknown, defined>>

\* A message may be merged into itself.
MergeFrom(m, other) ==
    LET raws == Bytes(unknown[other].fields)
    IN  /\ Idle /\ m \in defined /\ other \in defined /\ HasRoom(m, raws)
        /\ Appending(m, raws)
        /\ UNCHANGED <<heap, unknown, defined>>

\* The result of cloneOwned is assigned to a variable that holds no message.
CloneOwned(m, other) ==
    LET raws == Bytes(unknown[other].fields)
    IN  /\ Idle /\ m \notin defined /\ other \in defined
        /\ IF raws = <<>> THEN defined' = defined \cup {m} /\ UNCHANGED call
           ELSE /\ call' = [NoCall EXCEPT !.does = "append", !.into = m, !.todo = raws]
                /\ UNCHANGED defined
        /\ UNCHANGED <<heap, unknown>>

\* The loop of the type: what ends a tag.
LongestTag == IF RawTags THEN MaxVarint ELSE MaxTag

ReadMessage(s) == ReadFieldsOf(s, LongestTag)

\* decode gives a new message; decodeReuse clears the one it is called on first.
CallDecode(m, s) ==
    /\ Idle /\ Len(ReadMessage(s).fields) <= Room
    /\ Freed(m)
    /\ call' = [NoCall EXCEPT !.does = "decode", !.into = m,
                    !.todo = ReadMessage(s).fields, !.broken = ~ReadMessage(s).ok,
                    !.reuse = m \in defined]
    /\ UNCHANGED defined

\* Clearing looks at all fields before it changes anything.
Malformed(m) ==
    \E i \in DOMAIN unknown[m].fields :
        unknown[m].fields[i].bytes # <<>> /\ ~FirstTag(unknown[m].fields[i].bytes).ok

NumbersOf(m) == {rawFieldNumber(unknown[m].fields[i].bytes) : i \in DOMAIN unknown[m].fields}

\* clearUnknownFieldsByNumber and an extension's clearFromUnknown; with a raw
\* field, its replaceInUnknown.  A field without bytes is removed too.
CallRemove(m, number, then) ==
    /\ Idle /\ m \in defined /\ HasRoom(m, then)
    /\ IF Malformed(m) THEN Return
       ELSE IF NumbersOf(m) \cap {0, number} = {} THEN Appending(m, then)
       ELSE call' = [NoCall EXCEPT !.does = "remove", !.into = m, !.number = number,
                        !.then = then, !.items = unknown[m].fields]
    /\ UNCHANGED <<heap, unknown, defined>>

\* The same of a message-set extension.
CallClearItems(m, then) ==
    /\ Idle /\ m \in defined /\ MessageSet /\ HasRoom(m, then)
    /\ IF unknown[m].fields = <<>> THEN Appending(m, then)
       ELSE call' = [NoCall EXCEPT !.does = "items", !.into = m, !.then = then,
                        !.items = unknown[m].fields]
    /\ UNCHANGED <<heap, unknown, defined>>

-----------------------------------------------------------------------------
(* Copies: appendRawFieldsCloneUnchecked, cloneRawFields, appendConsumedRawField *)

Copying == call.does \in {"append", "decode"} /\ call.todo # <<>>

\* Fault: what does not decode is taken for another extension's value.
VerdictOrOther(field) ==
    IF Running("remove")
    THEN IF rawFieldNumber(field.bytes) \in {0, call.number} THEN "value" ELSE "none"
    ELSE IF DecodeRaw(field.bytes, Extension) = "value" THEN "value" ELSE "none"

\* What clearing finds in a field: a value to free, "none", or an error.
Verdict(field) ==
    IF Running("remove")
    THEN IF rawFieldNumber(field.bytes) \in {0, call.number} THEN "value" ELSE "none"
    ELSE DecodeRaw(field.bytes, Extension)

NextIs(verdict) == call.items # <<>> /\ Verdict(Head(call.items)) = verdict

KeepsSome == \E i \in DOMAIN call.items : Verdict(call.items[i]) = "none"

\* clearRawFieldsByNumber counts first; for message sets it is append that
\* allocates.
NeedsTable ==
    /\ call.fresh.block = NoTable
    /\ \/ Copying
       \/ Running("remove") /\ KeepsSome
       \/ Running("items") /\ NextIs("none")

AllocateTable ==
    /\ NeedsTable
    /\ heap' = heap \cup {Block}
    /\ call' = [call EXCEPT !.fresh.block = Block]
    /\ UNCHANGED <<unknown, defined>>

\* Fault: the caller's bytes are stored, not a copy of them.
CopyNothing ==
    /\ Copying /\ call.fresh.block # NoTable
    /\ call' = [call EXCEPT !.todo = Tail(@),
                    !.fresh.fields = Append(@, [block |-> NoTable, bytes |-> Head(call.todo)])]
    /\ UNCHANGED <<heap, unknown, defined>>

CopyField ==
    /\ Copying /\ call.fresh.block # NoTable
    /\ heap' = heap \cup {Block}
    /\ call' = [call EXCEPT !.todo = Tail(@),
                    !.fresh.fields = Append(@, [block |-> Block, bytes |-> Head(call.todo)])]
    /\ UNCHANGED <<unknown, defined>>

\* Fault: the fields of a batch are appended as they are copied.
AppendedEach ==
    LET old == unknown[call.into]
    IN  /\ Running("append") /\ call.fresh.fields # <<>>
        /\ unknown' = [unknown EXCEPT ![call.into] =
                [block |-> call.fresh.block, fields |-> old.fields \o call.fresh.fields]]
        /\ heap' = heap \ {old.block}
        /\ defined' = defined \cup {call.into}
        /\ call' = [call EXCEPT !.fresh = Empty,
                        !.does = IF call.todo = <<>> THEN "none" ELSE "append"]

\* The old table is freed, its fields live on in the new one.
Appended ==
    LET old == unknown[call.into]
    IN  /\ Running("append") /\ call.todo = <<>>
        /\ unknown' = [unknown EXCEPT ![call.into] =
                [block |-> call.fresh.block, fields |-> old.fields \o call.fresh.fields]]
        /\ heap' = heap \ {old.block}
        /\ defined' = defined \cup {call.into}
        /\ Return

Decoded ==
    /\ Running("decode") /\ call.todo = <<>> /\ ~call.broken
    /\ unknown' = [unknown EXCEPT ![call.into] = call.fresh]
    /\ defined' = defined \cup {call.into}
    /\ UNCHANGED heap
    /\ Return

-----------------------------------------------------------------------------
(* Removal: clearRawFieldsByNumber, and of message-set values, one field at a *)
(* time; the message has its old table until the end.                         *)

FreeField ==
    /\ ~NeedsTable /\ NextIs("value")
    /\ heap' = heap \ {Head(call.items).block}
    /\ call' = [call EXCEPT !.items = Tail(@)]
    /\ UNCHANGED <<unknown, defined>>

KeepField ==
    /\ ~NeedsTable /\ NextIs("none")
    /\ call' = [call EXCEPT !.items = Tail(@), !.fresh.fields = Append(@, Head(call.items))]
    /\ UNCHANGED <<heap, unknown, defined>>

Cleared ==
    /\ call.does \in {"remove", "items"} /\ call.items = <<>>
    /\ unknown' = [unknown EXCEPT ![call.into] = call.fresh]
    /\ heap' = heap \ {unknown[call.into].block}
    /\ Appending(call.into, call.then)
    /\ UNCHANGED defined

-----------------------------------------------------------------------------
(* Errors *)

\* Fault: the copies are not freed.
FailsLeaking ==
    /\ heap' = heap \ {call.fresh.block}
    /\ defined' = IF Running("decode") THEN defined \ {call.into} ELSE defined
    /\ UNCHANGED unknown
    /\ Return

\* What the errdefers free: the copies and their table, of the message-set
\* values kept only the table.  decodeReuse deinits its message.
Fails ==
    /\ heap' = heap \ ((IF Running("items") THEN {} ELSE Blocks(call.fresh))
                            \cup {call.fresh.block})
    /\ defined' = IF Running("decode") THEN defined \ {call.into} ELSE defined
    /\ UNCHANGED unknown
    /\ Return

\* toOwnedSlice may allocate.
Shrinking ==
    /\ call.does \in {"decode", "items"} /\ call.todo = <<>> /\ call.items = <<>>
    /\ ~call.broken
    /\ call.fresh.fields # <<>>

OutOfMemory ==
    /\ Copying \/ NeedsTable \/ Shrinking \/ (Running("items") /\ NextIs("none"))
    /\ Fails

BadInput ==
    /\ \/ Running("decode") /\ call.todo = <<>> /\ call.broken
       \/ Running("items") /\ NextIs("error")
    /\ Fails

-----------------------------------------------------------------------------
\* What encodeRaw gives for a value of an extension, and of one of a message set.
EncodedValue(number) == {raw \in Raw : validateRawField(raw) /\ rawFieldNumber(raw) = number}
EncodedItem == {raw \in Raw : DecodeRaw(raw, Extension) = "value"}

Calls(m) ==
    \/ Construct(m) \/ Deinit(m) \/ ClearUnknownFields(m)
    \/ \E raw \in Raw : AppendUnknownRaw(m, raw)
    \/ \E other \in Message : MergeFrom(m, other) \/ CloneOwned(m, other)
    \/ \E s \in Encoded : CallDecode(m, s)
    \/ \E number \in Asked :
        \/ CallRemove(m, number, <<>>)
        \/ \E raw \in EncodedValue(number) : CallRemove(m, number, <<raw>>)
    \/ CallClearItems(m, <<>>)
    \/ \E raw \in EncodedItem : CallClearItems(m, <<raw>>)

Next ==
    \/ \E m \in Message : Calls(m)
    \/ AllocateTable \/ CopyField \/ Appended \/ Decoded
    \/ FreeField \/ KeepField \/ Cleared
    \/ OutOfMemory \/ BadInput

Spec == Init /\ [][Next]_vars
=============================================================================
