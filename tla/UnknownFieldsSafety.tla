------------------------- MODULE UnknownFieldsSafety -------------------------
(***************************************************************************)
(* The properties of UnknownFields.                                        *)
(***************************************************************************)
EXTENDS UnknownFields

\* What holds blocks: a message, less what the call in progress has taken out of
\* it, and that call.
Holder == ({"message"} \X Message) \cup {<<"call", Some>>}

Held(h) ==
    IF h[1] = "call" THEN call.fresh
    ELSE IF h[2] = call.into /\ call.does \in {"remove", "items"}
    THEN [unknown[h[2]] EXCEPT !.fields = call.items]
    ELSE unknown[h[2]]

Owned(table) == ({table.block} \ {NoTable}) \cup FieldBlocks(table)

\* No block is held in two places of a table.
Distinct(table) ==
    /\ table.block \notin FieldBlocks(table)
    /\ \A i, j \in DOMAIN table.fields :
          table.fields[i].block = table.fields[j].block => i = j

(* Every allocated block is held in one place, and what is held is         *)
(* allocated: no call, wherever it fails, leaks a field or a table, frees  *)
(* one a message still has or leaves two messages the same one.            *)
OwnedOnce ==
    /\ \A h \in Holder : Distinct(Held(h)) /\ Owned(Held(h)) \subseteq heap
    /\ \A g, h \in Holder : g # h => Owned(Held(g)) \cap Owned(Held(h)) = {}
    /\ \A b \in heap : \E h \in Holder : b \in Owned(Held(h))

(* A table is allocated for the fields in it: freeRawFields frees the      *)
(* table of a message with fields only, and a variable without a message   *)
(* has none.                                                               *)
TablesHoldFields ==
    \A m \in Message :
        /\ unknown[m].block = NoTable <=> unknown[m].fields = <<>>
        /\ m \notin defined => unknown[m] = Empty

(* What a message of a type decoded by nextTag stores is what              *)
(* validateRawField accepts: the matcher and clearRawFieldsByNumber take   *)
(* it for unreachable that a stored field has no number.  The raw-tag loop *)
(* stores fields with tags of up to ten bytes, which validateRawField      *)
(* refuses: there a stored field is one whole field to that loop.          *)
StoredFieldsValid ==
    \A m \in Message : \A i \in DOMAIN unknown[m].fields :
        LET s == unknown[m].fields[i].bytes
        IN  IF RawTags THEN WholeField(s, MaxVarint) ELSE validateRawField(s)

Stored(m) == Bytes(unknown[m].fields)

\* The next four are looked at between calls: none writes a table before its end.

(* Encoding a message writes its unknown fields one behind the other;      *)
(* decoding that, by the loop of the type, gives the same fields, however  *)
(* long their tags are.                                                    *)
RoundTrip ==
    call.does = "none" =>
        \A m \in Message : ReadMessage(FlattenSeq(Stored(m))) = [ok |-> TRUE, fields |-> Stored(m)]

(* The ways to ask for a number agree, canonical tags or not: the matcher  *)
(* of hasUnknownFieldNumber and of the queries by number takes the fields  *)
(* rawFieldNumber gives that number, and unknownFieldNumberRunsAlloc and   *)
(* its binary search count what unknownFieldCountByNumber counts.  Behind  *)
(* a tag that only the raw-tag loop accepts, the matcher runs into its     *)
(* "catch unreachable": types decoded by that loop are left out.           *)
QueriesAgree ==
    call.does = "none" /\ ~RawTags =>
        \A m \in Message, number \in Asked :
            /\ \A i \in DOMAIN Stored(m) :
                  matches(number, Stored(m)[i]) <=> rawFieldNumber(Stored(m)[i]) = number
            /\ rawFieldNumberRunCount(NumberRuns(Stored(m)), number)
                  = Len(FieldsByNumber(Stored(m), number))

(* The deterministic encoding of unknown fields does not depend on the     *)
(* order they came in.  (It may in types decoded by the raw-tag loop: a    *)
(* field whose tag nextTag refuses is compared by its bytes, the others by *)
(* their numbers, and that is no order.)                                   *)
DeterministicAgrees ==
    call.does = "none" /\ ~RawTags =>
        \A m \in Message :
            LET raws == Stored(m)
            IN  \A p \in Bijection(DOMAIN raws, DOMAIN raws) :
                    Deterministic([i \in DOMAIN raws |-> raws[p[i]]]) = Deterministic(raws)

\* The fields of a group that was validated.
FieldsOfGroup(s) ==
    LET Within(from) ==
            LET Inside(to) == ReadFields(SubSeq(s, from + 1, to))
                Ends(tag)  == tag.ok /\ tag.wire_type = EndGroup /\ tag.index = Len(s)
            IN  {Inside(to).fields : to \in {k \in from .. Len(s) :
                                                Ends(NextTag(s, k)) /\ Inside(k).ok}}
    IN  CHOOSE fields \in Within(FirstTag(s).index) : TRUE

\* What a group 1 means in a message set, by its fields 2 and 3.
ItemMeaning(s, number) ==
    LET Id(f, tag)     == IF tag.wire_type = Varint THEN TypeId(f, tag.index, Len(f)) ELSE 0
        Ids(fields)    == [k \in DOMAIN fields |-> Id(fields[k], FirstTag(fields[k]))]
        Payload(f)     == FirstTag(f).wire_type = LengthDelimited
        Means(ids, payloads) ==
            IF 0 \in ToSet(ids) \/ \E f \in ToSet(payloads) : ~Payload(f) THEN "error"
            ELSE IF ids # <<>> /\ payloads # <<>> /\ Last(ids) = number THEN "value"
            ELSE "none"
        Parts(fields)  ==
            LET Numbered(k) == AtPositions(fields, {i \in DOMAIN fields : FirstTag(fields[i]).number = k})
            IN  Means(Ids(Numbered(2)), Numbered(3))
    IN  Parts(FieldsOfGroup(s))

(* decodeRaw takes an item of a message set, its fields in any order and   *)
(* among others, for a value of the extension when the last type id of the *)
(* item is the extension's and there is a payload.                         *)
ItemsAgree ==
    call.does = "none" /\ MessageSet =>
        \A m \in Message : \A s \in ToSet(Stored(m)) :
            FirstTag(s).number = 1 /\ FirstTag(s).wire_type = StartGroup =>
                DecodeRaw(s, Extension) = ItemMeaning(s, Extension)

FieldsStored == [m \in Message |-> Stored(m)]

NumberOf(s) == FirstTag(s).number
OfExtension(s) == DecodeRaw(s, Extension) # "none"

(* The calls do to the bytes of the fields what UnknownFieldLog says, in   *)
(* one step each, wherever they fail.                                      *)
Log == INSTANCE UnknownFieldLog
    WITH log <- FieldsStored, Valid <- validateRawField, Read <- ReadMessage

ImplementsLog == Log!Spec

-----------------------------------------------------------------------------
(* What comments and examples of the code say and the code does not do.    *)

(* "var reuse = demo.Person.init(); defer reuse.deinit(allocator); try     *)
(* reuse.decodeReuse(allocator, person_bytes);": the message can be        *)
(* deinited after decodeReuse, which may have failed.                      *)
ReuseKeepsMessage ==
    [][call.does = "decode" /\ call.reuse /\ call'.does = "none"
          => call.into \in defined']_vars

(* "The raw bytes themselves are still individually owned": between calls, *)
(* every field of a message is an allocated block.                         *)
FieldsOwned ==
    call.does = "none" => \A m \in Message : Blocks(unknown[m]) \subseteq heap

(* "Generated messages preserve exact raw bytes for lossless unknown-field *)
(* round-tripping": the value of a singular extension is that of the last  *)
(* of its fields (decodeFirstFromUnknown), and a deterministic encoding    *)
(* has the same.                                                           *)
ExtensionValue(raws, number) ==
    LET Is(s)  == FirstTag(s).number = number /\ FirstTag(s).wire_type = Varint
        values == AtPositions(raws, {i \in DOMAIN raws : Is(raws[i])})
    IN  IF values = <<>> THEN <<>>
        ELSE SubSeq(Last(values), FirstTag(Last(values)).index + 1, Len(Last(values)))

DeterministicKeepsValue ==
    \A m \in Message, number \in Asked :
        ExtensionValue(Deterministic(Stored(m)), number) = ExtensionValue(Stored(m), number)
=============================================================================
