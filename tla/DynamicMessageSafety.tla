------------------------ MODULE DynamicMessageSafety ------------------------
(***************************************************************************)
(* The properties of DynamicMessage, and the sense in which it implements  *)
(* the abstract Message.                                                   *)
(***************************************************************************)
EXTENDS DynamicMessage

(* A field number has one entry, and a singular one holds one value.       *)
(* getByNumber and clearField stop at the first entry they meet, and the   *)
(* encoders write every entry and every value: a second one would be a     *)
(* value nobody can clear and that is encoded twice.                       *)
StoredOnce ==
    \A i \in DOMAIN fields :
        /\ \A j \in DOMAIN fields : fields[i].number = fields[j].number => i = j
        /\ isRepeatedLike(fields[i].number) \/ Len(fields[i].values) <= 1

(* At most one member of a oneof has an entry, at every step of every call *)
(* and whatever allocation failed: whichOneof answers with the first one.  *)
OneofExclusive ==
    \A i, j \in DOMAIN fields :
        i # j => fields[j].number \notin Siblings(fields[i].number)

(* Between calls, and inside every call but decode, a map has one entry    *)
(* per key, unless a decode failed or setRepeatedValue overwrote a map     *)
(* slot: add, getMapEntry and clearMapEntry stop at the first entry.       *)
MapKeysUnique ==
    op # "decode" /\ ~denormalized => NormalizedMaps(fields)

(* listFieldsAlloc sorts, listFieldAt and listFieldIndex select: the three *)
(* give the same order in every storage order a message can reach.         *)
ListingAgrees ==
    LET listed == listFields(fields)
    IN  /\ listFieldCount(fields) = Len(listed)
        /\ \A k \in 1 .. Len(listed) :
              /\ listFieldAt(fields, k - 1) = listed[k]
              /\ listFieldIndex(fields, listed[k]) = k - 1
        /\ listFieldAt(fields, Len(listed)) = 0

(* The call in progress is add or set on a singular or map field. *)
SettingOne == op \in {"add", "set"} /\ fld \notin Repeated

Returns(result) == op # "none" /\ op' = "none" /\ outcome' = result

(* An add or set that fails for want of memory leaves the field's own      *)
(* value in place (Reflection.set does not clear singular fields and maps  *)
(* beforehand for this reason).                                            *)
FailedSetKeepsField ==
    [][SettingOne /\ Returns("error") /\ fld \in prior
          => fld \in PresentNumbers(fields')]_vars

(* Every call returns: clearOneofExcept, which removes by swapRemove and    *)
(* leaves its index where it is, and the compactions with two indexes of    *)
(* clearUnknownFieldsByNumber and of the map deduplication come to an end.  *)
CallsReturn == []<>(pc = "idle")

\* The thread of a call runs it to its end.
Fairness == WF_vars(Add \/ Forget \/ Merge \/ Decode)

FairSpec == Spec /\ Fairness

-----------------------------------------------------------------------------
(* What comments of the code say and the code does not do.                 *)

(* Reflection.set: "Replace a singular field ...".                         *)
SetReplaces ==
    [][op = "set" /\ SettingOne /\ Kind[fld] # "map" /\ Returns("ok")
          => Values(fields', fld) = <<val>>]_vars

(* Reflection.set: "if allocation fails while adding the replacement,      *)
(* callers should not lose the previous value", here the oneof's.          *)
FailedSetKeepsOneof ==
    [][op = "set" /\ SettingOne /\ Returns("error")
          => \A g \in prior : g \in {fld} \cup Siblings(fld)
                => g \in PresentNumbers(fields')]_vars

(* cloneDynamicMessage: "DynamicMessage state is already normalized when   *)
(* it is built", so that a clone copies the arrays as they are; here, a    *)
(* message built by decode.                                                *)
DecodeLeavesNormalized ==
    [][op = "decode" /\ op' = "none" => NormalizedMaps(fields')]_vars

(* The same, for a message built by successful calls only.                 *)
CallsLeaveNormalized ==
    pc = "idle" /\ outcome = "ok" => NormalizedMaps(fields)

-----------------------------------------------------------------------------
(* Refinement.                                                             *)

\* The values of the entry at i that count: the compaction has moved the ones
\* before wr and not read the ones from rd on.
LiveValues(i) ==
    LET vs == fields[i].values
    IN  IF pc = "dedup" /\ i = idx /\ Duplicable
        THEN SubSeq(vs, 1, wr - 1) \o SubSeq(vs, rd, Len(vs))
        ELSE vs

LastBody(vs, k) ==
    vs[CHOOSE i \in DOMAIN vs :
         vs[i].key = k /\ \A j \in i + 1 .. Len(vs) : vs[j].key # k].body

\* What the values of a field say: the last payload of each key of a map, the
\* payloads in order of the others.
Meaning(f, vs) ==
    IF Kind[f] = "map"
    THEN [k \in Keys(vs) |-> LastBody(vs, k)]
    ELSE [i \in DOMAIN vs |-> vs[i].body]

\* The values of field f that count: none while its oneof is being cleared.
Shown(f) ==
    IF f \notin Numbers(fields) \/ (pc = "clear" /\ f \in drop)
    THEN <<>> ELSE LiveValues(Position(fields, f))

\* What field f holds.
Holds(f) == Meaning(f, Shown(f))

\* What the message says.
Said == [f \in Field |-> Holds(f)]

\* The unknown fields without those a call is removing.
LiveUnknown ==
    IF pc = "forget"
    THEN SubSeq(unknown_fields, 1, wr - 1)
         \o AtPositions(unknown_fields,
                        {i \in rd .. Len(unknown_fields) :
                            unknown_fields[i].number \notin drop})
    ELSE unknown_fields

(* A decode that succeeds says what its input said: no step of the          *)
(* compaction, which moves values within the array it reads, changes what   *)
(* a map holds, the last payload of each key.                               *)
DedupInvisible ==
    [][pc = "dedup" => \A f \in Field : Holds(f)' = Holds(f)]_vars

Nothing == [f \in Field |-> IF Kind[f] = "map" THEN [k \in {} |-> <<>>] ELSE <<>>]

Abstract == INSTANCE Message WITH
    contents  <- IF denormalized THEN Nothing ELSE Said,
    unknown   <- IF denormalized THEN <<>> ELSE LiveUnknown,
    specified <- ~denormalized,
    Unknown   <- UnknownField,
    Slots     <- 1 .. MaxValues,
    MaxNested <- MaxBody

(* Every step of DynamicMessage is a step of Message or invisible in it:   *)
(* last write wins, merges concatenate, order of storage does not show.    *)
ImplementsMessage == Abstract!Spec
=============================================================================
