------------------------------- MODULE Message -------------------------------
(***************************************************************************)
(* What a DynamicMessage promises: a message is a value for every field,   *)
(* at most one field of each oneof is set, a singular message merges, a    *)
(* map maps each key to its last write, and no operation shows the order   *)
(* entries are stored in, empty entries, or an allocation that failed,     *)
(* except that a write may clear its oneof and then fail.                  *)
(* After a decode that fails, or a map slot overwritten by position, the   *)
(* contents are unspecified until the message is cleared.                  *)
(***************************************************************************)
EXTENDS MessageSchema, SequencesExt, Subsequence

CONSTANT Unknown    \* unknown fields: records with a number and data

VARIABLES
    contents,   \* contents[f]: a sequence of payloads, or a key -> payload map
    unknown,    \* the unknown fields, in order of arrival
    specified   \* FALSE when the contents are unspecified

vars == <<contents, unknown, specified>>

Absent(f) == IF Kind[f] = "map" THEN [k \in {} |-> <<>>] ELSE <<>>

Empty == [f \in Field |-> Absent(f)]

IsAbsent(f) == contents[f] = Absent(f)

Init == contents = Empty /\ unknown = <<>> /\ specified = TRUE

-----------------------------------------------------------------------------
(* A write to f with value v, its oneof being free of other members. *)
Written(f, v) ==
    CASE Kind[f] = "map" ->
            [k \in DOMAIN contents[f] \cup {v.key} |->
                IF k = v.key THEN v.body ELSE contents[f][k]]
      [] f \in Repeated -> Append(contents[f], v.body)
      [] shouldMergeSingularMessageField(f) /\ ~IsAbsent(f) ->
            <<contents[f][1] \o v.body>>
      [] OTHER -> <<v.body>>

Put(f, v) ==
    /\ specified
    /\ \A g \in Siblings(f) : IsAbsent(g)
    /\ contents' = [contents EXCEPT ![f] = Written(f, v)]
    /\ UNCHANGED <<unknown, specified>>

\* Clearing fields: one field, a oneof, or the siblings of a field about to be
\* written.
ClearFields(S) ==
    /\ specified
    /\ contents' = [f \in Field |-> IF f \in S THEN Absent(f) ELSE contents[f]]
    /\ UNCHANGED <<unknown, specified>>

RemoveSlot(f, i) ==
    /\ specified /\ f \in Repeated
    /\ i \in DOMAIN contents[f]
    /\ contents' = [contents EXCEPT ![f] = RemoveAt(@, i)]
    /\ UNCHANGED <<unknown, specified>>

SetSlot(f, i, v) ==
    /\ specified /\ f \in Repeated
    /\ i \in DOMAIN contents[f]
    /\ contents' = [contents EXCEPT ![f][i] = v.body]
    /\ UNCHANGED <<unknown, specified>>

SwapSlots(f, i, j) ==
    /\ specified /\ f \in Repeated
    /\ i \in DOMAIN contents[f] /\ j \in DOMAIN contents[f]
    /\ contents' = [contents EXCEPT ![f][i] = contents[f][j], ![f][j] = contents[f][i]]
    /\ UNCHANGED <<unknown, specified>>

RemoveKey(f, k) ==
    /\ specified /\ Kind[f] = "map"
    /\ contents' = [contents EXCEPT ![f] =
                        [q \in DOMAIN contents[f] \ {k} |-> contents[f][q]]]
    /\ UNCHANGED <<unknown, specified>>

AddUnknown(u) ==
    /\ specified
    /\ unknown' = Append(unknown, u)
    /\ UNCHANGED <<contents, specified>>

DropUnknown(N) ==
    /\ specified
    /\ unknown' = AtPositions(unknown, {i \in DOMAIN unknown : unknown[i].number \notin N})
    /\ UNCHANGED <<contents, specified>>

Clear == Init'

\* The contents become unspecified; an empty message stands for them.
Lose == contents' = Empty /\ unknown' = <<>> /\ specified' = FALSE

CONSTANTS Slots, MaxNested  \* positions and payload lengths to quantify over

Next ==
    \/ \E f \in Field : \E v \in ValuesFor(f, MaxNested) : Put(f, v)
    \/ \E S \in {{f} : f \in Field} \cup {Siblings(f) : f \in Field}
                \cup {Members(o) : o \in OneofName} : ClearFields(S)
    \/ \E f \in Field, i \in Slots : RemoveSlot(f, i)
    \/ \E f \in Field, i \in Slots : \E v \in ValuesFor(f, MaxNested) : SetSlot(f, i, v)
    \/ \E f \in Field, i, j \in Slots : SwapSlots(f, i, j)
    \/ \E f \in Field : \E k \in DOMAIN contents[f] : RemoveKey(f, k)
    \/ \E u \in Unknown : AddUnknown(u)
    \/ \E N \in SUBSET {u.number : u \in Unknown} : DropUnknown(N)
    \/ Clear
    \/ Lose

Spec == Init /\ [][Next]_vars
=============================================================================
