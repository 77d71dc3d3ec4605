----------------------------- MODULE FieldStore -----------------------------
(***************************************************************************)
(* The field array of a DynamicMessage (src/src/dynamic.zig): a sequence   *)
(* of entries, one descriptor number and its values each, in storage       *)
(* order.  Every lookup scans the array from the front and every removal   *)
(* is an ArrayList.swapRemove, so the order of the entries depends on the  *)
(* history of the message while what the message says must not.            *)
(***************************************************************************)
EXTENDS MessageSchema, SequencesExt, Subsequence

Entry == [number : Field, values : Seq(Value)]

Numbers(fs) == {fs[i].number : i \in DOMAIN fs}

\* The first position of number n, as every loop over fields.items finds it.
Position(fs, n) ==
    CHOOSE i \in DOMAIN fs :
        fs[i].number = n /\ \A j \in 1 .. i - 1 : fs[j].number # n

\* getByNumber(n).values, or nothing.
Values(fs, n) == IF n \in Numbers(fs) THEN fs[Position(fs, n)].values ELSE <<>>

\* The values of the entry at i replaced.
SetValues(fs, i, vs) ==
    [fs EXCEPT ![i] = [number |-> fs[i].number, values |-> vs]]

WithValues(fs, n, vs) == SetValues(fs, Position(fs, n), vs)

\* std.ArrayList.swapRemove: the last element takes the removed one's place.
SwapRemove(s, i) ==
    [j \in 1 .. Len(s) - 1 |-> IF j = i THEN s[Len(s)] ELSE s[j]]

ClearField(fs, n) ==
    IF n \in Numbers(fs) THEN SwapRemove(fs, Position(fs, n)) ELSE fs

has(fs, n) == Values(fs, n) # <<>>

\* whichOneof: the first stored non-empty member, or nothing.
WhichOneof(fs, o) ==
    {fs[i].number : i \in {j \in DOMAIN fs :
        /\ fs[j].values # <<>> /\ Oneof[fs[j].number] = o
        /\ \A h \in 1 .. j - 1 : fs[h].values = <<>> \/ Oneof[fs[h].number] # o}}

-----------------------------------------------------------------------------
(* Map entries *)

Keys(vs) == {vs[i].key : i \in DOMAIN vs}

\* The first slot holding key k: where add() replaces, clearMapEntry removes
\* and getMapEntry reads.
KeySlot(vs, k) ==
    CHOOSE i \in DOMAIN vs : vs[i].key = k /\ \A j \in 1 .. i - 1 : vs[j].key # k

\* Fault: the last slot is replaced, not the key's.
PutEntryLast(vs, v) ==
    IF v.key \in Keys(vs) THEN [vs EXCEPT ![Len(vs)] = v] ELSE Append(vs, v)

PutEntry(vs, v) ==
    IF v.key \in Keys(vs) THEN [vs EXCEPT ![KeySlot(vs, v.key)] = v]
                          ELSE Append(vs, v)

UniqueKeys(vs) == \A i, j \in DOMAIN vs : vs[i].key = vs[j].key => i = j

NormalizedMaps(fs) ==
    \A i \in DOMAIN fs :
        Kind[fs[i].number] = "map" => UniqueKeys(fs[i].values)

-----------------------------------------------------------------------------
(* Field listing: three algorithms that have to agree.                     *)

PresentNumbers(fs) == {fs[i].number : i \in {j \in DOMAIN fs : fs[j].values # <<>>}}

\* listFieldsAlloc: collect the non-empty entries, sort by number.
listFields(fs) ==
    LET present == PresentNumbers(fs)
    IN  [k \in 1 .. Cardinality(present) |-> Nth(present, k)]

listFieldCount(fs) == Cardinality({j \in DOMAIN fs : fs[j].values # <<>>})

\* Fault: the bound is not excluded.
NextPresentInclusive(fs, lower_bound) ==
    LET above == {n \in PresentNumbers(fs) : n >= lower_bound}
    IN  IF above = {} THEN 0 ELSE CHOOSE n \in above : \A m \in above : n <= m

\* One pass of the selection loop of listFieldAt and listFieldIndex: the
\* smallest present number above the lower bound, 0 when there is none.
NextPresent(fs, lower_bound) ==
    LET above == {n \in PresentNumbers(fs) : n > lower_bound}
    IN  IF above = {} THEN 0 ELSE CHOOSE n \in above : \A m \in above : n <= m

\* listFieldAt(index), counting from 0; 0 stands for null.
listFieldAt(fs, index) ==
    LET at[k \in 0 .. index] ==
            IF k = 0 THEN NextPresent(fs, 0)
            ELSE IF at[k - 1] = 0 THEN 0 ELSE NextPresent(fs, at[k - 1])
    IN  at[index]

\* listFieldIndex(n), counting from 0; -1 stands for null.
listFieldIndex(fs, n) ==
    LET passes == {k \in 0 .. Len(fs) : listFieldAt(fs, k) = n}
    IN  IF passes = {} THEN -1 ELSE CHOOSE k \in passes : TRUE
=============================================================================
