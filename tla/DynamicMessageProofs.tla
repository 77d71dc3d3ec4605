------------------------ MODULE DynamicMessageProofs ------------------------
(***************************************************************************)
(* Proofs that a DynamicMessage keeps its field array well formed (one     *)
(* entry per number, one member per oneof, one value per singular field)   *)
(* and its maps normalized, for every message type, source and bound, at   *)
(* every step of every call, allocation failures included.                 *)
(***************************************************************************)
EXTENDS DynamicMessageSafety, CommonProofs

-----------------------------------------------------------------------------
(* The operators of FieldStore: what looking up, replacing, appending and   *)
(* swap-removing entries keep of a well-formed field array.                 *)

\* One entry per number, one member per oneof, one value per singular field.
WellFormed(fs) ==
    /\ fs \in Seq(Entry)
    /\ \A i, j \in DOMAIN fs : fs[i].number = fs[j].number => i = j
    /\ \A i, j \in DOMAIN fs : i # j => fs[j].number \notin Siblings(fs[i].number)
    /\ \A i \in DOMAIN fs : isRepeatedLike(fs[i].number) \/ Len(fs[i].values) <= 1

\* What the values of field n have to be.
Fits(n, vs) == vs \in Seq(Value) /\ (isRepeatedLike(n) \/ Len(vs) <= 1)

\* An entry of a map has one value per key.
Normalized(n, vs) == Kind[n] = "map" => UniqueKeys(vs)

-----------------------------------------------------------------------------
(* Being in the same oneof goes both ways.                                  *)
LEMMA SiblingsSymmetric ==
    ASSUME NEW f \in Field, NEW g \in Field, g \in Siblings(f)
    PROVE  f \in Siblings(g)
BY DEF Siblings, Members

(* A field that may hold several values is in no oneof.                     *)
LEMMA RepeatedHasNoSiblings ==
    ASSUME NEW f \in Field, isRepeatedLike(f)
    PROVE  Siblings(f) = {}
BY OneofAssumption DEF Siblings

(* Position finds an entry of the number it looks for.                      *)
LEMMA PositionFound ==
    ASSUME NEW fs \in Seq(Entry), NEW n \in Numbers(fs)
    PROVE  /\ Position(fs, n) \in DOMAIN fs
           /\ fs[Position(fs, n)].number = n
<1> DEFINE T == {i \in DOMAIN fs : fs[i].number = n}
<1>1. DOMAIN fs = 1 .. Len(fs) /\ Len(fs) \in Nat
  BY LenProperties
<1>2. T # {} /\ T \subseteq Nat
  BY <1>1 DEF Numbers
<1>3. PICK i \in T : \A j \in T : ~ (j < i)
  BY <1>2, LeastPosition
<1>4. \A j \in 1 .. i - 1 : fs[j].number # n
  BY <1>1, <1>3
<1> QED
  BY <1>3, <1>4 DEF Position

(* KeySlot finds a map entry with the key it looks for.                     *)
LEMMA KeySlotFound ==
    ASSUME NEW vs \in Seq(Value), NEW k \in Keys(vs)
    PROVE  /\ KeySlot(vs, k) \in DOMAIN vs
           /\ vs[KeySlot(vs, k)].key = k
           /\ \A j \in 1 .. KeySlot(vs, k) - 1 : vs[j].key # k
<1> DEFINE T == {i \in DOMAIN vs : vs[i].key = k}
<1>1. DOMAIN vs = 1 .. Len(vs) /\ Len(vs) \in Nat
  BY LenProperties
<1>2. T # {} /\ T \subseteq Nat
  BY <1>1 DEF Keys
<1>3. PICK i \in T : \A j \in T : ~ (j < i)
  BY <1>2, LeastPosition
<1>4. \A j \in 1 .. i - 1 : vs[j].key # k
  BY <1>1, <1>3
<1> QED
  BY <1>3, <1>4 DEF KeySlot

(* What getByNumber returns fits the field.                                 *)
LEMMA ValuesFit ==
    ASSUME NEW fs, WellFormed(fs), NEW n
    PROVE  Fits(n, Values(fs, n))
<1>1. CASE n \in Numbers(fs)
  <2>1. /\ Position(fs, n) \in DOMAIN fs
        /\ fs[Position(fs, n)].number = n
    BY <1>1, PositionFound DEF WellFormed
  <2>2. fs[Position(fs, n)] \in Entry
    BY <2>1, ElementOfSeq, LenProperties DEF WellFormed
  <2> QED
    BY <1>1, <2>1, <2>2 DEF Values, Fits, WellFormed, Entry
<1>2. CASE n \notin Numbers(fs)
  BY <1>2, EmptySeq DEF Values, Fits
<1> QED
  BY <1>1, <1>2

(* Replacing the values of an entry changes nothing else.                   *)
LEMMA SetValuesIs ==
    ASSUME NEW fs, WellFormed(fs), NEW p \in DOMAIN fs,
           NEW vs, Fits(fs[p].number, vs)
    PROVE  LET new == SetValues(fs, p, vs)
           IN  /\ WellFormed(new) /\ Len(new) = Len(fs)
               /\ Numbers(new) = Numbers(fs)
               /\ \A j \in DOMAIN fs : new[j].number = fs[j].number
               /\ \A j \in DOMAIN fs :
                    new[j].values = IF j = p THEN vs ELSE fs[j].values
               /\ NormalizedMaps(fs) /\ Normalized(fs[p].number, vs) => NormalizedMaps(new)
<1> DEFINE n == fs[p].number
           e == [number |-> n, values |-> vs]
           new == SetValues(fs, p, vs)
<1>1. fs \in Seq(Entry) /\ DOMAIN fs = 1 .. Len(fs) /\ Len(fs) \in Nat
  BY LenProperties DEF WellFormed
<1>2. e \in Entry /\ e.number = n /\ e.values = vs
  <2>1. fs[p] \in Entry
    BY <1>1, ElementOfSeq
  <2> QED
    BY <2>1 DEF Fits, Entry
<1>3. new = [fs EXCEPT ![p] = e]
  BY DEF SetValues
<1>4. /\ new \in Seq(Entry) /\ Len(new) = Len(fs)
      /\ \A j \in 1 .. Len(fs) : new[j] = IF j = p THEN e ELSE fs[j]
  BY <1>1, <1>2, <1>3, ExceptSeq
<1>5. DOMAIN new = DOMAIN fs
  BY <1>1, <1>4, LenProperties
<1>6. \A j \in DOMAIN fs : new[j].number = fs[j].number
  BY <1>1, <1>2, <1>4
<1>7. \A j \in DOMAIN fs : isRepeatedLike(new[j].number) \/ Len(new[j].values) <= 1
  BY <1>1, <1>2, <1>4 DEF WellFormed, Fits
<1>8. WellFormed(new)
  BY <1>4, <1>5, <1>6, <1>7 DEF WellFormed
<1>9. Numbers(new) = Numbers(fs)
  BY <1>5, <1>6 DEF Numbers
<1>10. NormalizedMaps(fs) /\ Normalized(n, vs) => NormalizedMaps(new)
  BY <1>1, <1>2, <1>4, <1>5 DEF NormalizedMaps, Normalized
<1>11. \A j \in DOMAIN fs : new[j].values = IF j = p THEN vs ELSE fs[j].values
  BY <1>1, <1>2, <1>4
<1> QED
  BY <1>4, <1>6, <1>8, <1>9, <1>10, <1>11

(* The same, for the entry of a field.                                      *)
LEMMA WithValuesIs ==
    ASSUME NEW fs, WellFormed(fs), NEW n \in Numbers(fs), NEW vs, Fits(n, vs)
    PROVE  /\ WellFormed(WithValues(fs, n, vs))
           /\ Len(WithValues(fs, n, vs)) = Len(fs)
           /\ Numbers(WithValues(fs, n, vs)) = Numbers(fs)
           /\ NormalizedMaps(fs) /\ Normalized(n, vs) => NormalizedMaps(WithValues(fs, n, vs))
<1>1. /\ Position(fs, n) \in DOMAIN fs
      /\ fs[Position(fs, n)].number = n
  BY PositionFound DEF WellFormed
<1> QED
  BY <1>1, SetValuesIs DEF WithValues

(* swapRemove leaves the other entries, the last one in the place freed.    *)
LEMMA SwapRemoveIs ==
    ASSUME NEW fs, WellFormed(fs), NEW i \in DOMAIN fs
    PROVE  /\ WellFormed(SwapRemove(fs, i))
           /\ Len(SwapRemove(fs, i)) = Len(fs) - 1
           /\ \A j \in 1 .. Len(fs) - 1 :
                SwapRemove(fs, i)[j] = IF j = i THEN fs[Len(fs)] ELSE fs[j]
           /\ NormalizedMaps(fs) => NormalizedMaps(SwapRemove(fs, i))
<1> DEFINE new == SwapRemove(fs, i)
           from(j) == IF j = i THEN Len(fs) ELSE j
<1>1. fs \in Seq(Entry) /\ DOMAIN fs = 1 .. Len(fs) /\ Len(fs) \in Nat \ {0}
  BY LenProperties DEF WellFormed
<1>2. \A j \in 1 .. Len(fs) : fs[j] \in Entry
  BY <1>1, ElementOfSeq
<1>3. new \in [1 .. Len(fs) - 1 -> Entry]
  BY <1>1, <1>2 DEF SwapRemove
<1>4. new \in Seq(Entry) /\ DOMAIN new = 1 .. Len(fs) - 1
  BY <1>1, <1>3, SeqDef
<1>5. Len(new) = Len(fs) - 1
  <2>1. Len(new) \in Nat /\ DOMAIN new = 1 .. Len(new)
    BY <1>4, LenProperties
  <2>2. \A m, k \in Nat : 1 .. m = 1 .. k => m = k
    <3> SUFFICES ASSUME NEW m \in Nat, NEW k \in Nat, 1 .. m = 1 .. k, m < k
                 PROVE  FALSE
      OBVIOUS
    <3>1. k \in 1 .. k /\ k \notin 1 .. m
      OBVIOUS
    <3> QED
      BY <3>1
  <2>3. Len(fs) - 1 \in Nat
    BY <1>1
  <2>4. 1 .. Len(new) = 1 .. Len(fs) - 1
    BY <1>4, <2>1, Zenon
  <2> QED
    BY <2>1, <2>2, <2>3, <2>4, Zenon
<1>6. \A j \in 1 .. Len(fs) - 1 : from(j) \in DOMAIN fs /\ new[j] = fs[from(j)]
  BY <1>1 DEF SwapRemove
<1>7. \A j, k \in 1 .. Len(fs) - 1 : from(j) = from(k) => j = k
  BY <1>1
<1> HIDE DEF new, from
<1>8. WellFormed(new)
  <2>1. \A j, k \in DOMAIN new : new[j].number = new[k].number => j = k
    BY <1>4, <1>6, <1>7 DEF WellFormed
  <2>2. \A j, k \in DOMAIN new : j # k => new[k].number \notin Siblings(new[j].number)
    <3>1. TAKE j, k \in DOMAIN new
    <3>2. HAVE j # k
    <3>3. /\ from(j) \in DOMAIN fs /\ from(k) \in DOMAIN fs /\ from(j) # from(k)
          /\ new[j] = fs[from(j)] /\ new[k] = fs[from(k)]
      BY <1>4, <1>6, <1>7, <3>2, Zenon
    <3>4. fs[from(k)].number \notin Siblings(fs[from(j)].number)
      BY <3>3, Zenon DEF WellFormed
    <3> QED
      BY <3>3, <3>4, Zenon
  <2>3. \A j \in DOMAIN new : isRepeatedLike(new[j].number) \/ Len(new[j].values) <= 1
    BY <1>4, <1>6 DEF WellFormed
  <2> QED
    BY <1>4, <2>1, <2>2, <2>3 DEF WellFormed
<1>9. NormalizedMaps(fs) => NormalizedMaps(new)
  BY <1>4, <1>6 DEF NormalizedMaps
<1> QED
  BY <1>5, <1>6, <1>8, <1>9 DEF new, from

(* clearField leaves a well-formed array with no more entries.              *)
LEMMA ClearFieldIs ==
    ASSUME NEW fs, WellFormed(fs), NEW n
    PROVE  /\ WellFormed(ClearField(fs, n))
           /\ Len(ClearField(fs, n)) <= Len(fs)
           /\ NormalizedMaps(fs) => NormalizedMaps(ClearField(fs, n))
<1>1. fs \in Seq(Entry) /\ Len(fs) \in Nat
  BY LenProperties DEF WellFormed
<1>2. CASE n \in Numbers(fs)
  <2>1. Position(fs, n) \in DOMAIN fs
    BY <1>1, <1>2, PositionFound
  <2> QED
    BY <1>1, <1>2, <2>1, SwapRemoveIs DEF ClearField
<1>3. CASE n \notin Numbers(fs)
  BY <1>1, <1>3 DEF ClearField
<1> QED
  BY <1>2, <1>3

(* An entry for a new number may be appended when its oneof is free.        *)
LEMMA AppendEntryIs ==
    ASSUME NEW fs, WellFormed(fs), NEW n \in Field \ Numbers(fs),
           Numbers(fs) \cap Siblings(n) = {}
    PROVE  LET new == Append(fs, [number |-> n, values |-> <<>>])
           IN  /\ WellFormed(new)
               /\ Len(new) = Len(fs) + 1
               /\ Numbers(new) = Numbers(fs) \cup {n}
               /\ NormalizedMaps(fs) => NormalizedMaps(new)
<1> DEFINE e == [number |-> n, values |-> <<>>]
           new == Append(fs, e)
<1>1. fs \in Seq(Entry) /\ DOMAIN fs = 1 .. Len(fs) /\ Len(fs) \in Nat
  BY LenProperties DEF WellFormed
<1>2. e \in Entry /\ Len(e.values) = 0 /\ DOMAIN e.values = {}
  BY EmptySeq DEF Entry
<1>3. /\ new \in Seq(Entry) /\ Len(new) = Len(fs) + 1
      /\ \A i \in 1 .. Len(fs) : new[i] = fs[i]
      /\ new[Len(fs) + 1] = e
  BY <1>1, <1>2, AppendProperties
<1>4. DOMAIN new = 1 .. Len(fs) + 1
  BY <1>3, LenProperties
<1>5. \A i \in DOMAIN fs : fs[i].number \in Field /\ fs[i].number # n
  <2>1. \A i \in DOMAIN fs : fs[i] \in Entry
    BY <1>1, ElementOfSeq
  <2> QED
    BY <2>1 DEF Numbers, Entry
<1>6. \A i \in DOMAIN fs :
        fs[i].number \notin Siblings(n) /\ n \notin Siblings(fs[i].number)
  BY <1>5, SiblingsSymmetric DEF Numbers
<1>7. e.number = n
  OBVIOUS
<1> HIDE DEF e, new
<1>8. \A i \in DOMAIN new : i \in DOMAIN fs \/ i = Len(fs) + 1
  BY <1>1, <1>4
<1>9. \A i, j \in DOMAIN new : new[i].number = new[j].number => i = j
  BY <1>1, <1>3, <1>5, <1>7, <1>8 DEF WellFormed
<1>10. \A i, j \in DOMAIN new : i # j => new[j].number \notin Siblings(new[i].number)
  BY <1>1, <1>3, <1>6, <1>7, <1>8 DEF WellFormed
<1>11. \A i \in DOMAIN new : isRepeatedLike(new[i].number) \/ Len(new[i].values) <= 1
  BY <1>1, <1>2, <1>3, <1>8 DEF WellFormed
<1>12. WellFormed(new)
  BY <1>3, <1>9, <1>10, <1>11 DEF WellFormed
<1>13. Numbers(new) = Numbers(fs) \cup {n}
  BY <1>1, <1>3, <1>4, <1>7, <1>8 DEF Numbers
<1>14. NormalizedMaps(fs) => NormalizedMaps(new)
  BY <1>1, <1>2, <1>3, <1>8 DEF NormalizedMaps, UniqueKeys
<1> QED
  BY <1>3, <1>12, <1>13, <1>14 DEF new, e

-----------------------------------------------------------------------------
(* Writing a map entry by key keeps the keys unique.                        *)
LEMMA PutEntryIs ==
    ASSUME NEW vs \in Seq(Value), NEW v \in Value
    PROVE  /\ PutEntry(vs, v) \in Seq(Value)
           /\ UniqueKeys(vs) => UniqueKeys(PutEntry(vs, v))
<1>1. Len(vs) \in Nat /\ DOMAIN vs = 1 .. Len(vs)
  BY LenProperties
<1>2. CASE v.key \in Keys(vs)
  <2> DEFINE p == KeySlot(vs, v.key)
  <2>1. p \in 1 .. Len(vs) /\ vs[p].key = v.key
    BY <1>1, <1>2, KeySlotFound
  <2>2. PutEntry(vs, v) = [vs EXCEPT ![p] = v]
    BY <1>2 DEF PutEntry
  <2>3. /\ [vs EXCEPT ![p] = v] \in Seq(Value)
        /\ Len([vs EXCEPT ![p] = v]) = Len(vs)
        /\ \A j \in 1 .. Len(vs) : [vs EXCEPT ![p] = v][j] = IF j = p THEN v ELSE vs[j]
    BY <2>1, ExceptSeq
  <2>4. \A j \in 1 .. Len(vs) : PutEntry(vs, v)[j].key = vs[j].key
    BY <2>1, <2>2, <2>3
  <2>5. DOMAIN PutEntry(vs, v) = DOMAIN vs
    BY <1>1, <2>2, <2>3, LenProperties
  <2> QED
    BY <1>1, <2>2, <2>3, <2>4, <2>5 DEF UniqueKeys
<1>3. CASE v.key \notin Keys(vs)
  <2>1. PutEntry(vs, v) = Append(vs, v)
    BY <1>3 DEF PutEntry
  <2>2. /\ Append(vs, v) \in Seq(Value) /\ Len(Append(vs, v)) = Len(vs) + 1
        /\ \A i \in 1 .. Len(vs) : Append(vs, v)[i] = vs[i]
        /\ Append(vs, v)[Len(vs) + 1] = v
    BY AppendProperties
  <2>3. DOMAIN Append(vs, v) = 1 .. Len(vs) + 1
    BY <2>2, LenProperties
  <2>4. \A i \in 1 .. Len(vs) : vs[i].key # v.key
    BY <1>1, <1>3 DEF Keys
  <2>5. \A i \in DOMAIN Append(vs, v) : i \in 1 .. Len(vs) \/ i = Len(vs) + 1
    BY <1>1, <2>3
  <2>6. UniqueKeys(vs) => UniqueKeys(Append(vs, v))
    BY <1>1, <2>2, <2>4, <2>5 DEF UniqueKeys
  <2> QED
    BY <2>1, <2>2, <2>6
<1> QED
  BY <1>2, <1>3

(* Removing one element keeps the others in order.                          *)
LEMMA RemoveAtProperties ==
    ASSUME NEW S, NEW vs \in Seq(S), NEW i \in DOMAIN vs
    PROVE  /\ RemoveAt(vs, i) \in Seq(S)
           /\ Len(RemoveAt(vs, i)) = Len(vs) - 1
           /\ \A j \in 1 .. Len(vs) - 1 :
                RemoveAt(vs, i)[j] = IF j < i THEN vs[j] ELSE vs[j + 1]
<1> DEFINE front == SubSeq(vs, 1, i - 1)
           back == SubSeq(vs, i + 1, Len(vs))
           new == RemoveAt(vs, i)
<1>1. Len(vs) \in Nat /\ DOMAIN vs = 1 .. Len(vs) /\ i \in 1 .. Len(vs)
  BY LenProperties
<1>2. \A j \in 1 .. Len(vs) : vs[j] \in S
  BY ElementOfSeq
<1>3. /\ front \in Seq(S) /\ Len(front) = i - 1
      /\ \A j \in 1 .. i - 1 : front[j] = vs[j]
  <2>1. /\ front \in Seq(S)
        /\ Len(front) = IF 1 <= i - 1 THEN i - 1 - 1 + 1 ELSE 0
        /\ \A j \in 1 .. i - 1 - 1 + 1 : front[j] = vs[1 + j - 1]
    <3>1. 1 \in Int /\ i - 1 \in Int /\ \A j \in 1 .. i - 1 : vs[j] \in S
      BY <1>1, <1>2
    <3> QED
      BY <3>1, SubSeqProperties
  <2> QED
    BY <1>1, <2>1
<1>4. /\ back \in Seq(S) /\ Len(back) = Len(vs) - i
      /\ \A j \in 1 .. Len(vs) - i : back[j] = vs[i + j]
  <2>1. /\ back \in Seq(S)
        /\ Len(back) = IF i + 1 <= Len(vs) THEN Len(vs) - (i + 1) + 1 ELSE 0
        /\ \A j \in 1 .. Len(vs) - (i + 1) + 1 : back[j] = vs[i + 1 + j - 1]
    <3>1. i + 1 \in Int /\ Len(vs) \in Int
          /\ \A j \in i + 1 .. Len(vs) : vs[j] \in S
      BY <1>1, <1>2
    <3> QED
      BY <3>1, SubSeqProperties
  <2> QED
    BY <1>1, <2>1
<1>5. new = front \o back
  BY DEF RemoveAt
<1> HIDE DEF front, back, new
<1>6. /\ new \in Seq(S) /\ Len(new) = Len(vs) - 1
      /\ \A j \in 1 .. Len(vs) - 1 : new[j] = IF j < i THEN vs[j] ELSE vs[j + 1]
  <2>1. /\ new \in Seq(S) /\ Len(new) = Len(front) + Len(back)
        /\ \A j \in 1 .. Len(front) + Len(back) :
              new[j] = IF j <= Len(front) THEN front[j] ELSE back[j - Len(front)]
    BY <1>3, <1>4, <1>5, ConcatProperties
  <2>2. Len(front) = i - 1 /\ Len(front) + Len(back) = Len(vs) - 1
    BY <1>1, <1>3, <1>4
  <2>3. ASSUME NEW j \in 1 .. Len(vs) - 1, j < i
        PROVE  new[j] = vs[j]
    <3>1. j \in 1 .. i - 1
      BY <1>1, <2>3
    <3>2. new[j] = front[j]
      BY <1>1, <2>1, <2>2, <3>1
    <3> QED
      BY <1>3, <3>1, <3>2
  <2>4. ASSUME NEW j \in 1 .. Len(vs) - 1, ~(j < i)
        PROVE  new[j] = vs[j + 1]
    <3>1. j - (i - 1) \in 1 .. Len(vs) - i
      BY <1>1, <2>4
    <3>2. new[j] = back[j - (i - 1)]
      BY <1>1, <2>1, <2>2, <2>4
    <3>3. back[j - (i - 1)] = vs[i + (j - (i - 1))]
      BY <1>4, <3>1
    <3>4. i + (j - (i - 1)) = j + 1
      BY <1>1
    <3> QED
      BY <3>2, <3>3, <3>4
  <2> QED
    BY <2>1, <2>2, <2>3, <2>4
<1> QED
  BY <1>6 DEF new

(* Removing one value keeps the others in order, and the keys unique.       *)
LEMMA RemoveAtIs ==
    ASSUME NEW vs \in Seq(Value), NEW i \in DOMAIN vs
    PROVE  /\ RemoveAt(vs, i) \in Seq(Value)
           /\ Len(RemoveAt(vs, i)) = Len(vs) - 1
           /\ \A j \in 1 .. Len(vs) - 1 :
                RemoveAt(vs, i)[j] = IF j < i THEN vs[j] ELSE vs[j + 1]
           /\ UniqueKeys(vs) => UniqueKeys(RemoveAt(vs, i))
<1> DEFINE new == RemoveAt(vs, i)
<1>1. Len(vs) \in Nat /\ DOMAIN vs = 1 .. Len(vs) /\ i \in 1 .. Len(vs)
  BY LenProperties
<1>2. /\ new \in Seq(Value) /\ Len(new) = Len(vs) - 1
      /\ \A j \in 1 .. Len(vs) - 1 : new[j] = IF j < i THEN vs[j] ELSE vs[j + 1]
  BY RemoveAtProperties
<1> HIDE DEF new
<1>3. DOMAIN new = 1 .. Len(vs) - 1
  BY <1>2, LenProperties
<1>4. UniqueKeys(vs) => UniqueKeys(new)
  <2> SUFFICES ASSUME UniqueKeys(vs), NEW j \in DOMAIN new, NEW k \in DOMAIN new,
                      new[j].key = new[k].key
               PROVE  j = k
    BY DEF UniqueKeys
  <2> DEFINE from(x) == IF x < i THEN x ELSE x + 1
  <2>1. from(j) \in DOMAIN vs /\ from(k) \in DOMAIN vs
    BY <1>1, <1>3
  <2>2. new[j] = vs[from(j)] /\ new[k] = vs[from(k)]
    BY <1>2, <1>3
  <2>3. from(j) = from(k)
    BY <2>1, <2>2 DEF UniqueKeys
  <2> QED
    BY <1>1, <1>3, <2>3
<1> QED
  BY <1>2, <1>4 DEF new

(* Swapping two values is a permutation of the values.                      *)
LEMMA SwappedIs ==
    ASSUME NEW vs \in Seq(Value), NEW i \in DOMAIN vs, NEW j \in DOMAIN vs
    PROVE  LET new == [vs EXCEPT ![i] = vs[j], ![j] = vs[i]]
           IN  /\ new \in Seq(Value) /\ Len(new) = Len(vs)
               /\ UniqueKeys(vs) => UniqueKeys(new)
<1> DEFINE one == [vs EXCEPT ![i] = vs[j]]
           new == [one EXCEPT ![j] = vs[i]]
<1>1. Len(vs) \in Nat /\ DOMAIN vs = 1 .. Len(vs)
      /\ vs[i] \in Value /\ vs[j] \in Value
  BY LenProperties, ElementOfSeq
<1>2. /\ one \in Seq(Value) /\ Len(one) = Len(vs)
      /\ \A k \in 1 .. Len(vs) : one[k] = IF k = i THEN vs[j] ELSE vs[k]
  BY <1>1, ExceptSeq
<1> HIDE DEF one
<1>3. /\ new \in Seq(Value) /\ Len(new) = Len(one)
      /\ \A k \in 1 .. Len(one) : new[k] = IF k = j THEN vs[i] ELSE one[k]
  BY <1>1, <1>2, ExceptSeq
<1>4. DOMAIN new = DOMAIN vs
  BY <1>1, <1>2, <1>3, LenProperties
<1>5. new = [vs EXCEPT ![i] = vs[j], ![j] = vs[i]]
  BY DEF one
<1> HIDE DEF new
<1>6. UniqueKeys(vs) => UniqueKeys(new)
  <2> SUFFICES ASSUME UniqueKeys(vs), NEW k \in DOMAIN vs, NEW l \in DOMAIN vs,
                      new[k].key = new[l].key
               PROVE  k = l
    BY <1>4 DEF UniqueKeys
  <2> DEFINE from(x) == IF x = j THEN i ELSE IF x = i THEN j ELSE x
  <2>1. new[k] = vs[from(k)] /\ new[l] = vs[from(l)]
    BY <1>1, <1>2, <1>3
  <2>2. from(k) = from(l)
    BY <2>1 DEF UniqueKeys
  <2> QED
    BY <2>2
<1> QED
  BY <1>2, <1>3, <1>5, <1>6

-----------------------------------------------------------------------------
(* What getByNumber returns after a change of the field array.              *)

(* It returns the values of the one entry of the number.                    *)
LEMMA ValuesOf ==
    ASSUME NEW fs, WellFormed(fs), NEW i \in DOMAIN fs
    PROVE  /\ fs[i].number \in Numbers(fs)
           /\ Position(fs, fs[i].number) = i
           /\ Values(fs, fs[i].number) = fs[i].values
<1> DEFINE n == fs[i].number
<1>1. n \in Numbers(fs)
  BY DEF Numbers
<1>2. Position(fs, n) \in DOMAIN fs /\ fs[Position(fs, n)].number = n
  BY <1>1, PositionFound DEF WellFormed
<1>3. Position(fs, n) = i
  BY <1>2 DEF WellFormed
<1> QED
  BY <1>1, <1>3 DEF Values

(* The present numbers are those it returns values for.                     *)
LEMMA PresentIs ==
    ASSUME NEW fs, WellFormed(fs), NEW n
    PROVE  n \in PresentNumbers(fs) <=> Values(fs, n) # <<>>
<1>1. ASSUME n \in PresentNumbers(fs)
      PROVE  Values(fs, n) # <<>>
  <2>1. PICK i \in DOMAIN fs : fs[i].values # <<>> /\ fs[i].number = n
    BY <1>1 DEF PresentNumbers
  <2> QED
    BY <2>1, ValuesOf
<1>2. ASSUME Values(fs, n) # <<>>
      PROVE  n \in PresentNumbers(fs)
  <2>1. n \in Numbers(fs) /\ fs[Position(fs, n)].values # <<>>
    BY <1>2 DEF Values
  <2>2. Position(fs, n) \in DOMAIN fs /\ fs[Position(fs, n)].number = n
    BY <2>1, PositionFound DEF WellFormed
  <2> QED
    BY <2>1, <2>2 DEF PresentNumbers
<1> QED
  BY <1>1, <1>2

(* The same number has the same values in arrays with the same entries.     *)
LEMMA SameValues ==
    ASSUME NEW fs, WellFormed(fs), NEW gs, WellFormed(gs), NEW n,
           NEW i \in DOMAIN fs, NEW j \in DOMAIN gs,
           fs[i].number = n, gs[j].number = n
    PROVE  Values(gs, n) = gs[j].values /\ Values(fs, n) = fs[i].values
BY ValuesOf

(* Replacing the values of an entry.                                        *)
LEMMA ValuesSet ==
    ASSUME NEW fs, WellFormed(fs), NEW p \in DOMAIN fs,
           NEW vs, Fits(fs[p].number, vs), NEW g
    PROVE  Values(SetValues(fs, p, vs), g)
              = IF g = fs[p].number THEN vs ELSE Values(fs, g)
<1> DEFINE new == SetValues(fs, p, vs)
<1>1. /\ WellFormed(new) /\ Numbers(new) = Numbers(fs)
      /\ \A j \in DOMAIN fs : new[j].number = fs[j].number
      /\ \A j \in DOMAIN fs : new[j].values = IF j = p THEN vs ELSE fs[j].values
      /\ Len(new) = Len(fs)
  BY SetValuesIs
<1>2. DOMAIN new = DOMAIN fs
  BY <1>1, LenProperties DEF WellFormed
<1>3. CASE g \in Numbers(fs)
  <2>1. PICK j \in DOMAIN fs : fs[j].number = g
    BY <1>3 DEF Numbers
  <2>2. Values(fs, g) = fs[j].values
    BY <2>1, ValuesOf
  <2>3. Values(new, g) = new[j].values
    <3>1. j \in DOMAIN new /\ new[j].number = g
      BY <1>1, <1>2, <2>1
    <3> HIDE DEF new
    <3> QED
      BY <1>1, <3>1, ValuesOf
  <2>4. j = p <=> g = fs[p].number
    BY <2>1 DEF WellFormed
  <2> QED
    BY <1>1, <2>2, <2>3, <2>4
<1>4. CASE g \notin Numbers(fs)
  <2>1. fs[p].number \in Numbers(fs)
    BY DEF Numbers
  <2> HIDE DEF new
  <2>2. Values(new, g) = <<>> /\ Values(fs, g) = <<>>
    BY <1>1, <1>4 DEF Values
  <2> QED
    BY <1>4, <2>1, <2>2 DEF new
<1> QED
  BY <1>3, <1>4

LEMMA ValuesWith ==
    ASSUME NEW fs, WellFormed(fs), NEW n \in Numbers(fs), NEW vs, Fits(n, vs), NEW g
    PROVE  Values(WithValues(fs, n, vs), g) = IF g = n THEN vs ELSE Values(fs, g)
<1>1. Position(fs, n) \in DOMAIN fs /\ fs[Position(fs, n)].number = n
  BY PositionFound DEF WellFormed
<1> QED
  BY <1>1, ValuesSet DEF WithValues

(* Removing an entry.                                                       *)
LEMMA ValuesSwapRemove ==
    ASSUME NEW fs, WellFormed(fs), NEW i \in DOMAIN fs, NEW g
    PROVE  /\ Values(SwapRemove(fs, i), g)
                = IF g = fs[i].number THEN <<>> ELSE Values(fs, g)
           /\ g \in Numbers(SwapRemove(fs, i))
                <=> g \in Numbers(fs) /\ g # fs[i].number
<1> DEFINE new == SwapRemove(fs, i)
           n == Len(fs)
<1>1. /\ WellFormed(new) /\ Len(new) = n - 1
      /\ \A j \in 1 .. n - 1 : new[j] = IF j = i THEN fs[n] ELSE fs[j]
  BY SwapRemoveIs
<1>2. n \in Nat /\ DOMAIN fs = 1 .. n /\ DOMAIN new = 1 .. n - 1 /\ i \in 1 .. n
  BY <1>1, LenProperties DEF WellFormed
<1> HIDE DEF new, n
<1>3. ASSUME g \in Numbers(fs), g # fs[i].number
      PROVE  g \in Numbers(new) /\ Values(new, g) = Values(fs, g)
  <2>1. PICK j \in DOMAIN fs : fs[j].number = g
    BY <1>3 DEF Numbers
  <2>2. j # i
    BY <1>3, <2>1
  <2>3. PICK h \in DOMAIN new : new[h] = fs[j]
    <3>1. CASE j = n
      BY <1>1, <1>2, <2>2, <3>1
    <3>2. CASE j # n
      <4>1. j \in 1 .. n - 1
        BY <1>2, <2>1, <3>2
      <4> QED
        BY <1>1, <1>2, <2>2, <4>1
    <3> QED
      BY <3>1, <3>2
  <2>4. Values(fs, g) = fs[j].values /\ Values(new, g) = new[h].values
    BY <1>1, <2>1, <2>3, SameValues
  <2>5. g \in Numbers(new)
    BY <2>1, <2>3 DEF Numbers
  <2> QED
    BY <2>3, <2>4, <2>5
<1>4. ASSUME g \in Numbers(new)
      PROVE  g \in Numbers(fs) /\ g # fs[i].number
  <2>1. PICK h \in DOMAIN new : new[h].number = g
    BY <1>4 DEF Numbers
  <2>2. PICK j \in DOMAIN fs : new[h] = fs[j] /\ j # i
    <3>1. CASE h = i
      BY <1>1, <1>2, <2>1, <3>1
    <3>2. CASE h # i
      <4>1. h \in DOMAIN fs /\ new[h] = fs[h]
        BY <1>1, <1>2, <2>1, <3>2
      <4> QED
        BY <4>1, <3>2
    <3> QED
      BY <3>1, <3>2
  <2> QED
    BY <2>1, <2>2 DEF Numbers, WellFormed
<1>5. g \in Numbers(new) <=> g \in Numbers(fs) /\ g # fs[i].number
  BY <1>3, <1>4
<1>6. g \notin Numbers(fs) => Values(fs, g) = <<>>
  BY DEF Values
<1>7. g \notin Numbers(new) => Values(new, g) = <<>>
  BY DEF Values
<1>8. Values(new, g) = IF g = fs[i].number THEN <<>> ELSE Values(fs, g)
  BY <1>3, <1>5, <1>6, <1>7
<1> QED
  BY <1>5, <1>8 DEF new

LEMMA ValuesCleared ==
    ASSUME NEW fs, WellFormed(fs), NEW n, NEW g
    PROVE  /\ Values(ClearField(fs, n), g) = IF g = n THEN <<>> ELSE Values(fs, g)
           /\ g \in Numbers(ClearField(fs, n)) => g \in Numbers(fs)
<1>1. CASE n \in Numbers(fs)
  <2>1. Position(fs, n) \in DOMAIN fs /\ fs[Position(fs, n)].number = n
    BY <1>1, PositionFound DEF WellFormed
  <2> QED
    BY <1>1, <2>1, ValuesSwapRemove DEF ClearField
<1>2. CASE n \notin Numbers(fs)
  BY <1>2 DEF ClearField, Values
<1> QED
  BY <1>1, <1>2

(* A new entry has no values.                                               *)
LEMMA ValuesAppended ==
    ASSUME NEW fs, WellFormed(fs), NEW n \in Field \ Numbers(fs),
           Numbers(fs) \cap Siblings(n) = {}, NEW g
    PROVE  Values(Append(fs, [number |-> n, values |-> <<>>]), g) = Values(fs, g)
<1> DEFINE e == [number |-> n, values |-> <<>>]
           new == Append(fs, e)
<1>1. /\ WellFormed(new) /\ Len(new) = Len(fs) + 1
      /\ Numbers(new) = Numbers(fs) \cup {n}
  BY AppendEntryIs
<1>2. e \in Entry /\ fs \in Seq(Entry)
  BY EmptySeq DEF Entry, WellFormed
<1>3. /\ Len(fs) \in Nat /\ DOMAIN fs = 1 .. Len(fs) /\ DOMAIN new = 1 .. Len(fs) + 1
      /\ \A j \in 1 .. Len(fs) : new[j] = fs[j]
      /\ new[Len(fs) + 1] = e
  BY <1>1, <1>2, AppendProperties, LenProperties DEF WellFormed
<1>4. CASE g \in Numbers(fs)
  <2>1. PICK j \in DOMAIN fs : fs[j].number = g
    BY <1>4 DEF Numbers
  <2>2. j \in DOMAIN new /\ new[j] = fs[j]
    BY <1>3, <2>1
  <2> HIDE DEF new
  <2>3. Values(fs, g) = fs[j].values /\ Values(new, g) = new[j].values
    BY <1>1, <2>1, <2>2, SameValues
  <2> QED
    BY <2>2, <2>3 DEF new
<1>5. CASE g \notin Numbers(fs) /\ g # n
  <2> HIDE DEF new
  <2>1. g \notin Numbers(new)
    BY <1>1, <1>5
  <2> QED
    BY <1>5, <2>1 DEF Values, new
<1>6. CASE g = n
  <2>1. Len(fs) + 1 \in DOMAIN new /\ new[Len(fs) + 1].number = n
    BY <1>3
  <2>2. new[Len(fs) + 1].values = <<>>
    BY <1>3
  <2> HIDE DEF new
  <2>3. Values(new, n) = new[Len(fs) + 1].values
    BY <1>1, <2>1, ValuesOf
  <2>4. Values(fs, n) = <<>>
    BY DEF Values
  <2> QED
    BY <1>6, <2>2, <2>3, <2>4 DEF new
<1> QED
  BY <1>4, <1>5, <1>6

-----------------------------------------------------------------------------
(* Listing the fields *)

\* The field numbers of a well-formed array, as positions: those of the entries
\* with values, each of which has another number.
LEMMA PresentAre ==
    ASSUME NEW fs, WellFormed(fs)
    PROVE  /\ Positions(PresentNumbers(fs)) /\ PresentNumbers(fs) \subseteq Nat \ {0}
           /\ Cardinality(PresentNumbers(fs)) \in 0 .. Len(fs)
           /\ listFieldCount(fs) = Cardinality(PresentNumbers(fs))
<1> DEFINE J == {j \in DOMAIN fs : fs[j].values # <<>>}
           g == [j \in J |-> fs[j].number]
<1>1. fs \in Seq(Entry) /\ DOMAIN fs = 1 .. Len(fs) /\ Len(fs) \in Nat
  BY DEF WellFormed
<1>2. PICK S : S = PresentNumbers(fs)
  OBVIOUS
<1>3. S = {fs[j].number : j \in J}
  BY <1>2 DEF PresentNumbers
<1>4. IsFiniteSet(1 .. Len(fs)) /\ Cardinality(1 .. Len(fs)) = Len(fs)
  <2>1. 1 \in Int /\ Len(fs) \in Int
    BY <1>1
  <2>2. /\ IsFiniteSet(1 .. Len(fs))
        /\ Cardinality(1 .. Len(fs)) = IF 1 > Len(fs) THEN 0 ELSE Len(fs) - 1 + 1
    BY <2>1, FS_Interval
  <2>3. QED
    BY <1>1, <2>2
<1>5. J \in SUBSET (1 .. Len(fs))
  BY <1>1
<1>6. IsFiniteSet(J) /\ Cardinality(J) \in Nat /\ Cardinality(J) <= Len(fs)
  <2> HIDE DEF J
  <2>1. IsFiniteSet(J) /\ Cardinality(J) <= Len(fs)
    BY <1>4, <1>5, FS_Subset
  <2>2. QED
    BY <2>1, FS_CardinalityType
<1>7. g \in [J -> S] /\ \A x \in S : \E j \in J : g[j] = x
  BY <1>3
<1>8. \A i, j \in J : g[i] = g[j] => i = j
  BY DEF WellFormed
<1>9. ExistsBijection(J, S)
  <2> HIDE DEF J, g
  <2>1. g \in Bijection(J, S)
    BY <1>7, <1>8 DEF Bijection, Injection, Surjection, IsInjective
  <2>2. QED
    BY <2>1 DEF ExistsBijection
<1>10. IsFiniteSet(S) /\ Cardinality(S) = Cardinality(J)
  <2> HIDE DEF J
  <2>1. QED
    BY <1>6, <1>9, FS_Bijection
<1>11. S \subseteq Nat \ {0}
  <2>1. ASSUME NEW j \in J PROVE fs[j].number \in Nat \ {0}
    <3>1. fs[j] \in Entry
      BY <1>1
    <3>2. QED
      BY <3>1, FieldAssumption DEF Entry
  <2>2. QED
    BY <1>3, <2>1
<1>12. listFieldCount(fs) = Cardinality(J)
  BY DEF listFieldCount
<1>13. Positions(S) /\ Cardinality(S) \in 0 .. Len(fs)
  BY <1>1, <1>6, <1>10, <1>11 DEF Positions
<1>14. QED
  BY <1>2, <1>10, <1>11, <1>12, <1>13

\* The number behind the first k, 0 when there is none.
ListedAfter(S, k) == IF k < Cardinality(S) THEN Nth(S, k + 1) ELSE 0

\* A pass of the selection loop gives the number behind those up to its bound.
LEMMA NextPresentIs ==
    ASSUME NEW fs, NEW S, S = PresentNumbers(fs), Positions(S), S \subseteq Nat \ {0},
           NEW k \in 0 .. Cardinality(S), NEW b,
           (k = 0 /\ b = 0) \/ (k # 0 /\ b = Nth(S, k))
    PROVE  NextPresent(fs, b) = ListedAfter(S, k)
<1> DEFINE above == {m \in S : m > b}
<1>1. Cardinality(S) \in Nat
  BY FS_CardinalityType DEF Positions
<1>2. ASSUME NEW m \in S PROVE Rank(S, m) \in 1 .. Cardinality(S)
  BY RankGrows
<1>3. ASSUME NEW m \in S, NEW l \in S PROVE m < l <=> Rank(S, m) < Rank(S, l)
  <2>1. m \in Nat /\ l \in Nat /\ Rank(S, m) \in Nat /\ Rank(S, l) \in Nat
    BY <1>1, <1>2
  <2>2. m < l => Rank(S, m) < Rank(S, l)
    BY RankGrows
  <2>3. l < m => Rank(S, l) < Rank(S, m)
    BY RankGrows
  <2>4. QED
    BY <2>1, <2>2, <2>3
<1>4. ASSUME NEW m \in S PROVE m > b <=> Rank(S, m) > k
  <2>1. CASE k = 0
    BY <1>1, <1>2, <2>1
  <2>2. CASE k # 0
    <3>1. k \in 1 .. Cardinality(S) /\ b = Nth(S, k)
      BY <1>1, <2>2
    <3>2. b \in S /\ Rank(S, b) = k
      BY <3>1, NthExists
    <3>3. b < m <=> k < Rank(S, m)
      BY <1>3, <3>2
    <3>4. m \in Nat /\ b \in Nat /\ Rank(S, m) \in Nat
      BY <1>1, <1>2, <3>2
    <3>5. QED
      BY <3>3, <3>4
  <2>3. QED
    BY <2>1, <2>2
<1>5. NextPresent(fs, b) = IF above = {} THEN 0 ELSE CHOOSE n \in above : \A m \in above : n <= m
  BY DEF NextPresent
<1>6. CASE k < Cardinality(S)
  <2>1. PICK c : c = Nth(S, k + 1)
    OBVIOUS
  <2>2. c \in S /\ Rank(S, c) = k + 1
    <3>1. PICK j : j = k + 1
      OBVIOUS
    <3>2. j \in 1 .. Cardinality(S)
      BY <1>1, <1>6, <3>1
    <3>3. QED
      BY <2>1, <3>1, <3>2, NthExists
  <2>3. c \in above
    BY <1>1, <1>4, <2>2
  <2>4. ASSUME NEW m \in above PROVE c <= m
    <3>1. m \in S /\ Rank(S, m) > k /\ Rank(S, m) \in Nat /\ m \in Nat /\ c \in Nat
      BY <1>1, <1>2, <1>4, <2>2
    <3>2. ~(Rank(S, m) < Rank(S, c))
      BY <1>1, <2>2, <3>1
    <3>3. QED
      BY <1>3, <2>2, <3>1, <3>2
  <2>5. \A n \in above : (\A m \in above : n <= m) => n = c
    <3>1. ASSUME NEW n \in above, \A m \in above : n <= m PROVE n = c
      <4>1. n <= c /\ c <= n /\ n \in Nat /\ c \in Nat
        BY <2>2, <2>3, <2>4, <3>1
      <4>2. QED
        BY <4>1
    <3>2. QED
      BY <3>1
  <2> HIDE DEF above
  <2>6. (CHOOSE n \in above : \A m \in above : n <= m) = c
    BY <2>3, <2>4, <2>5
  <2>7. QED
    BY <1>5, <1>6, <2>1, <2>3, <2>6 DEF ListedAfter
<1>7. CASE ~(k < Cardinality(S))
  <2>1. above = {}
    BY <1>1, <1>2, <1>4, <1>7
  <2>2. QED
    BY <1>5, <1>7, <2>1 DEF ListedAfter
<1>8. QED
  BY <1>6, <1>7

Selects(fs, index, at) ==
    at = [k \in 0 .. index |->
            IF k = 0 THEN NextPresent(fs, 0)
            ELSE IF at[k - 1] = 0 THEN 0 ELSE NextPresent(fs, at[k - 1])]

Selection(fs, index) == CHOOSE at : Selects(fs, index, at)

LEMMA ListFieldAtIs ==
    ASSUME NEW fs, NEW index
    PROVE  listFieldAt(fs, index) = Selection(fs, index)[index]
  BY Zenon DEF listFieldAt, Selection, Selects

LEMMA SelectionExists ==
    ASSUME NEW fs, WellFormed(fs), NEW index \in Nat
    PROVE  \E at : Selects(fs, index, at)
<1>1. PICK S : S = PresentNumbers(fs)
  OBVIOUS
<1>2. S \subseteq Nat
  BY <1>1, PresentAre
<1>3. ASSUME NEW b PROVE NextPresent(fs, b) \in Nat
  <2> DEFINE above == {m \in S : m > b}
  <2>1. NextPresent(fs, b) = IF above = {} THEN 0 ELSE CHOOSE n \in above : \A m \in above : n <= m
    BY <1>1 DEF NextPresent
  <2>2. above \subseteq Nat
    BY <1>2
  <2> HIDE DEF above
  <2>3. CASE above # {}
    <3>1. PICK n \in above : \A m \in above : ~(m < n)
      BY <2>2, <2>3, LeastPosition
    <3>2. \A m \in above : n <= m
      BY <2>2, <3>1
    <3>3. (CHOOSE l \in above : \A m \in above : l <= m) \in above
      BY <3>1, <3>2, Zenon
    <3>4. QED
      BY <2>1, <2>2, <2>3, <3>3
  <2>4. QED
    BY <2>1, <2>3
<1> DEFINE D == 0 .. index
           C == D \ {0}
           next == [k \in D |-> k - 1]
           step == [k \in D |-> [v \in Nat |-> IF v = 0 THEN 0 ELSE NextPresent(fs, v)]]
           final == [k \in D |-> NextPresent(fs, 0)]
           rank == [k \in D |-> k]
<1>4. rank \in [D -> 0 .. index]
  OBVIOUS
<1>5. ASSUME NEW p \in D \cap C
      PROVE  next[p] \in D /\ rank[next[p]] < rank[p] /\ step[p] \in [Nat -> Nat]
  <2>1. p \in 1 .. index
    OBVIOUS
  <2>2. next[p] = p - 1 /\ p - 1 \in D /\ rank[p] = p /\ rank[p - 1] = p - 1
    BY <2>1
  <2>3. step[p] \in [Nat -> Nat]
    BY <1>3
  <2>4. QED
    BY <2>1, <2>2, <2>3
<1>6. ASSUME NEW p \in D \ C PROVE final[p] \in Nat
  BY <1>3
<1>7. PICK R : R = Nat
  OBVIOUS
<1> HIDE DEF D, C, next, step, final, rank
<1>8. \A p \in D \cap C : next[p] \in D /\ rank[next[p]] < rank[p] /\ step[p] \in [R -> R]
  BY <1>5, <1>7
<1>9. \A p \in D \ C : final[p] \in R
  BY <1>6, <1>7
<1>10. PICK f \in [D -> R] : Recursion(D, C, next, step, final, f)
  BY <1>4, <1>8, <1>9, RecursionExists, Zenon
<1>11. \A k \in D : f[k] = IF k \in C THEN step[k][f[next[k]]] ELSE final[k]
  BY <1>10, Zenon DEF Recursion
<1>12. ASSUME NEW k \in D
       PROVE  f[k] = IF k = 0 THEN NextPresent(fs, 0)
                     ELSE IF f[k - 1] = 0 THEN 0 ELSE NextPresent(fs, f[k - 1])
  <2>1. CASE k = 0
    <3>1. k \notin C
      BY <2>1 DEF C
    <3>2. final[k] = NextPresent(fs, 0)
      BY Zenon DEF final
    <3>3. QED
      BY <1>11, <2>1, <3>1, <3>2, Zenon
  <2>2. CASE k # 0
    <3>1. k \in C /\ k \in D \cap C
      BY <2>2 DEF C
    <3>2. next[k] = k - 1 /\ k - 1 \in D
      BY <1>5, <3>1, Zenon DEF next
    <3>3. PICK v : v = f[k - 1]
      OBVIOUS
    <3>4. v \in Nat
      BY <1>7, <1>10, <3>2, <3>3
    <3>5. step[k][v] = IF v = 0 THEN 0 ELSE NextPresent(fs, v)
      BY <3>4, Zenon DEF step
    <3>6. f[k] = step[k][v]
      BY <1>11, <3>1, <3>2, <3>3, Zenon
    <3>7. QED
      BY <2>2, <3>3, <3>5, <3>6, Zenon
  <2>3. QED
    BY <2>1, <2>2
<1>13. f = [k \in D |-> IF k = 0 THEN NextPresent(fs, 0)
                        ELSE IF f[k - 1] = 0 THEN 0 ELSE NextPresent(fs, f[k - 1])]
  <2> DEFINE P(k) == IF k = 0 THEN NextPresent(fs, 0)
                     ELSE IF f[k - 1] = 0 THEN 0 ELSE NextPresent(fs, f[k - 1])
  <2>1. \A k \in D : f[k] = P(k)
    BY <1>12, Zenon
  <2> HIDE DEF P
  <2>2. f = [k \in D |-> P(k)]
    BY <1>10, <2>1
  <2>3. QED
    BY <2>2, Zenon DEF P
<1>14. Selects(fs, index, f)
  BY <1>13, Zenon DEF Selects, D
<1>15. QED
  BY <1>14, Zenon

\* listFieldAt gives the numbers in their order, and then null.
LEMMA ListedAt ==
    ASSUME NEW fs, WellFormed(fs), NEW S, S = PresentNumbers(fs), NEW index \in Nat
    PROVE  listFieldAt(fs, index) = ListedAfter(S, index)
<1>1. Positions(S) /\ S \subseteq Nat \ {0} /\ Cardinality(S) \in Nat
  BY PresentAre
<1>2. PICK f : f = Selection(fs, index)
  OBVIOUS
<1>3. Selects(fs, index, f)
  BY <1>2, SelectionExists, Zenon DEF Selection
<1>4. ASSUME NEW k \in 0 .. index
      PROVE  f[k] = IF k = 0 THEN NextPresent(fs, 0)
                    ELSE IF f[k - 1] = 0 THEN 0 ELSE NextPresent(fs, f[k - 1])
  BY <1>3, Zenon DEF Selects
<1> DEFINE G == {k \in 0 .. index : f[k] = ListedAfter(S, k)}
<1>5. 0 \in G
  <2>1. PICK z : z = 0
    OBVIOUS
  <2>2. z \in 0 .. Cardinality(S) /\ z \in 0 .. index
    BY <1>1, <2>1
  <2>3. NextPresent(fs, z) = ListedAfter(S, z)
    BY <1>1, <2>1, <2>2, NextPresentIs
  <2>4. f[z] = NextPresent(fs, z)
    BY <1>4, <2>1, <2>2, Zenon
  <2>5. QED
    BY <2>1, <2>2, <2>3, <2>4
<1>6. ASSUME NEW k \in 0 .. index - 1, k \in G PROVE k + 1 \in G
  <2>1. PICK l : l = k + 1
    OBVIOUS
  <2>2. l \in 0 .. index /\ l # 0 /\ l - 1 = k /\ k \in Nat
    BY <2>1
  <2>3. f[k] = ListedAfter(S, k)
    BY <1>6
  <2>4. f[l] = IF f[k] = 0 THEN 0 ELSE NextPresent(fs, f[k])
    <3>1. f[l] = IF l = 0 THEN NextPresent(fs, 0)
                 ELSE IF f[l - 1] = 0 THEN 0 ELSE NextPresent(fs, f[l - 1])
      BY <1>4, <2>2, Zenon
    <3>2. QED
      BY <2>2, <3>1
  <2>5. CASE k < Cardinality(S)
    <3>1. l \in 1 .. Cardinality(S) /\ l \in 0 .. Cardinality(S)
      BY <1>1, <2>1, <2>2, <2>5
    <3>2. PICK b : b = Nth(S, l)
      OBVIOUS
    <3>3. b \in S /\ b # 0
      BY <1>1, <3>1, <3>2, NthExists
    <3>4. f[k] = b
      BY <2>1, <2>3, <2>5, <3>2 DEF ListedAfter
    <3>5. NextPresent(fs, b) = ListedAfter(S, l)
      BY <1>1, <2>2, <3>1, <3>2, NextPresentIs
    <3>6. QED
      BY <2>1, <2>2, <2>4, <3>3, <3>4, <3>5
  <2>6. CASE ~(k < Cardinality(S))
    <3>1. f[k] = 0
      BY <2>3, <2>6 DEF ListedAfter
    <3>2. ~(l < Cardinality(S))
      BY <1>1, <2>1, <2>2, <2>6
    <3>3. QED
      BY <2>1, <2>2, <2>4, <3>1, <3>2 DEF ListedAfter
  <2>7. QED
    BY <2>5, <2>6
<1> HIDE DEF G
<1>7. \A k \in 0 .. index : k \in G
  BY <1>5, <1>6, Counting, Zenon
<1>8. f[index] = ListedAfter(S, index)
  <2>1. index \in 0 .. index
    OBVIOUS
  <2>2. QED
    BY <1>7, <2>1 DEF G
<1>9. QED
  BY <1>2, <1>8, ListFieldAtIs

\* The three listings agree on an array.
Listed(fs) ==
    LET listed == listFields(fs)
    IN  /\ listFieldCount(fs) = Len(listed)
        /\ \A k \in 1 .. Len(listed) :
              /\ listFieldAt(fs, k - 1) = listed[k]
              /\ listFieldIndex(fs, listed[k]) = k - 1
        /\ listFieldAt(fs, Len(listed)) = 0

LEMMA ListingsAgree == ASSUME NEW fs, WellFormed(fs) PROVE Listed(fs)
<1>1. PICK S, n : S = PresentNumbers(fs) /\ n = Cardinality(S)
  OBVIOUS
<1>2. /\ Positions(S) /\ S \subseteq Nat \ {0} /\ n \in 0 .. Len(fs) /\ n \in Nat
      /\ listFieldCount(fs) = n /\ Len(fs) \in Nat
  <2>1. fs \in Seq(Entry)
    BY DEF WellFormed
  <2>2. QED
    BY <1>1, <2>1, PresentAre
<1>3. PICK listed : listed = listFields(fs)
  OBVIOUS
<1>4. listed = [k \in 1 .. n |-> Nth(S, k)]
  BY <1>1, <1>3 DEF listFields
<1>5. \A k \in 1 .. n : Nth(S, k) \in S /\ Rank(S, Nth(S, k)) = k
  <2>1. ASSUME NEW k \in 1 .. n PROVE Nth(S, k) \in S /\ Rank(S, Nth(S, k)) = k
    BY <1>1, <1>2, NthExists
  <2>2. QED
    BY <2>1
<1>6. Len(listed) = n /\ \A k \in 1 .. n : listed[k] = Nth(S, k)
  <2>1. listed \in Seq(S)
    BY <1>2, <1>4, <1>5
  <2>2. DOMAIN listed = 1 .. n
    BY <1>4
  <2>3. QED
    BY <1>2, <1>4, <2>1, <2>2
<1>7. ASSUME NEW k \in Nat PROVE listFieldAt(fs, k) = IF k < n THEN Nth(S, k + 1) ELSE 0
  <2>1. listFieldAt(fs, k) = ListedAfter(S, k)
    BY <1>1, ListedAt
  <2>2. QED
    BY <1>1, <2>1 DEF ListedAfter
<1>8. ASSUME NEW k \in 1 .. n
      PROVE  listFieldAt(fs, k - 1) = listed[k] /\ listFieldIndex(fs, listed[k]) = k - 1
  <2>1. PICK i : i = k - 1
    OBVIOUS
  <2>2. i \in Nat /\ i < n /\ i + 1 = k /\ i \in 0 .. Len(fs)
    BY <1>2, <2>1
  <2>3. listFieldAt(fs, i) = listed[k]
    BY <1>6, <1>7, <2>2
  <2>4. PICK m : m = listed[k]
    OBVIOUS
  <2>5. m \in S /\ m # 0 /\ Rank(S, m) = k
    BY <1>2, <1>5, <1>6, <2>4
  <2> DEFINE passes == {j \in 0 .. Len(fs) : listFieldAt(fs, j) = m}
  <2>6. i \in passes
    BY <2>2, <2>3, <2>4
  <2>7. ASSUME NEW j \in passes PROVE j = i
    <3>1. j \in Nat /\ listFieldAt(fs, j) = m
      BY <1>2
    <3>2. j < n /\ Nth(S, j + 1) = m
      BY <1>7, <2>5, <3>1
    <3>3. PICK l : l = j + 1
      OBVIOUS
    <3>4. l \in 1 .. n /\ Nth(S, l) = m
      BY <1>2, <3>1, <3>2, <3>3
    <3>5. l = k
      BY <1>5, <2>5, <3>4
    <3>6. QED
      BY <2>1, <3>1, <3>3, <3>5
  <2>8. listFieldIndex(fs, m) = IF passes = {} THEN -1 ELSE CHOOSE j \in passes : TRUE
    BY DEF listFieldIndex
  <2> HIDE DEF passes
  <2>9. listFieldIndex(fs, m) = i
    BY <2>6, <2>7, <2>8
  <2>10. QED
    BY <2>1, <2>3, <2>4, <2>9
<1>9. listFieldAt(fs, n) = 0
  BY <1>2, <1>7
<1>10. QED
  BY <1>2, <1>3, <1>6, <1>8, <1>9, Zenon DEF Listed

-----------------------------------------------------------------------------
(* The inductive invariant.                                                *)

\* What a label says about the frame of the call.
FrameOK ==
    /\ (pc = "idle") <=> (op = "none")
    /\ pc \in {"decode", "packed", "dedup"} => op = "decode"
    /\ pc = "merge" => op = "merge"
    /\ op = "clearOneof" => pc = "clear"
    /\ (op = "clearUnknown") <=> (pc = "forget")
    /\ pc \in {"add", "create", "place", "packed"} => fld \in Field
    /\ pc = "add" => drop = Siblings(fld)
    /\ pc = "clear" /\ op # "clearOneof" => fld \in Field /\ drop = Siblings(fld)
    /\ pc = "packed" => fld \in Repeated /\ Kind[fld] \in {"scalar", "closed_enum"}
    /\ pc \notin {"clear", "create", "place", "dedup"} => idx = 1
    /\ pc \notin {"dedup", "forget"} => rd = 1 /\ wr = 1

\* What a label says about the fields: the loop over the oneof has passed no
\* member, the entry is created in a free oneof, a value has an entry to go to.
StoreOK ==
    /\ WellFormed(fields)
    /\ pc = "clear" =>
         /\ idx <= Len(fields) + 1
         /\ \A i \in 1 .. idx - 1 : fields[i].number \notin drop
    /\ pc = "create" => Numbers(fields) \cap Siblings(fld) = {}
    /\ pc \in {"place", "packed"} => fld \in Numbers(fields)

\* Compactions write behind what they read.
IndexesOK ==
    /\ pc = "forget" => wr <= rd /\ rd <= Len(unknown_fields) + 1
    /\ pc = "dedup" /\ Duplicable => wr <= rd /\ rd <= Len(fields[idx].values) + 1

\* Maps are normalized, or a decode is still at it: the entries before idx are,
\* and so are the values retained so far of the entry at idx.
MapsOK ==
    /\ MapKeysUnique
    /\ pc = "dedup" =>
         /\ \A i \in DOMAIN fields :
              i < idx => Normalized(fields[i].number, fields[i].values)
         /\ Duplicable =>
              \A a, b \in 1 .. wr - 1 :
                fields[idx].values[a].key = fields[idx].values[b].key => a = b

IInv == TypeOK /\ FrameOK /\ StoreOK /\ IndexesOK /\ MapsOK

-----------------------------------------------------------------------------
(* The values a client or an input may supply are values.                   *)
LEMMA ValuesForAreValues ==
    ASSUME NEW f \in Field, NEW m \in Nat, NEW v \in ValuesFor(f, m)
    PROVE  v \in Value
<1>1. \A d \in Datum : <<d>> \in Seq(Datum)
  OBVIOUS
<1>2. CASE Kind[f] = "map"
  <2>1. PICK k \in Key, d \in Datum : v = MapEntry(k, d)
    BY <1>2 DEF ValuesFor
  <2> QED
    BY <1>1, <2>1 DEF MapEntry, Value
<1>3. CASE Kind[f] = "message"
  <2>1. PICK s \in UNION {[1 .. n -> Datum] : n \in 0 .. m} : v = Nested(s)
    BY <1>3 DEF ValuesFor
  <2>2. PICK n \in 0 .. m : s \in [1 .. n -> Datum]
    BY <2>1
  <2>3. s \in Seq(Datum)
    BY <2>2, SeqDef
  <2> QED
    BY <2>1, <2>3 DEF Nested, Value
<1>4. CASE Kind[f] \notin {"map", "message"}
  <2>1. PICK d \in Datum : v = Scalar(d)
    BY <1>4 DEF ValuesFor
  <2> QED
    BY <1>1, <2>1 DEF Scalar, Value
<1> QED
  BY <1>2, <1>3, <1>4

(* The numbers a message stores are numbers of its type.                    *)
LEMMA NumbersAreFields ==
    ASSUME NEW fs \in Seq(Entry)
    PROVE  Numbers(fs) \subseteq Field /\ PresentNumbers(fs) \subseteq Field
<1>1. \A i \in DOMAIN fs : fs[i] \in Entry
  BY ElementOfSeq, LenProperties
<1> QED
  BY <1>1 DEF Numbers, PresentNumbers, Entry

(* The empty value and the empty source have their types.                   *)
LEMMA NothingTyped ==
    /\ NoValue \in Value
    /\ NoSource \in [values : Seq(Assignment), unknown : Seq(UnknownField)]
BY EmptySeq DEF NoValue, Nested, Value, NoSource

(* A message without fields is well formed and normalized.                  *)
LEMMA EmptyStore ==
    WellFormed(<<>>) /\ NormalizedMaps(<<>>) /\ Len(<<>>) = 0
BY EmptySeq DEF WellFormed, NormalizedMaps

-----------------------------------------------------------------------------
(* Calls and returns.                                                       *)

(* A call that ends leaves the invariant when the fields are as they should.*)
LEMMA FinishSafe ==
    ASSUME TypeOK, NEW r \in {"ok", "error"}, Finish(r),
           WellFormed(fields'), Len(fields') <= capacity,
           unknown_fields' \in Seq(UnknownField),
           denormalized' \in BOOLEAN,
           ~denormalized' => NormalizedMaps(fields')
    PROVE  IInv'
<1>1. TypeOK'
  BY NothingTyped DEF TypeOK, Finish, WellFormed, Label, Operation
<1>2. FrameOK'
  BY DEF Finish, FrameOK
<1>3. StoreOK' /\ IndexesOK' /\ MapsOK'
  BY DEF Finish, StoreOK, IndexesOK, MapsOK, MapKeysUnique
<1> QED
  BY <1>1, <1>2, <1>3 DEF IInv

(* An error may leave the fields as they are, denormalized after a decode.  *)
LEMMA FailSafe ==
    ASSUME IInv, Fail,
           WellFormed(fields'), Len(fields') <= capacity,
           unknown_fields' \in Seq(UnknownField),
           op # "decode" /\ ~denormalized => NormalizedMaps(fields')
    PROVE  IInv'
<1>1. Finish("error") /\ denormalized' = (denormalized \/ op = "decode")
  BY DEF Fail
<1>2. TypeOK /\ denormalized' \in BOOLEAN
  BY <1>1 DEF IInv, TypeOK
<1> QED
  BY <1>1, <1>2, FinishSafe

(* add returns to the loop that called it, or to the client.                *)
LEMMA ReturnSafe ==
    ASSUME IInv, Return, pc \in {"add", "place", "packed"},
           WellFormed(fields'), Len(fields') <= capacity,
           unknown_fields' \in Seq(UnknownField),
           op # "decode" /\ ~denormalized => NormalizedMaps(fields')
    PROVE  IInv'
<1>1. CASE op \in {"decode", "merge"}
  <2>1. /\ pc' = op /\ op' = op /\ fld' = NoField /\ val' = NoValue
        /\ drop' = {} /\ idx' = 1 /\ denormalized' = denormalized
        /\ UNCHANGED <<capacity, rd, wr, src, records, outcome, prior>>
    BY <1>1 DEF Return
  <2>2. TypeOK'
    BY <1>1, <2>1, NothingTyped DEF IInv, TypeOK, WellFormed, Label, Operation
  <2>3. FrameOK'
    BY <1>1, <2>1 DEF IInv, FrameOK
  <2>4. StoreOK' /\ IndexesOK' /\ MapsOK'
    BY <1>1, <2>1 DEF IInv, StoreOK, IndexesOK, MapsOK, MapKeysUnique
  <2> QED
    BY <2>2, <2>3, <2>4 DEF IInv
<1>2. CASE op \notin {"decode", "merge"}
  <2>1. Finish("ok") /\ denormalized' = denormalized
    BY <1>2 DEF Return
  <2>2. TypeOK /\ denormalized' \in BOOLEAN
    BY <2>1 DEF IInv, TypeOK
  <2> QED
    BY <1>2, <2>1, <2>2, FinishSafe
<1> QED
  BY <1>1, <1>2

(* A mutation that does not allocate may shrink the fields.                 *)
LEMMA ImmediateSafe ==
    ASSUME IInv, NEW fs, Immediate(fs),
           WellFormed(fs), Len(fs) <= Len(fields),
           NormalizedMaps(fields) => NormalizedMaps(fs)
    PROVE  IInv'
<1>1. /\ pc = "idle" /\ pc' = pc /\ fields' = fs /\ outcome' = "ok"
      /\ UNCHANGED <<capacity, unknown_fields, denormalized, frame>>
  BY DEF Immediate
<1>2. Len(fs) \in Nat /\ Len(fields) \in Nat
  BY LenProperties DEF IInv, TypeOK, WellFormed
<1>3. TypeOK'
  BY <1>1, <1>2 DEF IInv, TypeOK, WellFormed, frame
<1>4. FrameOK'
  BY <1>1 DEF IInv, FrameOK, frame
<1>5. StoreOK' /\ IndexesOK' /\ MapsOK'
  BY <1>1 DEF IInv, StoreOK, IndexesOK, MapsOK, MapKeysUnique, frame
<1> QED
  BY <1>3, <1>4, <1>5 DEF IInv

(* A call that begins, on fields left alone or cleared.                     *)
LEMMA BeginSafe ==
    ASSUME IInv, NEW o, NEW f, NEW v, NEW D, NEW s, NEW label,
           Begin(o, f, v, D, s, label),
           o \in Operation \ {"none"}, label \in Label \ {"idle"},
           f \in Field \cup {NoField}, v \in Value,
           D \subseteq Field \cup UnknownNumber,
           s \in [values : Seq(Assignment), unknown : Seq(UnknownField)],
           \/ o \in {"add", "set"} /\ label = "add" /\ f \in Field /\ D = Siblings(f)
           \/ o = "clearOneof" /\ label = "clear"
           \/ o = "clearUnknown" /\ label = "forget"
           \/ o = "merge" /\ label = "merge"
           \/ o = "decode" /\ label = "decode",
           WellFormed(fields'), Len(fields') <= capacity,
           unknown_fields' \in Seq(UnknownField),
           denormalized' \in BOOLEAN,
           ~denormalized' => NormalizedMaps(fields')
    PROVE  IInv'
<1>1. /\ pc = "idle" /\ op' = o /\ fld' = f /\ val' = v /\ drop' = D /\ src' = s
      /\ pc' = label /\ prior' = PresentNumbers(fields)
      /\ UNCHANGED <<capacity, idx, rd, wr, records, outcome>>
  BY DEF Begin
<1>2. idx' = 1 /\ rd' = 1 /\ wr' = 1
  BY <1>1 DEF IInv, FrameOK
<1>3. prior' \subseteq Field
  BY <1>1, NumbersAreFields DEF IInv, TypeOK
<1>4. TypeOK'
  BY <1>1, <1>2, <1>3 DEF IInv, TypeOK, WellFormed
<1>5. FrameOK'
  BY <1>1, <1>2 DEF FrameOK, Operation, Label
<1>6. Len(fields') \in Nat /\ Len(unknown_fields') \in Nat
  BY LenProperties DEF WellFormed
<1>7. StoreOK' /\ IndexesOK' /\ MapsOK'
  BY <1>1, <1>2, <1>6 DEF StoreOK, IndexesOK, MapsOK, MapKeysUnique
<1> QED
  BY <1>4, <1>5, <1>7 DEF IInv

-----------------------------------------------------------------------------
(* The steps of add.                                                        *)

(* Merging into a singular message writes one value over the one there.     *)
LEMMA MergedIs ==
    ASSUME IInv, pc = "add", Mergeable, NEW s \in Seq(Datum)
    PROVE  /\ WellFormed(Merged(s)) /\ Len(Merged(s)) = Len(fields)
           /\ NormalizedMaps(fields) => NormalizedMaps(Merged(s))
<1> DEFINE vs == Values(fields, fld)
           new == <<Nested(vs[1].body \o s)>>
<1>1. /\ WellFormed(fields) /\ fld \in Field /\ fld \in Numbers(fields)
      /\ vs # <<>> /\ Kind[fld] # "map"
  BY DEF IInv, StoreOK, FrameOK, Mergeable, has, Values, shouldMergeSingularMessageField
<1>2. vs \in Seq(Value) /\ Len(vs) \in Nat \ {0}
  BY <1>1, ValuesFit, EmptySeq DEF Fits
<1>3. vs[1].body \in Seq(Datum)
  <2>1. vs[1] \in Value
    BY <1>2, ElementOfSeq
  <2> QED
    BY <2>1 DEF Value
<1>4. Nested(vs[1].body \o s) \in Value
  BY <1>3, ConcatProperties DEF Nested, Value
<1>5. Fits(fld, new) /\ Normalized(fld, new)
  BY <1>1, <1>4 DEF Fits, Normalized
<1> QED
  BY <1>1, <1>5, WithValuesIs DEF Merged

(* A created entry is in a free oneof.                                      *)
LEMMA CreatedIs ==
    ASSUME TypeOK, WellFormed(fields), NEW f \in Field,
           Numbers(fields) \cap Siblings(f) = {}
    PROVE  /\ WellFormed(Created(f)) /\ Len(Created(f)) \in Nat
           /\ f \in Numbers(Created(f))
           /\ NormalizedMaps(fields) => NormalizedMaps(Created(f))
<1>1. CASE f \in Numbers(fields)
  BY <1>1, LenProperties DEF Created, WellFormed
<1>2. CASE f \notin Numbers(fields)
  BY <1>2, AppendEntryIs, LenProperties DEF Created, WellFormed
<1> QED
  BY <1>1, <1>2

(* The value add places fits its field, and keeps a map's keys unique.      *)
LEMMA PlacedIs ==
    ASSUME IInv, pc = "place"
    PROVE  /\ Fits(fld, Placed)
           /\ op # "decode" /\ NormalizedMaps(fields) => Normalized(fld, Placed)
<1> DEFINE vs == Values(fields, fld)
<1>1. /\ WellFormed(fields) /\ fld \in Field /\ fld \in Numbers(fields) /\ val \in Value
  BY DEF IInv, TypeOK, StoreOK, FrameOK
<1>2. vs \in Seq(Value)
  BY <1>1, ValuesFit DEF Fits
<1>3. CASE Kind[fld] = "map" /\ op # "decode"
  <2>1. Placed = PutEntry(vs, val) /\ isRepeatedLike(fld)
    BY <1>3 DEF Placed, isRepeatedLike
  <2>2. NormalizedMaps(fields) => UniqueKeys(vs)
    <3>1. Position(fields, fld) \in DOMAIN fields /\ fields[Position(fields, fld)].number = fld
      BY <1>1, PositionFound DEF WellFormed
    <3> QED
      BY <1>1, <1>3, <3>1 DEF NormalizedMaps, Values
  <2> QED
    BY <1>1, <1>2, <2>1, <2>2, PutEntryIs DEF Fits, Normalized
<1>4. CASE ~(Kind[fld] = "map" /\ op # "decode") /\ ~isRepeatedLike(fld)
  <2>1. Placed = <<val>>
    BY <1>4 DEF Placed
  <2>2. <<val>> \in Seq(Value) /\ Len(<<val>>) = 1
    BY <1>1
  <2> QED
    BY <1>4, <2>1, <2>2 DEF Fits, Normalized, isRepeatedLike
<1>5. CASE ~(Kind[fld] = "map" /\ op # "decode") /\ isRepeatedLike(fld)
  <2>1. Placed = Append(vs, val)
    BY <1>5 DEF Placed
  <2> QED
    BY <1>1, <1>2, <1>5, <2>1, AppendProperties DEF Fits, Normalized
<1> QED
  BY <1>3, <1>4, <1>5

(* Every step of add leaves the invariant.                                  *)
LEMMA AddSafe ==
    ASSUME IInv, Add
    PROVE  IInv'
<1> USE DEF IInv
<1>1. /\ WellFormed(fields) /\ fields \in Seq(Entry) /\ Len(fields) \in Nat
      /\ DOMAIN fields = 1 .. Len(fields) /\ Len(fields) <= capacity
      /\ unknown_fields \in Seq(UnknownField) /\ val \in Value
      /\ op # "decode" /\ ~denormalized => NormalizedMaps(fields)
  BY LenProperties DEF TypeOK, StoreOK, MapsOK, MapKeysUnique
<1>2. CASE MergeSingular
  <2>1. /\ pc = "add" /\ Mergeable /\ fields' = Merged(val.body) /\ Return
        /\ UNCHANGED unknown_fields
    BY <1>2 DEF MergeSingular
  <2>2. val.body \in Seq(Datum)
    BY <1>1 DEF Value
  <2> QED
    BY <1>1, <2>1, <2>2, MergedIs, ReturnSafe
<1>3. CASE MergeSingularFails
  <2>1. PICK n \in 0 .. Len(val.body) - 1 :
          /\ pc = "add" /\ Mergeable /\ fields' = Merged(SubSeq(val.body, 1, n))
          /\ Fail /\ UNCHANGED unknown_fields
    BY <1>3 DEF MergeSingularFails
  <2>2. val.body \in Seq(Datum) /\ Len(val.body) \in Nat
    BY <1>1, LenProperties DEF Value
  <2>3. SubSeq(val.body, 1, n) \in Seq(Datum)
    <3>1. n \in Int /\ \A i \in 1 .. n : val.body[i] \in Datum
      BY <2>1, <2>2, ElementOfSeq
    <3> QED
      BY <3>1, SubSeqProperties
  <2> QED
    BY <1>1, <2>1, <2>3, MergedIs, FailSafe
<1>4. CASE NothingToMerge
  <2>1. /\ pc = "add" /\ pc' = IF Oneof[fld] # NoOneof THEN "clear" ELSE "create"
        /\ UNCHANGED <<fields, unknown_fields, outcome, denormalized, capacity, frame>>
    BY <1>4 DEF NothingToMerge
  <2>2. /\ fld \in Field /\ drop = Siblings(fld) /\ idx = 1 /\ rd = 1 /\ wr = 1
        /\ op \notin {"none", "clearOneof", "clearUnknown"}
    BY <2>1 DEF FrameOK
  <2>3. TypeOK'
    BY <2>1 DEF TypeOK, Label, frame
  <2>4. FrameOK'
    BY <2>1, <2>2 DEF FrameOK, frame
  <2>5. StoreOK'
    BY <1>1, <2>1, <2>2 DEF StoreOK, Siblings, frame
  <2>6. IndexesOK' /\ MapsOK'
    BY <2>1 DEF IndexesOK, MapsOK, MapKeysUnique, frame
  <2> QED
    BY <2>3, <2>4, <2>5, <2>6
<1>5. CASE ClearSibling
  <2>1. /\ pc = "clear" /\ idx \in DOMAIN fields /\ fields[idx].number \in drop
        /\ fields' = SwapRemove(fields, idx)
        /\ UNCHANGED <<unknown_fields, pc, outcome, denormalized, capacity, frame>>
    BY <1>1, <1>5 DEF ClearSibling, TypeOK
  <2>2. /\ WellFormed(fields') /\ Len(fields') = Len(fields) - 1
        /\ \A j \in 1 .. Len(fields) - 1 :
              fields'[j] = IF j = idx THEN fields[Len(fields)] ELSE fields[j]
        /\ NormalizedMaps(fields) => NormalizedMaps(fields')
    BY <1>1, <2>1, SwapRemoveIs
  <2>3. TypeOK'
    BY <1>1, <2>1, <2>2 DEF TypeOK, WellFormed, frame
  <2>4. FrameOK'
    BY <2>1 DEF FrameOK, frame
  <2>5. StoreOK'
    <3>1. idx \in Nat /\ idx <= Len(fields') + 1
      BY <1>1, <2>1, <2>2
    <3>2. \A i \in 1 .. idx - 1 : fields'[i] = fields[i]
      BY <1>1, <2>1, <2>2
    <3> QED
      BY <2>1, <2>2, <3>1, <3>2 DEF StoreOK, frame
  <2>6. IndexesOK' /\ MapsOK'
    BY <1>1, <2>1, <2>2 DEF IndexesOK, MapsOK, MapKeysUnique, frame
  <2> QED
    BY <2>3, <2>4, <2>5, <2>6
<1>6. CASE SkipSibling
  <2>1. /\ pc = "clear" /\ idx \in DOMAIN fields /\ fields[idx].number \notin drop
        /\ idx' = idx + 1
        /\ UNCHANGED <<fields, unknown_fields, pc, outcome, denormalized,
                       capacity, op, fld, val, drop, rd, wr, src, records, prior>>
    BY <1>1, <1>6 DEF SkipSibling, TypeOK
  <2>2. TypeOK'
    BY <2>1 DEF TypeOK
  <2>3. FrameOK'
    BY <2>1 DEF FrameOK
  <2>4. StoreOK'
    <3>1. \A i \in 1 .. idx' - 1 : i \in 1 .. idx - 1 \/ i = idx
      BY <1>1, <2>1
    <3>2. idx' <= Len(fields) + 1
      BY <1>1, <2>1
    <3> QED
      BY <2>1, <3>1, <3>2 DEF StoreOK
  <2>5. IndexesOK' /\ MapsOK'
    BY <2>1 DEF IndexesOK, MapsOK, MapKeysUnique
  <2> QED
    BY <2>2, <2>3, <2>4, <2>5
<1>7. CASE SiblingsCleared
  <2>1. /\ pc = "clear" /\ idx > Len(fields)
        /\ UNCHANGED <<fields, unknown_fields, denormalized>>
    BY <1>7 DEF SiblingsCleared
  <2>2. CASE op = "clearOneof"
    <3>1. Finish("ok") /\ TypeOK /\ denormalized' \in BOOLEAN
      BY <1>7, <2>1, <2>2 DEF SiblingsCleared, TypeOK
    <3> QED
      BY <1>1, <2>1, <2>2, <3>1, FinishSafe
  <2>3. CASE op # "clearOneof"
    <3>1. pc' = "create" /\ UNCHANGED <<outcome, capacity, frame>>
      BY <1>7, <2>3 DEF SiblingsCleared
    <3>2. TypeOK'
      BY <2>1, <3>1 DEF TypeOK, Label, frame
    <3>3. FrameOK'
      BY <2>1, <2>3, <3>1 DEF FrameOK, frame
    <3>4. Numbers(fields) \cap Siblings(fld) = {}
      <4>1. drop = Siblings(fld)
        BY <2>1, <2>3 DEF FrameOK
      <4>2. idx = Len(fields) + 1
        BY <1>1, <2>1 DEF StoreOK, TypeOK
      <4>3. \A i \in DOMAIN fields : fields[i].number \notin drop
        BY <1>1, <2>1, <4>2 DEF StoreOK
      <4> QED
        BY <4>1, <4>3 DEF Numbers
    <3>5. StoreOK'
      BY <1>1, <2>1, <3>1, <3>4 DEF StoreOK, frame
    <3>6. IndexesOK' /\ MapsOK'
      BY <2>1, <3>1 DEF IndexesOK, MapsOK, MapKeysUnique, frame
    <3> QED
      BY <3>2, <3>3, <3>5, <3>6
  <2> QED
    BY <2>2, <2>3
<1>8. CASE Create
  <2>1. /\ pc = "create" /\ fields' = Created(fld) /\ pc' = "place"
        /\ capacity' = IF Len(fields') > capacity THEN Len(fields') ELSE capacity
        /\ UNCHANGED <<unknown_fields, outcome, denormalized, frame>>
    BY <1>8 DEF Create, Grow
  <2>2. fld \in Field /\ Numbers(fields) \cap Siblings(fld) = {}
    BY <2>1 DEF FrameOK, StoreOK
  <2>3. /\ WellFormed(fields') /\ Len(fields') \in Nat /\ fld \in Numbers(fields')
        /\ NormalizedMaps(fields) => NormalizedMaps(fields')
    BY <1>1, <2>1, <2>2, CreatedIs
  <2>4. TypeOK'
    BY <2>1, <2>3 DEF TypeOK, WellFormed, Label, frame
  <2>5. FrameOK'
    BY <2>1 DEF FrameOK, frame
  <2>6. StoreOK' /\ IndexesOK' /\ MapsOK'
    BY <1>1, <2>1, <2>3 DEF StoreOK, IndexesOK, MapsOK, MapKeysUnique, frame
  <2> QED
    BY <2>4, <2>5, <2>6
<1>9. CASE CreateFails
  BY <1>1, <1>9, FailSafe DEF CreateFails
<1>10. CASE Place
  <2>1. /\ pc = "place" /\ fields' = WithValues(fields, fld, Placed) /\ Return
        /\ UNCHANGED unknown_fields
    BY <1>10 DEF Place
  <2>2. fld \in Numbers(fields)
    BY <2>1 DEF StoreOK
  <2>3. /\ Fits(fld, Placed)
        /\ op # "decode" /\ NormalizedMaps(fields) => Normalized(fld, Placed)
    BY <2>1, PlacedIs
  <2>4. /\ WellFormed(fields') /\ Len(fields') = Len(fields)
        /\ NormalizedMaps(fields) /\ Normalized(fld, Placed) => NormalizedMaps(fields')
    BY <1>1, <2>1, <2>2, <2>3, WithValuesIs
  <2> QED
    BY <1>1, <2>1, <2>3, <2>4, ReturnSafe
<1>11. CASE PlaceFails
  BY <1>1, <1>11, FailSafe DEF PlaceFails
<1> QED
  BY <1>2, <1>3, <1>4, <1>5, <1>6, <1>7, <1>8, <1>9, <1>10, <1>11 DEF Add

-----------------------------------------------------------------------------
(* Every call that begins leaves the invariant.                             *)
LEMMA CallSafe ==
    ASSUME IInv, Call
    PROVE  IInv'
<1>1. /\ WellFormed(fields) /\ fields \in Seq(Entry) /\ Len(fields) \in Nat
      /\ Len(fields) <= capacity /\ capacity \in Nat
      /\ unknown_fields \in Seq(UnknownField) /\ denormalized \in BOOLEAN
      /\ pc = "idle" /\ ~denormalized => NormalizedMaps(fields)
  BY LenProperties DEF IInv, TypeOK, StoreOK, FrameOK, MapsOK, MapKeysUnique
<1>2. \A f \in Field : Siblings(f) \subseteq Field \cup UnknownNumber
  BY DEF Siblings, Members
<1>3. WellFormed(<<>>) /\ NormalizedMaps(<<>>) /\ Len(<<>>) = 0 /\ <<>> \in Seq(UnknownField)
  BY EmptyStore, EmptySeq
<1> DEFINE Ops == {"add", "set", "merge", "decode"}
<1>0. /\ Ops \subseteq Operation \ {"none"}
      /\ {"add", "merge", "decode"} \subseteq Label \ {"idle"}
      /\ {} \subseteq Field \cup UnknownNumber
      /\ NoField \in Field \cup {NoField} /\ NoValue \in Value
      /\ NoSource \in [values : Seq(Assignment), unknown : Seq(UnknownField)]
  BY NothingTyped DEF Operation, Label
<1>4. ASSUME NEW f \in Field, NEW v \in ValuesFor(f, MaxBody), CallAdd(f, v)
      PROVE  IInv'
  <2>1. /\ Begin("add", f, v, Siblings(f), NoSource, "add") /\ pc = "idle"
        /\ UNCHANGED <<fields, unknown_fields, denormalized>>
    BY <1>4 DEF CallAdd, Begin
  <2>2. v \in Value
    BY BoundAssumption, ValuesForAreValues
  <2> QED
    BY <1>1, <1>2, <2>1, <2>2, NothingTyped, BeginSafe DEF Operation, Label
<1>5. ASSUME NEW f \in Field, NEW v \in ValuesFor(f, MaxBody), CallSet(f, v)
      PROVE  IInv'
  <2>1. /\ Begin("set", f, v, Siblings(f), NoSource, "add") /\ pc = "idle"
        /\ fields' = IF f \in Repeated THEN ClearField(fields, f) ELSE fields
        /\ UNCHANGED <<unknown_fields, denormalized>>
    BY <1>5 DEF CallSet, Begin
  <2>2. v \in Value
    BY BoundAssumption, ValuesForAreValues
  <2>3. /\ WellFormed(fields') /\ Len(fields') <= Len(fields)
        /\ NormalizedMaps(fields) => NormalizedMaps(fields')
    BY <1>1, <2>1, ClearFieldIs
  <2>4. Len(fields') \in Nat
    BY <2>3, LenProperties DEF WellFormed
  <2>5. Len(fields') <= capacity
    BY <1>1, <2>3, <2>4
  <2>6. /\ unknown_fields' \in Seq(UnknownField) /\ denormalized' \in BOOLEAN
        /\ f \in Field \cup {NoField} /\ Siblings(f) \subseteq Field \cup UnknownNumber
    BY <1>1, <1>2, <2>1
  <2>7. WellFormed(fields') /\ (~denormalized' => NormalizedMaps(fields'))
    BY <1>1, <2>1, <2>3
  <2>8. Begin("set", f, v, Siblings(f), NoSource, "add")
    BY <2>1
  <2> QED
    BY <2>2, <2>5, <2>6, <2>7, <2>8, NothingTyped, BeginSafe DEF Operation, Label
<1>6. ASSUME NEW s \in Source, CallMergeFrom(s)
      PROVE  IInv'
  <2>1. /\ Begin("merge", NoField, NoValue, {}, s, "merge") /\ pc = "idle"
        /\ UNCHANGED <<fields, unknown_fields, denormalized>>
    BY <1>6 DEF CallMergeFrom, Begin
  <2>2. s \in [values : Seq(Assignment), unknown : Seq(UnknownField)]
    BY SourceAssumption
  <2>3. /\ WellFormed(fields') /\ Len(fields') <= capacity
        /\ unknown_fields' \in Seq(UnknownField) /\ denormalized' \in BOOLEAN
        /\ ~denormalized' => NormalizedMaps(fields')
    BY <1>1, <2>1
  <2>4. Begin("merge", NoField, NoValue, {}, s, "merge")
    BY <2>1
  <2>5. /\ "merge" \in Operation \ {"none"} /\ "merge" \in Label \ {"idle"}
        /\ NoField \in Field \cup {NoField} /\ NoValue \in Value
        /\ {} \subseteq Field \cup UnknownNumber
    BY <1>0
  <2> QED
    BY <2>2, <2>3, <2>4, <2>5, BeginSafe, SMTT(30)
<1>7. ASSUME NEW s \in Source, CallCopyFrom(s)
      PROVE  IInv'
  <2>1. /\ Begin("merge", NoField, NoValue, {}, s, "merge")
        /\ fields' = <<>> /\ unknown_fields' = <<>> /\ denormalized' = FALSE
    BY <1>7 DEF CallCopyFrom
  <2>2. s \in [values : Seq(Assignment), unknown : Seq(UnknownField)]
    BY SourceAssumption
  <2>3. /\ WellFormed(fields') /\ Len(fields') <= capacity
        /\ unknown_fields' \in Seq(UnknownField)
        /\ denormalized' \in BOOLEAN /\ NormalizedMaps(fields')
    <3>1. WellFormed(fields') /\ NormalizedMaps(fields') /\ Len(fields') = 0
      BY <1>3, <2>1, Zenon
    <3>2. unknown_fields' \in Seq(UnknownField)
      BY <1>3, <2>1, Zenon
    <3>3. Len(fields') <= capacity
      BY <1>1, <3>1
    <3>4. denormalized' \in BOOLEAN
      BY <2>1, Zenon
    <3> QED
      BY <3>1, <3>2, <3>3, <3>4
  <2> QED
    BY <1>0, <2>1, <2>3, <2>2, BeginSafe
<1>8. CASE CallDecode
  <2>1. /\ Begin("decode", NoField, NoValue, {}, NoSource, "decode")
        /\ fields' = <<>> /\ unknown_fields' = <<>> /\ denormalized' = FALSE
    BY <1>8 DEF CallDecode
  <2>3. /\ WellFormed(fields') /\ Len(fields') <= capacity
        /\ unknown_fields' \in Seq(UnknownField)
        /\ denormalized' \in BOOLEAN /\ NormalizedMaps(fields')
    <3>1. WellFormed(fields') /\ NormalizedMaps(fields') /\ Len(fields') = 0
      BY <1>3, <2>1, Zenon
    <3>2. unknown_fields' \in Seq(UnknownField)
      BY <1>3, <2>1, Zenon
    <3>3. Len(fields') <= capacity
      BY <1>1, <3>1
    <3>4. denormalized' \in BOOLEAN
      BY <2>1, Zenon
    <3> QED
      BY <3>1, <3>2, <3>3, <3>4
  <2> QED
    BY <1>0, <2>1, <2>3, BeginSafe
<1> QED
  BY <1>4, <1>5, <1>6, <1>7, <1>8 DEF Call

(* Replacing the slots of a repeated field or a map that has any.           *)
LEMMA SlotsSafe ==
    ASSUME IInv, NEW f, isRepeatedLike(f), Values(fields, f) # <<>>,
           NEW vs \in Seq(Value),
           UniqueKeys(Values(fields, f)) => UniqueKeys(vs)
    PROVE  /\ WellFormed(WithValues(fields, f, vs))
           /\ Len(WithValues(fields, f, vs)) = Len(fields)
           /\ NormalizedMaps(fields) => NormalizedMaps(WithValues(fields, f, vs))
<1>1. WellFormed(fields) /\ f \in Numbers(fields)
  BY DEF IInv, StoreOK, Values
<1>2. /\ Position(fields, f) \in DOMAIN fields
      /\ fields[Position(fields, f)].number = f
  BY <1>1, PositionFound DEF WellFormed
<1>3. NormalizedMaps(fields) => Normalized(f, vs)
  BY <1>1, <1>2 DEF NormalizedMaps, Normalized, Values
<1> QED
  BY <1>1, <1>3, WithValuesIs DEF Fits

(* The same, when the field may be left empty.                              *)
LEMMA WithSlotsSafe ==
    ASSUME IInv, NEW f, isRepeatedLike(f), Values(fields, f) # <<>>,
           NEW vs \in Seq(Value),
           UniqueKeys(Values(fields, f)) => UniqueKeys(vs)
    PROVE  /\ WellFormed(WithSlots(f, vs)) /\ Len(WithSlots(f, vs)) <= Len(fields)
           /\ NormalizedMaps(fields) => NormalizedMaps(WithSlots(f, vs))
<1>1. WellFormed(fields) /\ Len(fields) \in Nat
  BY LenProperties DEF IInv, StoreOK, WellFormed
<1>2. CASE vs = <<>>
  BY <1>1, <1>2, ClearFieldIs DEF WithSlots
<1>3. CASE vs # <<>>
  BY <1>1, <1>3, SlotsSafe DEF WithSlots
<1> QED
  BY <1>2, <1>3

(* Every mutation leaves the invariant.                                     *)
LEMMA MutateSafe ==
    ASSUME IInv, Mutate
    PROVE  IInv'
<1>1. /\ WellFormed(fields) /\ fields \in Seq(Entry) /\ Len(fields) \in Nat
      /\ Len(fields) <= capacity /\ capacity \in Nat
      /\ unknown_fields \in Seq(UnknownField) /\ denormalized \in BOOLEAN
      /\ pc = "idle" /\ ~denormalized => NormalizedMaps(fields)
  BY LenProperties DEF IInv, TypeOK, StoreOK, FrameOK, MapsOK, MapKeysUnique
<1>2. \A f : Values(fields, f) \in Seq(Value)
  BY <1>1, ValuesFit DEF Fits
<1>3. \A f : \A i \in DOMAIN Values(fields, f) : Values(fields, f) # <<>>
  OBVIOUS
<1>4. WellFormed(<<>>) /\ NormalizedMaps(<<>>) /\ Len(<<>>) = 0 /\ <<>> \in Seq(UnknownField)
  BY EmptyStore, EmptySeq
<1>5. ASSUME NEW f \in Field, CallClearField(f)
      PROVE  IInv'
  BY <1>1, <1>5, ClearFieldIs, ImmediateSafe DEF CallClearField
<1>6. ASSUME NEW f \in Field, NEW i \in 1 .. MaxValues, CallRemoveRepeatedValue(f, i)
      PROVE  IInv'
  <2> DEFINE vs == Values(fields, f)
  <2>1. /\ isRepeatedLike(f) /\ i \in DOMAIN vs
        /\ Immediate(WithSlots(f, RemoveAt(vs, i)))
    BY <1>6 DEF CallRemoveRepeatedValue
  <2>2. /\ RemoveAt(vs, i) \in Seq(Value)
        /\ UniqueKeys(vs) => UniqueKeys(RemoveAt(vs, i))
    BY <1>2, <2>1, RemoveAtIs
  <2> QED
    BY <1>3, <2>1, <2>2, WithSlotsSafe, ImmediateSafe
<1>7. ASSUME NEW f \in Field, NEW i \in 1 .. MaxValues, NEW j \in 1 .. MaxValues,
             CallSwapRepeatedValues(f, i, j)
      PROVE  IInv'
  <2> DEFINE vs == Values(fields, f)
             new == [vs EXCEPT ![i] = vs[j], ![j] = vs[i]]
  <2>1. /\ isRepeatedLike(f) /\ i \in DOMAIN vs /\ j \in DOMAIN vs
        /\ Immediate(WithValues(fields, f, new))
    BY <1>7 DEF CallSwapRepeatedValues
  <2>2. new \in Seq(Value) /\ (UniqueKeys(vs) => UniqueKeys(new))
    BY <1>2, <2>1, SwappedIs
  <2> HIDE DEF new
  <2>3. /\ WellFormed(WithValues(fields, f, new))
        /\ Len(WithValues(fields, f, new)) = Len(fields)
        /\ NormalizedMaps(fields) => NormalizedMaps(WithValues(fields, f, new))
    BY <1>3, <2>1, <2>2, SlotsSafe
  <2> QED
    BY <1>1, <2>1, <2>3, ImmediateSafe
<1>8. ASSUME NEW f \in Field, NEW i \in 1 .. MaxValues, NEW v \in ValuesFor(f, 1),
             CallSetRepeatedValue(f, i, v)
      PROVE  IInv'
  <2> DEFINE vs == Values(fields, f)
             new == [vs EXCEPT ![i] = v]
  <2>1. /\ pc = "idle" /\ isRepeatedLike(f) /\ i \in DOMAIN vs
        /\ fields' = WithValues(fields, f, new) /\ outcome' = "ok"
        /\ denormalized' = (denormalized \/ Kind[f] = "map")
        /\ UNCHANGED <<unknown_fields, pc, capacity, frame>>
    BY <1>8 DEF CallSetRepeatedValue
  <2>2. new \in Seq(Value)
    BY <1>2, <2>1, ValuesForAreValues, ExceptSeq, LenProperties
  <2>3. f \in Numbers(fields) /\ Fits(f, new)
    BY <1>3, <2>1, <2>2 DEF Values, Fits
  <2> HIDE DEF new
  <2>4. /\ WellFormed(fields') /\ Len(fields') = Len(fields)
        /\ NormalizedMaps(fields) /\ Kind[f] # "map" => NormalizedMaps(fields')
    BY <1>1, <2>1, <2>3, WithValuesIs DEF Normalized
  <2>5. TypeOK'
    BY <1>1, <2>1, <2>4 DEF IInv, TypeOK, WellFormed, frame
  <2>6. FrameOK'
    BY <2>1 DEF IInv, FrameOK, frame
  <2>7. StoreOK' /\ IndexesOK' /\ MapsOK'
    BY <1>1, <2>1, <2>4 DEF IInv, StoreOK, IndexesOK, MapsOK, MapKeysUnique, frame
  <2> QED
    BY <2>5, <2>6, <2>7 DEF IInv
<1>9. ASSUME NEW f \in Field, NEW k \in Key, CallClearMapEntry(f, k)
      PROVE  IInv'
  <2> DEFINE vs == Values(fields, f)
             i == KeySlot(vs, k)
  <2>1. /\ isRepeatedLike(f) /\ k \in Keys(vs)
        /\ Immediate(WithSlots(f, RemoveAt(vs, i)))
    BY <1>9 DEF CallClearMapEntry, isRepeatedLike
  <2>2. i \in DOMAIN vs
    BY <1>2, <2>1, KeySlotFound
  <2>3. /\ RemoveAt(vs, i) \in Seq(Value)
        /\ UniqueKeys(vs) => UniqueKeys(RemoveAt(vs, i))
    BY <1>2, <2>2, RemoveAtIs
  <2> QED
    BY <1>3, <2>1, <2>2, <2>3, WithSlotsSafe, ImmediateSafe
<1>10. ASSUME NEW o \in OneofName, CallClearOneof(o)
       PROVE  IInv'
  <2>1. /\ Begin("clearOneof", NoField, NoValue, Members(o), NoSource, "clear")
        /\ pc = "idle" /\ UNCHANGED <<fields, unknown_fields, denormalized>>
    BY <1>10 DEF CallClearOneof, Begin
  <2>2. Members(o) \subseteq Field \cup UnknownNumber
    BY DEF Members
  <2> QED
    BY <1>1, <2>1, <2>2, NothingTyped, BeginSafe DEF Operation, Label
<1>11. CASE CallClear
  <2>1. /\ pc = "idle" /\ fields' = <<>> /\ unknown_fields' = <<>>
        /\ outcome' = "ok" /\ denormalized' = FALSE
        /\ UNCHANGED <<pc, capacity, frame>>
    BY <1>11 DEF CallClear
  <2>2. TypeOK'
    <3>1. fields' \in Seq(Entry) /\ Len(fields') <= capacity
      BY <1>1, <1>4, <2>1 DEF WellFormed
    <3> QED
      BY <1>1, <1>4, <2>1, <3>1 DEF IInv, TypeOK, frame
  <2>3. FrameOK'
    BY <2>1 DEF IInv, FrameOK, frame
  <2>4. StoreOK' /\ IndexesOK' /\ MapsOK'
    BY <1>4, <2>1 DEF StoreOK, IndexesOK, MapsOK, MapKeysUnique
  <2> QED
    BY <2>2, <2>3, <2>4 DEF IInv
<1>12. ASSUME UNCHANGED <<fields, pc, denormalized, capacity, frame>>,
              pc = "idle", outcome' = "ok", unknown_fields' \in Seq(UnknownField)
       PROVE  IInv'
  <2>1. TypeOK'
    BY <1>12 DEF IInv, TypeOK, frame
  <2>2. FrameOK'
    BY <1>12 DEF IInv, FrameOK, frame
  <2>3. StoreOK' /\ IndexesOK' /\ MapsOK'
    BY <1>12 DEF IInv, StoreOK, IndexesOK, MapsOK, MapKeysUnique, frame
  <2> QED
    BY <2>1, <2>2, <2>3 DEF IInv
<1>13. ASSUME NEW n \in Field \cup UnknownNumber, NEW d \in Datum,
              CallAppendUnknownRaw(n, d)
       PROVE  IInv'
  <2>1. [number |-> n, data |-> d] \in UnknownField
    BY DEF UnknownField
  <2>2. unknown_fields' \in Seq(UnknownField)
    BY <1>1, <1>13, <2>1, AppendProperties DEF CallAppendUnknownRaw, KeepUnknown
  <2> QED
    BY <1>12, <1>13, <2>2 DEF CallAppendUnknownRaw
<1>14. CASE CallClearUnknown
  BY <1>4, <1>12, <1>14 DEF CallClearUnknown
<1>15. ASSUME NEW n \in Field \cup UnknownNumber, CallClearUnknownByNumber(n)
       PROVE  IInv'
  <2>1. /\ Begin("clearUnknown", NoField, NoValue, {n}, NoSource, "forget")
        /\ pc = "idle" /\ UNCHANGED <<fields, unknown_fields, denormalized>>
    BY <1>15 DEF CallClearUnknownByNumber, Begin
  <2> QED
    BY <1>1, <2>1, NothingTyped, BeginSafe DEF Operation, Label
<1> QED
  BY <1>5, <1>6, <1>7, <1>8, <1>9, <1>10, <1>11, <1>13, <1>14, <1>15 DEF Mutate

-----------------------------------------------------------------------------
(* Every step of clearUnknownFieldsByNumber leaves the invariant.           *)
LEMMA ForgetSafe ==
    ASSUME IInv, Forget
    PROVE  IInv'
<1> USE DEF IInv
<1>1. /\ WellFormed(fields) /\ Len(fields) <= capacity
      /\ unknown_fields \in Seq(UnknownField) /\ Len(unknown_fields) \in Nat
      /\ DOMAIN unknown_fields = 1 .. Len(unknown_fields)
      /\ rd \in Nat \ {0} /\ wr \in Nat \ {0} /\ denormalized \in BOOLEAN
  BY LenProperties DEF TypeOK, StoreOK
<1>2. CASE ForgetUnknown
  <2>1. /\ pc = "forget" /\ rd <= Len(unknown_fields) /\ rd' = rd + 1
        /\ UNCHANGED <<fields, unknown_fields, pc, outcome, denormalized,
                       capacity, op, fld, val, drop, idx, wr, src, records, prior>>
    BY <1>2 DEF ForgetUnknown
  <2>2. TypeOK'
    BY <1>1, <2>1 DEF TypeOK
  <2>3. FrameOK'
    BY <2>1 DEF FrameOK
  <2>4. StoreOK' /\ IndexesOK' /\ MapsOK'
    BY <1>1, <2>1 DEF StoreOK, IndexesOK, MapsOK, MapKeysUnique
  <2> QED
    BY <2>2, <2>3, <2>4
<1>3. CASE RetainUnknown
  <2>1. /\ pc = "forget" /\ rd \in 1 .. Len(unknown_fields)
        /\ unknown_fields' = [unknown_fields EXCEPT ![wr] = unknown_fields[rd]]
        /\ rd' = rd + 1 /\ wr' = wr + 1
        /\ UNCHANGED <<fields, pc, outcome, denormalized,
                       capacity, op, fld, val, drop, idx, src, records, prior>>
    BY <1>1, <1>3 DEF RetainUnknown
  <2>2. wr \in 1 .. Len(unknown_fields) /\ wr <= rd
    BY <1>1, <2>1 DEF IndexesOK
  <2>3. unknown_fields[rd] \in UnknownField
    BY <1>1, <2>1, ElementOfSeq
  <2>4. unknown_fields' \in Seq(UnknownField) /\ Len(unknown_fields') = Len(unknown_fields)
    BY <1>1, <2>1, <2>2, <2>3, ExceptSeq
  <2>5. TypeOK'
    BY <1>1, <2>1, <2>4 DEF TypeOK
  <2>6. FrameOK'
    BY <2>1 DEF FrameOK
  <2>7. StoreOK' /\ IndexesOK' /\ MapsOK'
    BY <1>1, <2>1, <2>2, <2>4 DEF StoreOK, IndexesOK, MapsOK, MapKeysUnique
  <2> QED
    BY <2>5, <2>6, <2>7
<1>4. CASE UnknownForgotten
  <2>1. /\ pc = "forget" /\ rd > Len(unknown_fields)
        /\ unknown_fields' = SubSeq(unknown_fields, 1, wr - 1)
        /\ Finish("ok") /\ UNCHANGED <<fields, denormalized>>
    BY <1>4 DEF UnknownForgotten
  <2>2. wr - 1 \in Nat /\ wr - 1 <= Len(unknown_fields)
    BY <1>1, <2>1 DEF IndexesOK
  <2>3. \A i \in 1 .. wr - 1 : unknown_fields[i] \in UnknownField
    BY <1>1, <2>2, ElementOfSeq
  <2>4. unknown_fields' \in Seq(UnknownField)
    BY <2>1, <2>2, <2>3, SubSeqProperties
  <2>5. op = "clearUnknown"
    BY <2>1 DEF FrameOK
  <2>6. ~denormalized' => NormalizedMaps(fields')
    BY <2>1, <2>5 DEF MapsOK, MapKeysUnique
  <2> QED
    BY <1>1, <2>1, <2>4, <2>6, FinishSafe
<1> QED
  BY <1>2, <1>3, <1>4 DEF Forget

-----------------------------------------------------------------------------
(* Every step of mergeFrom, add apart, leaves the invariant.                *)
LEMMA MergeSafe ==
    ASSUME IInv, Merge
    PROVE  IInv'
<1> USE DEF IInv
<1>1. /\ WellFormed(fields) /\ Len(fields) <= capacity
      /\ unknown_fields \in Seq(UnknownField) /\ denormalized \in BOOLEAN
      /\ src \in [values : Seq(Assignment), unknown : Seq(UnknownField)]
      /\ op # "decode" /\ ~denormalized => NormalizedMaps(fields)
  BY DEF TypeOK, StoreOK, MapsOK, MapKeysUnique
<1>2. CASE MergeField
  <2> DEFINE a == Head(src.values)
  <2>1. /\ pc = "merge" /\ src.values # <<>>
        /\ fld' = a.number /\ val' = a.value /\ drop' = Siblings(a.number)
        /\ src' = [src EXCEPT !.values = Tail(@)] /\ pc' = "add"
        /\ UNCHANGED <<fields, unknown_fields, outcome, denormalized,
                       capacity, op, idx, rd, wr, records, prior>>
    BY <1>2 DEF MergeField
  <2>2. src.values \in Seq(Assignment)
    BY <1>1
  <2>3. a \in Assignment /\ Tail(src.values) \in Seq(Assignment)
    BY <2>1, <2>2, HeadTailProperties
  <2>4. /\ fld' \in Field /\ val' \in Value /\ drop' \subseteq Field
        /\ src' \in [values : Seq(Assignment), unknown : Seq(UnknownField)]
    BY <1>1, <2>1, <2>3 DEF Assignment, Siblings, Members
  <2>5. TypeOK'
    BY <2>1, <2>4 DEF TypeOK, Label
  <2>6. FrameOK'
    BY <2>1, <2>4 DEF FrameOK
  <2>7. StoreOK' /\ IndexesOK' /\ MapsOK'
    BY <1>1, <2>1 DEF StoreOK, IndexesOK, MapsOK, MapKeysUnique
  <2> QED
    BY <2>5, <2>6, <2>7
<1>3. CASE MergeUnknown
  <2> DEFINE u == Head(src.unknown)
  <2>1. /\ pc = "merge" /\ src.unknown # <<>>
        /\ unknown_fields' = Append(unknown_fields, u)
        /\ src' = [src EXCEPT !.unknown = Tail(@)]
        /\ UNCHANGED <<fields, pc, outcome, denormalized,
                       capacity, op, fld, val, drop, idx, rd, wr, records, prior>>
    BY <1>3 DEF MergeUnknown
  <2>2. src.unknown \in Seq(UnknownField)
    BY <1>1
  <2>3. u \in UnknownField /\ Tail(src.unknown) \in Seq(UnknownField)
    BY <2>1, <2>2, HeadTailProperties
  <2>4. /\ unknown_fields' \in Seq(UnknownField)
        /\ src' \in [values : Seq(Assignment), unknown : Seq(UnknownField)]
    BY <1>1, <2>1, <2>3, AppendProperties
  <2>5. TypeOK'
    BY <2>1, <2>4 DEF TypeOK
  <2>6. FrameOK'
    BY <2>1 DEF FrameOK
  <2>7. StoreOK' /\ IndexesOK' /\ MapsOK'
    BY <1>1, <2>1 DEF StoreOK, IndexesOK, MapsOK, MapKeysUnique
  <2> QED
    BY <2>5, <2>6, <2>7
<1>4. CASE MergeFails
  BY <1>1, <1>4, FailSafe DEF MergeFails
<1>5. CASE MergeDone
  <2>1. /\ pc = "merge" /\ Finish("ok")
        /\ UNCHANGED <<fields, unknown_fields, denormalized>>
    BY <1>5 DEF MergeDone
  <2>2. op # "decode"
    BY <2>1 DEF FrameOK
  <2> QED
    BY <1>1, <2>1, <2>2, FinishSafe
<1> QED
  BY <1>2, <1>3, <1>4, <1>5 DEF Merge

-----------------------------------------------------------------------------
(* The compaction of a map.                                                 *)

(* One iteration keeps the length, and the retained keys unique.            *)
LEMMA CompactedIs ==
    ASSUME NEW vs \in Seq(Value), rd \in 1 .. Len(vs), wr \in 1 .. rd,
           \A a, b \in 1 .. wr - 1 : vs[a].key = vs[b].key => a = b
    PROVE  LET new == Compacted(vs)
               end == IF vs[rd].key \in Keys(SubSeq(vs, 1, wr - 1)) THEN wr ELSE wr + 1
           IN  /\ new \in Seq(Value) /\ Len(new) = Len(vs)
               /\ \A a, b \in 1 .. end - 1 : new[a].key = new[b].key => a = b
<1> DEFINE v == vs[rd]
           kept == SubSeq(vs, 1, wr - 1)
           new == Compacted(vs)
<1>1. Len(vs) \in Nat /\ DOMAIN vs = 1 .. Len(vs) /\ v \in Value
  BY LenProperties, ElementOfSeq
<1>2. /\ kept \in Seq(Value) /\ Len(kept) = wr - 1
      /\ \A i \in 1 .. wr - 1 : kept[i] = vs[i]
  <2>1. 1 \in Int /\ wr - 1 \in Int /\ \A i \in 1 .. wr - 1 : vs[i] \in Value
    BY <1>1, ElementOfSeq
  <2>2. /\ kept \in Seq(Value)
        /\ Len(kept) = IF 1 <= wr - 1 THEN wr - 1 - 1 + 1 ELSE 0
        /\ \A i \in 1 .. wr - 1 - 1 + 1 : kept[i] = vs[1 + i - 1]
    BY <2>1, SubSeqProperties
  <2> QED
    BY <1>1, <2>2
<1>3. Keys(kept) = {vs[i].key : i \in 1 .. wr - 1}
  <2>1. DOMAIN kept = 1 .. wr - 1
    BY <1>2, LenProperties
  <2>2. \A i \in 1 .. wr - 1 : kept[i].key = vs[i].key
    BY <1>2
  <2> HIDE DEF kept
  <2> QED
    BY <2>1, <2>2 DEF Keys
<1> HIDE DEF kept
<1>4. CASE v.key \in Keys(kept)
  <2> DEFINE p == KeySlot(vs, v.key)
  <2>1. v.key \in Keys(vs)
    BY <1>1 DEF Keys
  <2>2. p \in 1 .. Len(vs) /\ vs[p].key = v.key
    BY <1>1, <2>1, KeySlotFound
  <2>3. new = [vs EXCEPT ![p] = v]
    BY <1>4 DEF Compacted, kept
  <2> HIDE DEF new, p
  <2>4. /\ new \in Seq(Value) /\ Len(new) = Len(vs)
        /\ \A j \in 1 .. Len(vs) : new[j] = IF j = p THEN v ELSE vs[j]
    BY <1>1, <2>2, <2>3, ExceptSeq
  <2>5. \A j \in 1 .. Len(vs) : new[j].key = vs[j].key
    BY <2>2, <2>4
  <2>6. \A a, b \in 1 .. wr - 1 : new[a].key = new[b].key => a = b
    BY <1>1, <2>5
  <2> QED
    BY <1>4, <2>4, <2>6 DEF new, kept
<1>5. CASE v.key \notin Keys(kept)
  <2>1. new = [vs EXCEPT ![wr] = v]
    BY <1>5 DEF Compacted, kept
  <2>2. wr \in 1 .. Len(vs)
    BY <1>1
  <2> HIDE DEF new, v
  <2>3. /\ new \in Seq(Value) /\ Len(new) = Len(vs)
        /\ \A j \in 1 .. Len(vs) : new[j] = IF j = wr THEN v ELSE vs[j]
    BY <1>1, <2>1, <2>2, ExceptSeq
  <2>4. /\ \A a \in 1 .. wr - 1 : new[a] = vs[a] /\ new[a].key # v.key
        /\ new[wr] = v
    BY <1>1, <1>3, <1>5, <2>2, <2>3
  <2>5. \A a \in 1 .. wr : a \in 1 .. wr - 1 \/ a = wr
    BY <1>1
  <2>6. \A a, b \in 1 .. wr : new[a].key = new[b].key => a = b
    BY <2>4, <2>5
  <2>7. wr + 1 - 1 = wr
    BY <1>1
  <2> QED
    BY <1>5, <2>3, <2>6, <2>7 DEF new, v, kept
<1> QED
  BY <1>4, <1>5

-----------------------------------------------------------------------------
(* Every step of decode, add apart, leaves the invariant.                   *)
LEMMA DecodeSafe ==
    ASSUME IInv, Decode
    PROVE  IInv'
<1> USE DEF IInv
<1>1. /\ WellFormed(fields) /\ fields \in Seq(Entry)
      /\ Len(fields) \in Nat /\ DOMAIN fields = 1 .. Len(fields)
      /\ Len(fields) <= capacity /\ capacity \in Nat
      /\ unknown_fields \in Seq(UnknownField) /\ denormalized \in BOOLEAN
      /\ idx \in Nat \ {0} /\ rd \in Nat \ {0} /\ wr \in Nat \ {0}
  BY LenProperties DEF TypeOK, StoreOK
<1>2. ASSUME NEW f \in Field, NEW v \in ValuesFor(f, 1), DecodeField(f, v)
      PROVE  IInv'
  <2>1. /\ pc = "decode" /\ records' = records + 1
        /\ fld' = f /\ val' = v /\ drop' = Siblings(f)
        /\ pc' = IF Kind[f] = "map" THEN "create" ELSE "add"
        /\ UNCHANGED <<fields, unknown_fields, outcome, denormalized,
                       capacity, op, idx, rd, wr, src, prior>>
    BY <1>2 DEF DecodeField, Reading
  <2>2. v \in Value
    BY ValuesForAreValues
  <2>3. op = "decode"
    BY <2>1 DEF FrameOK
  <2>4. TypeOK'
    BY <2>1, <2>2 DEF TypeOK, Label, Siblings, Members
  <2>5. FrameOK'
    BY <2>1, <2>3 DEF FrameOK
  <2>6. StoreOK'
    BY <1>1, <2>1, RepeatedHasNoSiblings DEF StoreOK, isRepeatedLike
  <2>7. IndexesOK' /\ MapsOK'
    BY <2>1, <2>3 DEF IndexesOK, MapsOK, MapKeysUnique
  <2> QED
    BY <2>4, <2>5, <2>6, <2>7
<1>3. ASSUME NEW n \in Field \cup UnknownNumber, NEW d \in Datum, DecodeUnknown(n, d)
      PROVE  IInv'
  <2>1. /\ pc = "decode" /\ records' = records + 1
        /\ unknown_fields' = Append(unknown_fields, [number |-> n, data |-> d])
        /\ UNCHANGED <<fields, pc, outcome, denormalized,
                       capacity, op, fld, val, drop, idx, rd, wr, src, prior>>
    BY <1>3 DEF DecodeUnknown, Reading, KeepUnknown
  <2>2. [number |-> n, data |-> d] \in UnknownField
    BY DEF UnknownField
  <2>3. unknown_fields' \in Seq(UnknownField)
    BY <1>1, <2>1, <2>2, AppendProperties
  <2>4. TypeOK'
    BY <2>1, <2>3 DEF TypeOK
  <2>5. FrameOK'
    BY <2>1 DEF FrameOK
  <2>6. StoreOK' /\ IndexesOK' /\ MapsOK'
    BY <2>1 DEF StoreOK, IndexesOK, MapsOK, MapKeysUnique
  <2> QED
    BY <2>4, <2>5, <2>6
<1>4. ASSUME NEW f \in Field, DecodePacked(f)
      PROVE  IInv'
  <2>1. /\ pc = "decode" /\ records' = records + 1 /\ f \in Repeated
        /\ Kind[f] \in {"scalar", "closed_enum"}
        /\ fields' = Created(f) /\ fld' = f /\ pc' = "packed"
        /\ capacity' = IF Len(fields') > capacity THEN Len(fields') ELSE capacity
        /\ UNCHANGED <<unknown_fields, outcome, denormalized,
                       op, val, drop, idx, rd, wr, src, prior>>
    BY <1>4 DEF DecodePacked, Reading, Grow
  <2>2. op = "decode"
    BY <2>1 DEF FrameOK
  <2>3. Siblings(f) = {}
    BY <2>1, RepeatedHasNoSiblings DEF isRepeatedLike
  <2>4. WellFormed(fields') /\ Len(fields') \in Nat /\ f \in Numbers(fields')
    BY <1>1, <2>1, <2>3, CreatedIs
  <2>5. TypeOK'
    BY <1>1, <2>1, <2>4 DEF TypeOK, WellFormed, Label
  <2>6. FrameOK'
    BY <2>1, <2>2 DEF FrameOK
  <2>7. StoreOK' /\ IndexesOK' /\ MapsOK'
    BY <2>1, <2>2, <2>4 DEF StoreOK, IndexesOK, MapsOK, MapKeysUnique
  <2> QED
    BY <2>5, <2>6, <2>7
<1>5. ASSUME NEW d \in Datum, PackedElement(d)
      PROVE  IInv'
  <2> DEFINE vs == Values(fields, fld)
             new == Append(vs, Scalar(d))
  <2>1. /\ pc = "packed" /\ fields' = WithValues(fields, fld, new)
        /\ UNCHANGED <<unknown_fields, pc, outcome, denormalized, capacity, frame>>
    BY <1>5 DEF PackedElement
  <2>2. op = "decode" /\ fld \in Repeated /\ fld \in Numbers(fields)
    BY <2>1 DEF FrameOK, StoreOK
  <2>3. Scalar(d) \in Value
    BY DEF Scalar, Value
  <2>4. Fits(fld, new)
    BY <1>1, <2>2, <2>3, ValuesFit, AppendProperties DEF Fits, isRepeatedLike
  <2> HIDE DEF new
  <2>5. /\ WellFormed(fields') /\ Len(fields') = Len(fields)
        /\ Numbers(fields') = Numbers(fields)
    BY <1>1, <2>1, <2>2, <2>4, WithValuesIs
  <2>6. TypeOK'
    BY <1>1, <2>1, <2>5 DEF TypeOK, WellFormed, frame
  <2>7. FrameOK'
    BY <2>1 DEF FrameOK, frame
  <2>8. StoreOK' /\ IndexesOK' /\ MapsOK'
    BY <2>1, <2>2, <2>5 DEF StoreOK, IndexesOK, MapsOK, MapKeysUnique, frame
  <2> QED
    BY <2>6, <2>7, <2>8
<1>6. ASSUME NEW d \in Datum, PackedUnknown(d)
      PROVE  IInv'
  <2>1. /\ pc = "packed"
        /\ unknown_fields' = Append(unknown_fields, [number |-> fld, data |-> d])
        /\ UNCHANGED <<fields, pc, outcome, denormalized, capacity, frame>>
    BY <1>6 DEF PackedUnknown, KeepUnknown
  <2>2. [number |-> fld, data |-> d] \in UnknownField
    BY <2>1 DEF UnknownField, FrameOK
  <2>3. unknown_fields' \in Seq(UnknownField)
    BY <1>1, <2>1, <2>2, AppendProperties
  <2>4. TypeOK'
    BY <2>1, <2>3 DEF TypeOK, frame
  <2>5. FrameOK'
    BY <2>1 DEF FrameOK, frame
  <2>6. StoreOK' /\ IndexesOK' /\ MapsOK'
    BY <2>1 DEF StoreOK, IndexesOK, MapsOK, MapKeysUnique, frame
  <2> QED
    BY <2>4, <2>5, <2>6
<1>7. CASE PackedDone
  <2>1. /\ pc = "packed" /\ Return /\ UNCHANGED <<fields, unknown_fields>>
    BY <1>7 DEF PackedDone
  <2>2. op = "decode"
    BY <2>1 DEF FrameOK
  <2> QED
    BY <1>1, <2>1, <2>2, ReturnSafe
<1>8. CASE DecodeFails \/ CompactFails
  <2>1. /\ pc \in {"decode", "packed", "dedup"} /\ Fail
        /\ UNCHANGED <<fields, unknown_fields>>
    BY <1>8 DEF DecodeFails, CompactFails
  <2>2. op = "decode"
    BY <2>1 DEF FrameOK
  <2> QED
    BY <1>1, <2>1, <2>2, FailSafe
<1>9. CASE DecodeEnd
  <2>1. /\ pc = "decode" /\ pc' = "dedup"
        /\ UNCHANGED <<fields, unknown_fields, outcome, denormalized, capacity, frame>>
    BY <1>9 DEF DecodeEnd
  <2>2. op = "decode" /\ idx = 1 /\ rd = 1 /\ wr = 1
    BY <2>1 DEF FrameOK
  <2>3. TypeOK'
    BY <2>1 DEF TypeOK, Label, frame
  <2>4. FrameOK'
    BY <2>1, <2>2 DEF FrameOK, frame
  <2>5. StoreOK'
    BY <2>1 DEF StoreOK, frame
  <2>6. IndexesOK'
    BY <1>1, <2>1, <2>2 DEF IndexesOK, Duplicable, frame
  <2>7. MapsOK'
    BY <1>1, <2>1, <2>2 DEF MapsOK, MapKeysUnique, Duplicable, frame
  <2> QED
    BY <2>3, <2>4, <2>5, <2>6, <2>7
<1>10. CASE Compact
  <2> DEFINE vs == fields[idx].values
             dup == vs[rd].key \in Keys(SubSeq(vs, 1, wr - 1))
  <2>1. /\ pc = "dedup" /\ Duplicable /\ rd <= Len(vs)
        /\ fields' = SetValues(fields, idx, Compacted(vs))
        /\ wr' = IF dup THEN wr ELSE wr + 1
        /\ rd' = rd + 1
        /\ UNCHANGED <<unknown_fields, pc, outcome, denormalized,
                       capacity, op, fld, val, drop, idx, src, records, prior>>
    BY <1>10 DEF Compact
  <2>2. /\ idx \in DOMAIN fields /\ Kind[fields[idx].number] = "map"
        /\ op = "decode" /\ wr <= rd
        /\ \A a, b \in 1 .. wr - 1 : vs[a].key = vs[b].key => a = b
    BY <1>1, <2>1 DEF Duplicable, FrameOK, IndexesOK, MapsOK
  <2>3. vs \in Seq(Value) /\ Len(vs) \in Nat
    <3>1. fields[idx] \in Entry
      BY <1>1, <2>2, ElementOfSeq
    <3> QED
      BY <3>1, LenProperties DEF Entry
  <2>4. /\ Compacted(vs) \in Seq(Value) /\ Len(Compacted(vs)) = Len(vs)
        /\ \A a, b \in 1 .. wr' - 1 :
              Compacted(vs)[a].key = Compacted(vs)[b].key => a = b
    <3>1. rd \in 1 .. Len(vs) /\ wr \in 1 .. rd
      BY <1>1, <2>1, <2>2, <2>3
    <3> HIDE DEF vs
    <3>2. LET new == Compacted(vs)
              end == IF dup THEN wr ELSE wr + 1
          IN  /\ new \in Seq(Value) /\ Len(new) = Len(vs)
              /\ \A a, b \in 1 .. end - 1 : new[a].key = new[b].key => a = b
      BY <2>2, <2>3, <3>1, CompactedIs
    <3> QED
      BY <2>1, <3>2
  <2>5. Fits(fields[idx].number, Compacted(vs))
    BY <2>2, <2>4 DEF Fits, isRepeatedLike
  <2>6. /\ WellFormed(fields') /\ Len(fields') = Len(fields)
        /\ \A j \in DOMAIN fields : fields'[j].number = fields[j].number
        /\ \A j \in DOMAIN fields :
              fields'[j].values = IF j = idx THEN Compacted(vs) ELSE fields[j].values
    BY <1>1, <2>1, <2>2, <2>5, SetValuesIs
  <2>7. DOMAIN fields' = DOMAIN fields
    BY <1>1, <2>6, LenProperties DEF WellFormed
  <2> HIDE DEF vs, dup
  <2>8. TypeOK'
    BY <1>1, <2>1, <2>6 DEF TypeOK, WellFormed
  <2>9. FrameOK'
    BY <2>1 DEF FrameOK
  <2>10. StoreOK'
    BY <2>1, <2>6 DEF StoreOK
  <2>11. fields'[idx].values = Compacted(vs)
    BY <2>2, <2>6
  <2>12. IndexesOK'
    BY <1>1, <2>1, <2>2, <2>3, <2>4, <2>11 DEF IndexesOK
  <2>13. \A i \in DOMAIN fields' :
           i < idx => Normalized(fields'[i].number, fields'[i].values)
    BY <1>1, <2>1, <2>6, <2>7 DEF MapsOK
  <2>14. MapsOK'
    BY <2>1, <2>2, <2>4, <2>11, <2>13 DEF MapsOK, MapKeysUnique
  <2> QED
    BY <2>8, <2>9, <2>10, <2>12, <2>14
<1>11. CASE CompactNext
  <2> DEFINE vs == fields[idx].values
             kept == SubSeq(vs, 1, wr - 1)
  <2>1. /\ pc = "dedup" /\ idx \in DOMAIN fields
        /\ IF Duplicable THEN rd > Len(vs) /\ fields' = SetValues(fields, idx, kept)
                         ELSE fields' = fields
        /\ idx' = idx + 1 /\ rd' = 1 /\ wr' = 1
        /\ UNCHANGED <<unknown_fields, pc, outcome, denormalized,
                       capacity, op, fld, val, drop, src, records, prior>>
    BY <1>1, <1>11 DEF CompactNext
  <2>2. op = "decode"
    BY <2>1 DEF FrameOK
  <2>3. vs \in Seq(Value) /\ Len(vs) \in Nat /\ DOMAIN vs = 1 .. Len(vs)
    <3>1. fields[idx] \in Entry
      BY <1>1, <2>1, ElementOfSeq
    <3> QED
      BY <3>1, LenProperties DEF Entry
  <2> HIDE DEF vs
  <2>4. /\ WellFormed(fields') /\ Len(fields') = Len(fields)
        /\ \A j \in DOMAIN fields : fields'[j].number = fields[j].number
        /\ \A j \in DOMAIN fields : j # idx => fields'[j].values = fields[j].values
        /\ Normalized(fields[idx].number, fields'[idx].values)
    <3>1. CASE Duplicable
      <4>1. /\ Kind[fields[idx].number] = "map" /\ wr - 1 \in Nat /\ wr - 1 <= Len(vs)
            /\ \A a, b \in 1 .. wr - 1 : vs[a].key = vs[b].key => a = b
        BY <1>1, <2>1, <2>3, <3>1 DEF Duplicable, IndexesOK, MapsOK, vs
      <4>2. \A i \in 1 .. wr - 1 : vs[i] \in Value
        BY <2>3, <4>1, ElementOfSeq
      <4>3. /\ kept \in Seq(Value)
            /\ Len(kept) = IF 1 <= wr - 1 THEN wr - 1 - 1 + 1 ELSE 0
            /\ \A i \in 1 .. wr - 1 - 1 + 1 : kept[i] = vs[1 + i - 1]
        BY <4>1, <4>2, SubSeqProperties
      <4>4. Len(kept) = wr - 1 /\ \A i \in 1 .. wr - 1 : kept[i] = vs[i]
        BY <4>1, <4>3
      <4>5. DOMAIN kept = 1 .. wr - 1
        BY <4>3, <4>4, LenProperties
      <4>6. Normalized(fields[idx].number, kept)
        BY <4>1, <4>4, <4>5 DEF Normalized, UniqueKeys
      <4>7. Fits(fields[idx].number, kept)
        BY <4>1, <4>3 DEF Fits, isRepeatedLike
      <4> HIDE DEF kept
      <4> QED
        BY <1>1, <2>1, <3>1, <4>6, <4>7, SetValuesIs
    <3>2. CASE ~Duplicable
      <4>1. Kind[fields[idx].number] = "map" => Len(vs) <= 1
        BY <1>1, <2>1, <2>3, <3>2 DEF Duplicable, vs
      <4>2. Normalized(fields[idx].number, vs)
        BY <2>3, <4>1 DEF Normalized, UniqueKeys
      <4> QED
        BY <1>1, <2>1, <3>2, <4>2 DEF vs
    <3> QED
      BY <3>1, <3>2
  <2>5. DOMAIN fields' = DOMAIN fields
    BY <1>1, <2>4, LenProperties DEF WellFormed
  <2> HIDE DEF kept
  <2>6. TypeOK'
    BY <1>1, <2>1, <2>4 DEF TypeOK, WellFormed
  <2>7. FrameOK'
    BY <2>1 DEF FrameOK
  <2>8. StoreOK'
    BY <2>1, <2>4 DEF StoreOK
  <2>9. IndexesOK'
    <3>1. Duplicable' => Len(fields'[idx'].values) \in Nat
      <4>1. ASSUME Duplicable' PROVE idx' \in DOMAIN fields'
        BY <1>1, <2>1, <2>4, <2>5, <4>1 DEF Duplicable
      <4>2. ASSUME idx' \in DOMAIN fields' PROVE fields'[idx'] \in Entry
        BY <2>4, <4>2, ElementOfSeq, LenProperties DEF WellFormed
      <4> QED
        BY <4>1, <4>2, LenProperties DEF Entry
    <3> QED
      BY <2>1, <3>1 DEF IndexesOK
  <2>10. \A i \in DOMAIN fields' :
           i < idx' => Normalized(fields'[i].number, fields'[i].values)
    <3>1. \A i \in DOMAIN fields :
            i < idx => Normalized(fields[i].number, fields[i].values)
      BY <2>1 DEF MapsOK
    <3>2. \A i \in DOMAIN fields : i < idx' => i < idx \/ i = idx
      BY <1>1, <2>1
    <3> QED
      BY <1>1, <2>1, <2>4, <2>5, <3>1, <3>2
  <2>11. MapsOK'
    BY <2>1, <2>2, <2>10 DEF MapsOK, MapKeysUnique
  <2> QED
    BY <2>6, <2>7, <2>8, <2>9, <2>11
<1>12. CASE DecodeDone
  <2>1. /\ pc = "dedup" /\ idx > Len(fields) /\ Finish("ok")
        /\ UNCHANGED <<fields, unknown_fields, denormalized>>
    BY <1>12 DEF DecodeDone
  <2>2. NormalizedMaps(fields)
    BY <1>1, <2>1 DEF MapsOK, Normalized, NormalizedMaps
  <2> QED
    BY <1>1, <2>1, <2>2, FinishSafe
<1> QED
  BY <1>2, <1>3, <1>4, <1>5, <1>6, <1>7, <1>8, <1>9, <1>10, <1>11, <1>12 DEF Decode

-----------------------------------------------------------------------------
(* The results.                                                             *)

(* IInv holds before the first call.                                        *)
LEMMA InitSafe ==
    ASSUME Init
    PROVE  IInv
<1>1. /\ fields = <<>> /\ capacity = 0 /\ unknown_fields = <<>>
      /\ pc = "idle" /\ op = "none" /\ fld = NoField /\ val = NoValue /\ drop = {}
      /\ idx = 1 /\ rd = 1 /\ wr = 1 /\ src = NoSource /\ records = 0
      /\ outcome = "ok" /\ prior = {} /\ denormalized = FALSE
  BY DEF Init
<1>2. /\ WellFormed(fields) /\ NormalizedMaps(fields) /\ Len(fields) = 0
      /\ fields \in Seq(Entry)
  BY <1>1, EmptyStore, Zenon DEF WellFormed
<1>3. unknown_fields \in Seq(UnknownField)
  BY <1>1, EmptySeq, Zenon
<1>4. TypeOK
  <2>1. val \in Value /\ src \in [values : Seq(Assignment), unknown : Seq(UnknownField)]
    BY <1>1, NothingTyped, Zenon
  <2>2. /\ capacity = 0 /\ pc = "idle" /\ op = "none" /\ fld = NoField /\ drop = {}
        /\ idx = 1 /\ rd = 1 /\ wr = 1 /\ records = 0
        /\ outcome = "ok" /\ prior = {} /\ denormalized = FALSE
    BY <1>1, Zenon
  <2>3. capacity \in Nat /\ Len(fields) <= capacity
    BY <1>2, <2>2
  <2>4. pc \in Label /\ op \in Operation /\ fld \in Field \cup {NoField}
    BY <2>2 DEF Label, Operation
  <2>5. drop \subseteq Field \cup UnknownNumber /\ prior \subseteq Field
    BY <2>2, Zenon
  <2>6. idx \in Nat \ {0} /\ rd \in Nat \ {0} /\ wr \in Nat \ {0} /\ records \in Nat
    BY <2>2
  <2>7. outcome \in {"ok", "error"} /\ denormalized \in BOOLEAN
    BY <2>2, Zenon
  <2> QED
    BY <1>2, <1>3, <2>1, <2>3, <2>4, <2>5, <2>6, <2>7, Zenon DEF TypeOK
<1>5. FrameOK
  BY <1>1 DEF FrameOK
<1>6. StoreOK /\ IndexesOK /\ MapsOK
  BY <1>1, <1>2 DEF StoreOK, IndexesOK, MapsOK, MapKeysUnique
<1> QED
  BY <1>4, <1>5, <1>6 DEF IInv

(* No step of any call breaks IInv.                                         *)
LEMMA StepSafe ==
    ASSUME IInv, [Next]_vars
    PROVE  IInv'
<1>1. CASE Call
  BY <1>1, CallSafe
<1>2. CASE Mutate
  BY <1>2, MutateSafe
<1>3. CASE Add
  BY <1>3, AddSafe
<1>4. CASE Forget
  BY <1>4, ForgetSafe
<1>5. CASE Merge
  BY <1>5, MergeSafe
<1>6. CASE Decode
  BY <1>6, DecodeSafe
<1>7. CASE UNCHANGED vars
  BY <1>7 DEF vars, frame, IInv, TypeOK, FrameOK, StoreOK, IndexesOK, MapsOK,
              MapKeysUnique, Duplicable
<1> QED
  BY <1>1, <1>2, <1>3, <1>4, <1>5, <1>6, <1>7 DEF Next

(* IInv holds between any two steps of any call.                            *)
THEOREM Inductive == Spec => []IInv
<1>1. Init => IInv
  BY InitSafe
<1>2. IInv /\ [Next]_vars => IInv'
  BY StepSafe
<1> QED
  BY <1>1, <1>2, PTL DEF Spec

(* Every variable keeps its type, for every message type and every bound.   *)
THEOREM TypeCorrect == Spec => []TypeOK
<1>1. IInv => TypeOK
  BY DEF IInv
<1> QED
  BY <1>1, Inductive, PTL

(* No sequence of calls, failing or not, gives a number a second entry or a *)
(* singular field a second value.                                           *)
THEOREM FieldsStayOnce == Spec => []StoredOnce
<1>1. IInv => StoredOnce
  BY DEF IInv, StoreOK, WellFormed, StoredOnce
<1> QED
  BY <1>1, Inductive, PTL

(* No sequence of calls gives two members of a oneof an entry, not even     *)
(* inside a call.                                                           *)
THEOREM OneofStaysExclusive == Spec => []OneofExclusive
<1>1. IInv => OneofExclusive
  BY DEF IInv, StoreOK, WellFormed, OneofExclusive
<1> QED
  BY <1>1, Inductive, PTL

(* Outside decode a map holds a key once, unless a decode failed or a slot  *)
(* was overwritten by position since the last clear.                        *)
THEOREM MapsStayNormalized == Spec => []MapKeysUnique
<1>1. IInv => MapKeysUnique
  BY DEF IInv, MapsOK
<1> QED
  BY <1>1, Inductive, PTL

(* In every storage order a message can reach, collecting and sorting, and  *)
(* selecting number by number, list the same fields in the same order.      *)
THEOREM ListingsStayAlike == Spec => []ListingAgrees
<1>1. IInv => ListingAgrees
  <2>1. IInv => Listed(fields)
    BY ListingsAgree DEF IInv, StoreOK
  <2>2. Listed(fields) = ListingAgrees
    BY Zenon DEF Listed, ListingAgrees
  <2> QED
    BY <2>1, <2>2
<1> QED
  BY <1>1, Inductive, PTL
=============================================================================
