----------------------- MODULE MessageRefinementProofs -----------------------
(***************************************************************************)
(* Proof that DynamicMessage implements Message, for every message type,   *)
(* source and bound: what the field array says, whatever order its entries *)
(* are in and whatever step of a call it is at, changes as the abstract    *)
(* message does or not at all.                                             *)
(***************************************************************************)
EXTENDS DynamicMessageProofs

-----------------------------------------------------------------------------
(* What values say, when they are not a map's.                              *)

Bodies(vs) == [i \in DOMAIN vs |-> vs[i].body]

(* The payloads are a sequence as long as the values.                        *)
LEMMA BodiesIs ==
    ASSUME NEW vs \in Seq(Value)
    PROVE  /\ Bodies(vs) \in Seq(Seq(Datum))
           /\ Len(Bodies(vs)) = Len(vs)
           /\ DOMAIN Bodies(vs) = 1 .. Len(vs) /\ DOMAIN vs = 1 .. Len(vs)
           /\ \A i \in 1 .. Len(vs) : Bodies(vs)[i] = vs[i].body /\ vs[i].body \in Seq(Datum)
<1>1. Len(vs) \in Nat /\ DOMAIN vs = 1 .. Len(vs)
  BY LenProperties
<1>2. \A i \in 1 .. Len(vs) : vs[i].body \in Seq(Datum)
  <2> TAKE i \in 1 .. Len(vs)
  <2>1. vs[i] \in Value
    BY ElementOfSeq
  <2> QED
    BY <2>1 DEF Value
<1>3. Bodies(vs) \in [1 .. Len(vs) -> Seq(Datum)]
  BY <1>1, <1>2 DEF Bodies
<1>4. Bodies(vs) \in Seq(Seq(Datum))
  BY <1>1, <1>3, SeqDef
<1> QED
  BY <1>1, <1>2, <1>3, <1>4 DEF Bodies

(* Sequences with the same bodies.                                          *)
LEMMA BodiesSame ==
    ASSUME NEW vs \in Seq(Value), NEW bs \in Seq(Seq(Datum)), Len(bs) = Len(vs),
           \A i \in 1 .. Len(vs) : bs[i] = vs[i].body
    PROVE  Bodies(vs) = bs
<1>1. /\ Bodies(vs) \in Seq(Seq(Datum)) /\ Len(Bodies(vs)) = Len(vs)
      /\ \A i \in 1 .. Len(vs) : Bodies(vs)[i] = vs[i].body
  BY BodiesIs
<1> QED
  BY <1>1, SeqEqual

(* A value appended is its payload appended.                                 *)
LEMMA BodiesAppend ==
    ASSUME NEW vs \in Seq(Value), NEW v \in Value
    PROVE  Bodies(Append(vs, v)) = Append(Bodies(vs), v.body)
<1> DEFINE bs == Bodies(vs)
           new == Append(vs, v)
<1>1. /\ bs \in Seq(Seq(Datum)) /\ Len(bs) = Len(vs) /\ v.body \in Seq(Datum)
      /\ \A i \in 1 .. Len(vs) : bs[i] = vs[i].body
      /\ Len(vs) \in Nat
  BY BodiesIs, LenProperties DEF Value
<1> HIDE DEF bs
<1>2. /\ Append(bs, v.body) \in Seq(Seq(Datum)) /\ Len(Append(bs, v.body)) = Len(bs) + 1
      /\ \A i \in 1 .. Len(bs) : Append(bs, v.body)[i] = bs[i]
      /\ Append(bs, v.body)[Len(bs) + 1] = v.body
  BY <1>1, AppendProperties
<1>3. /\ new \in Seq(Value) /\ Len(new) = Len(vs) + 1
      /\ \A i \in 1 .. Len(vs) : new[i] = vs[i]
      /\ new[Len(vs) + 1] = v
  BY AppendProperties
<1> HIDE DEF new
<1>4. \A i \in 1 .. Len(new) : Append(bs, v.body)[i] = new[i].body
  <2> TAKE i \in 1 .. Len(new)
  <2>1. i \in 1 .. Len(vs) \/ i = Len(vs) + 1
    BY <1>1, <1>3
  <2> QED
    BY <1>1, <1>2, <1>3, <2>1
<1>5. Len(Append(bs, v.body)) = Len(new)
  BY <1>1, <1>2, <1>3
<1>6. Bodies(new) = Append(bs, v.body)
  BY <1>2, <1>3, <1>4, <1>5, BodiesSame
<1> QED
  BY <1>6 DEF bs, new

(* A slot removed is its payload removed.                                    *)
LEMMA BodiesRemove ==
    ASSUME NEW vs \in Seq(Value), NEW i \in DOMAIN vs
    PROVE  Bodies(RemoveAt(vs, i)) = RemoveAt(Bodies(vs), i)
<1> DEFINE bs == Bodies(vs)
           new == RemoveAt(vs, i)
           nbs == RemoveAt(bs, i)
<1>1. /\ bs \in Seq(Seq(Datum)) /\ Len(bs) = Len(vs)
      /\ \A k \in 1 .. Len(vs) : bs[k] = vs[k].body
      /\ Len(vs) \in Nat /\ i \in 1 .. Len(vs) /\ i \in DOMAIN bs
  BY BodiesIs, LenProperties
<1> HIDE DEF bs
<1>2. /\ nbs \in Seq(Seq(Datum)) /\ Len(nbs) = Len(bs) - 1
      /\ \A j \in 1 .. Len(bs) - 1 : nbs[j] = IF j < i THEN bs[j] ELSE bs[j + 1]
  BY <1>1, RemoveAtProperties
<1>3. /\ new \in Seq(Value) /\ Len(new) = Len(vs) - 1
      /\ \A j \in 1 .. Len(vs) - 1 : new[j] = IF j < i THEN vs[j] ELSE vs[j + 1]
  BY RemoveAtProperties
<1> HIDE DEF new, nbs
<1>4. \A j \in 1 .. Len(new) : nbs[j] = new[j].body
  <2> TAKE j \in 1 .. Len(new)
  <2>1. j \in 1 .. Len(vs) - 1 /\ j \in 1 .. Len(vs) /\ j + 1 \in 1 .. Len(vs)
    BY <1>1, <1>3
  <2> QED
    BY <1>1, <1>2, <1>3, <2>1
<1>5. Bodies(new) = nbs
  BY <1>1, <1>2, <1>3, <1>4, BodiesSame
<1> QED
  BY <1>5 DEF bs, new, nbs

(* A slot overwritten is its payload overwritten.                            *)
LEMMA BodiesSet ==
    ASSUME NEW vs \in Seq(Value), NEW i \in DOMAIN vs, NEW v \in Value
    PROVE  Bodies([vs EXCEPT ![i] = v]) = [Bodies(vs) EXCEPT ![i] = v.body]
<1> DEFINE bs == Bodies(vs)
           new == [vs EXCEPT ![i] = v]
           nbs == [bs EXCEPT ![i] = v.body]
<1>1. /\ bs \in Seq(Seq(Datum)) /\ Len(bs) = Len(vs) /\ v.body \in Seq(Datum)
      /\ \A k \in 1 .. Len(vs) : bs[k] = vs[k].body
      /\ Len(vs) \in Nat /\ i \in 1 .. Len(vs)
  BY BodiesIs, LenProperties DEF Value
<1> HIDE DEF bs
<1>2. /\ nbs \in Seq(Seq(Datum)) /\ Len(nbs) = Len(bs)
      /\ \A j \in 1 .. Len(bs) : nbs[j] = IF j = i THEN v.body ELSE bs[j]
  BY <1>1, ExceptSeq
<1>3. /\ new \in Seq(Value) /\ Len(new) = Len(vs)
      /\ \A j \in 1 .. Len(vs) : new[j] = IF j = i THEN v ELSE vs[j]
  BY <1>1, ExceptSeq
<1> HIDE DEF new, nbs
<1>4. \A j \in 1 .. Len(new) : nbs[j] = new[j].body
  BY <1>1, <1>2, <1>3
<1>5. Bodies(new) = nbs
  BY <1>1, <1>2, <1>3, <1>4, BodiesSame
<1> QED
  BY <1>5 DEF bs, new, nbs

(* Two slots swapped are their payloads swapped.                             *)
LEMMA BodiesSwapped ==
    ASSUME NEW vs \in Seq(Value), NEW i \in DOMAIN vs, NEW j \in DOMAIN vs
    PROVE  Bodies([vs EXCEPT ![i] = vs[j], ![j] = vs[i]])
              = [Bodies(vs) EXCEPT ![i] = Bodies(vs)[j], ![j] = Bodies(vs)[i]]
<1> DEFINE one == [vs EXCEPT ![i] = vs[j]]
<1>1. vs[i] \in Value /\ vs[j] \in Value /\ i \in 1 .. Len(vs) /\ j \in 1 .. Len(vs)
  BY LenProperties, ElementOfSeq
<1>2. one \in Seq(Value) /\ DOMAIN one = DOMAIN vs
  BY <1>1, ExceptSeq, LenProperties
<1>3. Bodies(one) = [Bodies(vs) EXCEPT ![i] = vs[j].body]
  BY <1>1, BodiesSet
<1> HIDE DEF one
<1>4. Bodies([one EXCEPT ![j] = vs[i]]) = [Bodies(one) EXCEPT ![j] = vs[i].body]
  BY <1>1, <1>2, BodiesSet
<1>5. Bodies(vs)[i] = vs[i].body /\ Bodies(vs)[j] = vs[j].body
  BY <1>1, BodiesIs
<1>6. [one EXCEPT ![j] = vs[i]] = [vs EXCEPT ![i] = vs[j], ![j] = vs[i]]
  BY DEF one
<1> QED
  BY <1>3, <1>4, <1>5, <1>6

-----------------------------------------------------------------------------
(* What the values of a map say.                                            *)

\* The value at i is the last of its key.
LastAt(vs, k, i) ==
    i \in DOMAIN vs /\ vs[i].key = k /\ \A j \in i + 1 .. Len(vs) : vs[j].key # k

(* LastBody is the payload of the last slot of the key.                      *)
LEMMA LastBodyIs ==
    ASSUME NEW vs \in Seq(Value), NEW k, NEW i, LastAt(vs, k, i)
    PROVE  k \in Keys(vs) /\ LastBody(vs, k) = vs[i].body
<1>1. Len(vs) \in Nat /\ DOMAIN vs = 1 .. Len(vs)
  BY LenProperties
<1>2. \A j \in DOMAIN vs : LastAt(vs, k, j) => j = i
  BY <1>1 DEF LastAt
<1> QED
  BY <1>2 DEF LastAt, LastBody, Keys

(* A key that occurs has a last slot.                                        *)
LEMMA LastExists ==
    ASSUME NEW vs \in Seq(Value), NEW k \in Keys(vs)
    PROVE  \E i \in DOMAIN vs : LastAt(vs, k, i)
<1> DEFINE T == {n \in Nat : Len(vs) - n \in DOMAIN vs /\ vs[Len(vs) - n].key = k}
<1>1. Len(vs) \in Nat /\ DOMAIN vs = 1 .. Len(vs)
  BY LenProperties
<1>2. PICK i \in DOMAIN vs : vs[i].key = k
  BY DEF Keys
<1>3. Len(vs) - i \in T
  <2>1. Len(vs) - i \in Nat /\ Len(vs) - (Len(vs) - i) = i
    BY <1>1, <1>2
  <2> QED
    BY <1>2, <2>1
<1>4. PICK n \in T : \A m \in T : ~(m < n)
  <2>1. T \subseteq Nat /\ T # {}
    BY <1>3
  <2> QED
    BY <2>1, LeastPosition
<1>5. \A j \in Len(vs) - n + 1 .. Len(vs) : vs[j].key # k
  <2> SUFFICES ASSUME NEW j \in Len(vs) - n + 1 .. Len(vs), vs[j].key = k
               PROVE  FALSE
    OBVIOUS
  <2>1. Len(vs) - j \in Nat /\ Len(vs) - (Len(vs) - j) = j /\ j \in DOMAIN vs
        /\ Len(vs) - j < n
    BY <1>1, <1>4
  <2>2. Len(vs) - j \in T
    BY <2>1
  <2> QED
    BY <1>4, <2>1, <2>2
<1> QED
  BY <1>4, <1>5 DEF LastAt

(* With unique keys every value is the last of its key.                     *)
LEMMA UniqueIsLast ==
    ASSUME NEW vs \in Seq(Value), UniqueKeys(vs), NEW i \in DOMAIN vs
    PROVE  LastAt(vs, vs[i].key, i)
<1>1. Len(vs) \in Nat /\ DOMAIN vs = 1 .. Len(vs)
  BY LenProperties
<1> QED
  BY <1>1 DEF LastAt, UniqueKeys

\* M has the last payload of each key.
HoldsLast(M, vs) ==
    \A i \in DOMAIN vs : LastAt(vs, vs[i].key, i) => vs[i].body = M[vs[i].key]

(* The meaning of a map is the map of the last values.                      *)
LEMMA MapIs ==
    ASSUME NEW f, Kind[f] = "map", NEW vs \in Seq(Value),
           NEW M, M = [k \in Keys(vs) |-> M[k]], HoldsLast(M, vs)
    PROVE  Meaning(f, vs) = M
<1>1. ASSUME NEW k \in Keys(vs)
      PROVE  LastBody(vs, k) = M[k]
  <2>1. PICK i \in DOMAIN vs : LastAt(vs, k, i)
    BY LastExists
  <2>2. vs[i].key = k
    BY <2>1 DEF LastAt
  <2>3. LastBody(vs, k) = vs[i].body
    BY <2>1, LastBodyIs
  <2> QED
    BY <2>1, <2>2, <2>3 DEF HoldsLast
<1> QED
  BY <1>1 DEF Meaning

\* What an empty field holds.
Absent(f) == IF Kind[f] = "map" THEN [k \in {} |-> <<>>] ELSE <<>>

(* A field without values holds nothing, one with values does not.          *)
LEMMA MeaningEmpty ==
    ASSUME NEW f
    PROVE  Meaning(f, <<>>) = Absent(f)
<1>1. Keys(<<>>) = {}
  BY DEF Keys
<1>2. Kind[f] = "map" => Meaning(f, <<>>) = Absent(f)
  BY <1>1, Zenon DEF Meaning, Absent
<1>3. Bodies(<<>>) = <<>>
  <2>1. ASSUME NEW vs \in Seq(Value), Len(vs) = 0
        PROVE  Bodies(vs) = <<>>
    BY <2>1, BodiesIs, EmptySeq
  <2>2. <<>> \in Seq(Value) /\ Len(<<>>) = 0
    BY EmptySeq
  <2> QED
    BY <2>1, <2>2, Zenon
<1>4. Kind[f] # "map" => Meaning(f, <<>>) = Absent(f)
  BY <1>3, Zenon DEF Meaning, Absent, Bodies
<1> QED
  BY <1>2, <1>4

(* A field with values holds something.                                      *)
LEMMA MeaningFull ==
    ASSUME NEW f, NEW vs \in Seq(Value), vs # <<>>
    PROVE  Meaning(f, vs) # Absent(f)
<1>1. Len(vs) \in Nat \ {0} /\ DOMAIN vs = 1 .. Len(vs)
  BY EmptySeq, LenProperties
<1>2. 1 \in DOMAIN vs
  BY <1>1
<1>3. CASE Kind[f] = "map"
  <2>1. vs[1].key \in DOMAIN Meaning(f, vs)
    BY <1>2, <1>3 DEF Meaning, Keys
  <2>2. DOMAIN Absent(f) = {}
    BY <1>3 DEF Absent
  <2> QED
    BY <2>1, <2>2
<1>4. CASE Kind[f] # "map"
  <2>1. 1 \in DOMAIN Meaning(f, vs)
    BY <1>2, <1>4 DEF Meaning
  <2>2. Absent(f) = <<>>
    BY <1>4 DEF Absent
  <2>3. 1 \notin DOMAIN <<>>
    OBVIOUS
  <2> QED
    BY <2>1, <2>2, <2>3, Zenon
<1> QED
  BY <1>3, <1>4

(* What a map holds under a key is the last value of that key.              *)
LEMMA MeaningAt ==
    ASSUME NEW f, Kind[f] = "map", NEW vs \in Seq(Value)
    PROVE  /\ DOMAIN Meaning(f, vs) = Keys(vs)
           /\ \A i \in DOMAIN vs :
                /\ vs[i].key \in Keys(vs)
                /\ LastAt(vs, vs[i].key, i) => Meaning(f, vs)[vs[i].key] = vs[i].body
                /\ UniqueKeys(vs) => Meaning(f, vs)[vs[i].key] = vs[i].body
<1>1. \A k \in Keys(vs) : Meaning(f, vs)[k] = LastBody(vs, k)
  BY DEF Meaning
<1>2. \A i \in DOMAIN vs : vs[i].key \in Keys(vs)
  BY DEF Keys
<1>3. ASSUME NEW i \in DOMAIN vs, LastAt(vs, vs[i].key, i)
      PROVE  Meaning(f, vs)[vs[i].key] = vs[i].body
  BY <1>1, <1>2, <1>3, LastBodyIs
<1>4. ASSUME NEW i \in DOMAIN vs, UniqueKeys(vs)
      PROVE  Meaning(f, vs)[vs[i].key] = vs[i].body
  BY <1>3, <1>4, UniqueIsLast
<1>5. DOMAIN Meaning(f, vs) = Keys(vs)
  BY DEF Meaning
<1> QED
  BY <1>2, <1>3, <1>4, <1>5

(* A map holds the payload of the last slot of a key.                        *)
LEMMA MeaningLast ==
    ASSUME NEW f, Kind[f] = "map", NEW vs \in Seq(Value),
           NEW i \in DOMAIN vs, LastAt(vs, vs[i].key, i)
    PROVE  Meaning(f, vs)[vs[i].key] = vs[i].body
BY MeaningAt

\* M with the payload of one key set.
Bound(M, k, b) == [q \in DOMAIN M \cup {k} |-> IF q = k THEN b ELSE M[q]]

(* A value appended to a map is the last of its key.                        *)
LEMMA MeaningAppended ==
    ASSUME NEW f, Kind[f] = "map", NEW vs \in Seq(Value), NEW v \in Value
    PROVE  Meaning(f, Append(vs, v)) = Bound(Meaning(f, vs), v.key, v.body)
<1> DEFINE new == Append(vs, v)
           old == Meaning(f, vs)
           K == Keys(vs) \cup {v.key}
           M == Bound(old, v.key, v.body)
<1>1. /\ new \in Seq(Value) /\ Len(new) = Len(vs) + 1
      /\ \A i \in 1 .. Len(vs) : new[i] = vs[i]
      /\ new[Len(vs) + 1] = v
  BY AppendProperties
<1>2. Len(vs) \in Nat /\ DOMAIN vs = 1 .. Len(vs)
  BY LenProperties
<1> HIDE DEF new
<1>3. DOMAIN new = 1 .. Len(vs) + 1
  BY <1>1, LenProperties
<1>4. \A i \in DOMAIN new : i \in DOMAIN vs \/ i = Len(vs) + 1
  BY <1>2, <1>3
<1>5. Keys(new) = K
  <2>1. Len(vs) + 1 \in DOMAIN new /\ \A i \in DOMAIN vs : i \in DOMAIN new
    BY <1>2, <1>3
  <2> QED
    BY <1>1, <1>2, <1>4, <2>1 DEF Keys
<1>6. DOMAIN old = Keys(vs)
  BY MeaningAt
<1> HIDE DEF old
<1>7. M = [k \in Keys(new) |-> M[k]]
  BY <1>5, <1>6 DEF Bound
<1>8. ASSUME NEW i \in DOMAIN new, LastAt(new, new[i].key, i)
      PROVE  new[i].body = M[new[i].key]
  <2>1. CASE i = Len(vs) + 1
    BY <1>1, <2>1 DEF Bound
  <2>2. CASE i \in DOMAIN vs
    <3>1. new[i] = vs[i]
      BY <1>1, <1>2, <2>2
    <3>2. new[i].key # v.key
      <4>1. Len(vs) + 1 \in i + 1 .. Len(new)
        BY <1>1, <1>2, <2>2
      <4> QED
        BY <1>1, <1>8, <4>1 DEF LastAt
    <3>3. LastAt(vs, vs[i].key, i)
      <4>1. \A j \in i + 1 .. Len(vs) : j \in i + 1 .. Len(new) /\ new[j] = vs[j]
        BY <1>1, <1>2, <2>2
      <4> QED
        BY <1>8, <2>2, <3>1, <4>1 DEF LastAt
    <3>4. old[vs[i].key] = vs[i].body /\ vs[i].key \in Keys(vs)
      BY <2>2, <3>3, MeaningAt DEF old
    <3> QED
      BY <1>6, <3>1, <3>2, <3>4 DEF Bound
  <2> QED
    BY <1>4, <2>1, <2>2
<1> HIDE DEF M, K
<1>9. HoldsLast(M, new)
  BY <1>8 DEF HoldsLast
<1>10. Meaning(f, new) = M
  BY <1>1, <1>7, <1>9, MapIs
<1> QED
  BY <1>10 DEF new, M, old

(* A map entry put by key is the one of its key.                            *)
LEMMA MeaningPut ==
    ASSUME NEW f, Kind[f] = "map", NEW vs \in Seq(Value), UniqueKeys(vs), NEW v \in Value
    PROVE  Meaning(f, PutEntry(vs, v)) = Bound(Meaning(f, vs), v.key, v.body)
<1>1. CASE v.key \notin Keys(vs)
  BY <1>1, MeaningAppended DEF PutEntry
<1>2. CASE v.key \in Keys(vs)
  <2> DEFINE p == KeySlot(vs, v.key)
             new == [vs EXCEPT ![p] = v]
             old == Meaning(f, vs)
             M == Bound(old, v.key, v.body)
  <2>1. Len(vs) \in Nat /\ DOMAIN vs = 1 .. Len(vs)
    BY LenProperties
  <2>2. p \in 1 .. Len(vs) /\ vs[p].key = v.key
    BY <1>2, <2>1, KeySlotFound
  <2> HIDE DEF p
  <2>3. /\ new \in Seq(Value) /\ Len(new) = Len(vs)
        /\ \A j \in 1 .. Len(vs) : new[j] = IF j = p THEN v ELSE vs[j]
    BY <2>2, ExceptSeq
  <2> HIDE DEF new
  <2>4. DOMAIN new = 1 .. Len(vs)
    BY <2>3, LenProperties
  <2>5. Keys(new) = Keys(vs) /\ Keys(vs) = Keys(vs) \cup {v.key}
    <3>1. \A j \in DOMAIN vs : new[j].key = vs[j].key
      BY <2>1, <2>2, <2>3
    <3> QED
      BY <1>2, <2>1, <2>4, <3>1 DEF Keys
  <2>6. DOMAIN old = Keys(vs)
    BY MeaningAt
  <2> HIDE DEF old
  <2>7. M = [k \in Keys(new) |-> M[k]]
    BY <2>5, <2>6 DEF Bound
  <2>8. ASSUME NEW i \in DOMAIN new
        PROVE  new[i].body = M[new[i].key]
    <3>1. CASE i = p
      BY <2>2, <2>3, <3>1 DEF Bound
    <3>2. CASE i # p
      <4>1. new[i] = vs[i] /\ i \in DOMAIN vs
        BY <2>1, <2>3, <2>4, <3>2
      <4>2. vs[i].key # v.key
        BY <2>1, <2>2, <3>2, <4>1 DEF UniqueKeys
      <4>3. old[vs[i].key] = vs[i].body /\ vs[i].key \in Keys(vs)
        BY <4>1, MeaningAt DEF old
      <4> QED
        BY <2>6, <4>1, <4>2, <4>3 DEF Bound
    <3> QED
      BY <3>1, <3>2
  <2> HIDE DEF M
  <2>9. Meaning(f, new) = M
    <3>1. HoldsLast(M, new)
      BY <2>8 DEF HoldsLast
    <3> QED
      BY <2>3, <2>7, <3>1, MapIs
  <2>10. PutEntry(vs, v) = new
    BY <1>2 DEF PutEntry, new, p
  <2> QED
    BY <2>9, <2>10 DEF M, old
<1> QED
  BY <1>1, <1>2

\* M without a key.
Unbound(M, k) == [q \in DOMAIN M \ {k} |-> M[q]]

(* Removing the value of a key removes the key.                             *)
LEMMA MeaningRemoved ==
    ASSUME NEW f, Kind[f] = "map", NEW vs \in Seq(Value), UniqueKeys(vs),
           NEW i \in DOMAIN vs
    PROVE  Meaning(f, RemoveAt(vs, i)) = Unbound(Meaning(f, vs), vs[i].key)
<1> DEFINE new == RemoveAt(vs, i)
           old == Meaning(f, vs)
           K == Keys(vs) \ {vs[i].key}
           M == [k \in K |-> old[k]]
           from(j) == IF j < i THEN j ELSE j + 1
           to(j) == IF j < i THEN j ELSE j - 1
<1>1. Len(vs) \in Nat /\ DOMAIN vs = 1 .. Len(vs) /\ i \in 1 .. Len(vs)
  BY LenProperties
<1>2. /\ new \in Seq(Value) /\ Len(new) = Len(vs) - 1
      /\ \A j \in 1 .. Len(vs) - 1 : new[j] = IF j < i THEN vs[j] ELSE vs[j + 1]
  BY RemoveAtProperties
<1> HIDE DEF new
<1>3. DOMAIN new = 1 .. Len(vs) - 1
  BY <1>2, LenProperties
<1>4. \A j \in DOMAIN new : from(j) \in DOMAIN vs /\ from(j) # i /\ new[j] = vs[from(j)]
  BY <1>1, <1>2, <1>3
<1>5. \A j \in DOMAIN vs : j # i => to(j) \in DOMAIN new /\ new[to(j)] = vs[j]
  <2> TAKE j \in DOMAIN vs
  <2> HAVE j # i
  <2>1. to(j) \in DOMAIN new /\ from(to(j)) = j
    BY <1>1, <1>3
  <2> QED
    BY <1>4, <2>1
<1>6. DOMAIN old = Keys(vs)
  BY MeaningAt
<1> HIDE DEF old, from, to
<1>7. Keys(new) = K
  <2>1. ASSUME NEW j \in DOMAIN new
        PROVE  new[j].key \in K
    BY <1>4 DEF Keys, UniqueKeys
  <2>2. ASSUME NEW k \in K
        PROVE  \E j \in DOMAIN new : new[j].key = k
    <3>1. PICK j \in DOMAIN vs : vs[j].key = k
      BY DEF Keys
    <3>2. j # i
      BY <3>1
    <3> QED
      BY <1>5, <3>1, <3>2
  <2> HIDE DEF K
  <2> QED
    BY <2>1, <2>2 DEF Keys
<1>8. ASSUME NEW j \in DOMAIN new
      PROVE  new[j].body = M[new[j].key]
  <2>1. old[vs[from(j)].key] = vs[from(j)].body
    BY <1>4, MeaningAt DEF old
  <2>2. new[j].key \in K
    BY <1>7 DEF Keys
  <2> HIDE DEF K
  <2> QED
    BY <1>4, <2>1, <2>2
<1>9. M = [k \in Keys(new) |-> M[k]]
  BY <1>7 DEF M
<1> HIDE DEF M, K
<1>10. HoldsLast(M, new)
  BY <1>8 DEF HoldsLast
<1>11. Meaning(f, new) = M
  BY <1>2, <1>9, <1>10, MapIs
<1> QED
  BY <1>6, <1>11 DEF new, M, old, K, Unbound

(* Swapping two entries of a map does not show.                             *)
LEMMA MeaningSwapped ==
    ASSUME NEW f, Kind[f] = "map", NEW vs \in Seq(Value), UniqueKeys(vs),
           NEW i \in DOMAIN vs, NEW j \in DOMAIN vs
    PROVE  Meaning(f, [vs EXCEPT ![i] = vs[j], ![j] = vs[i]]) = Meaning(f, vs)
<1> DEFINE one == [vs EXCEPT ![i] = vs[j]]
           new == [one EXCEPT ![j] = vs[i]]
           M == Meaning(f, vs)
           from(x) == IF x = j THEN i ELSE IF x = i THEN j ELSE x
<1>1. Len(vs) \in Nat /\ DOMAIN vs = 1 .. Len(vs)
      /\ vs[i] \in Value /\ vs[j] \in Value
  BY LenProperties, ElementOfSeq
<1>2. /\ one \in Seq(Value) /\ Len(one) = Len(vs)
      /\ \A k \in 1 .. Len(vs) : one[k] = IF k = i THEN vs[j] ELSE vs[k]
  BY <1>1, ExceptSeq
<1>3. new = [vs EXCEPT ![i] = vs[j], ![j] = vs[i]]
  OBVIOUS
<1> HIDE DEF one
<1>4. /\ new \in Seq(Value) /\ Len(new) = Len(one)
      /\ \A k \in 1 .. Len(one) : new[k] = IF k = j THEN vs[i] ELSE one[k]
  BY <1>1, <1>2, ExceptSeq
<1> HIDE DEF new
<1>5. DOMAIN new = DOMAIN vs
  BY <1>1, <1>2, <1>4, LenProperties
<1>6. \A k \in DOMAIN vs : from(k) \in DOMAIN vs /\ new[k] = vs[from(k)] /\ from(from(k)) = k
  BY <1>1, <1>2, <1>4
<1> HIDE DEF from
<1>7. Keys(new) = Keys(vs)
  BY <1>5, <1>6 DEF Keys
<1>8. DOMAIN M = Keys(vs)
  BY MeaningAt
<1>9. ASSUME NEW k \in DOMAIN new
      PROVE  new[k].body = M[new[k].key]
  BY <1>5, <1>6, MeaningAt
<1>10. M = [k \in Keys(vs) |-> M[k]]
  BY DEF Meaning
<1> HIDE DEF M
<1>11. M = [k \in Keys(new) |-> M[k]] /\ HoldsLast(M, new)
  BY <1>7, <1>9, <1>10 DEF HoldsLast
<1>12. Meaning(f, new) = M
  BY <1>4, <1>2, <1>11, MapIs
<1> QED
  BY <1>3, <1>12 DEF M

-----------------------------------------------------------------------------
(* A compaction in progress.                                                *)

\* What a compaction with read index r and write index w has kept or not read.
Live(s, r, w) == SubSeq(s, 1, w - 1) \o SubSeq(s, r, Len(s))

\* L is that, index by index.
IsLive(L, S, s, r, w) ==
    /\ L \in Seq(S) /\ Len(L) = Len(s) - r + w
    /\ \A i \in 1 .. Len(s) - r + w :
          /\ i < w => i \in 1 .. Len(s) /\ L[i] = s[i]
          /\ ~(i < w) => i - w + r \in 1 .. Len(s) /\ L[i] = s[i - w + r]

(* The live values: those retained, then those not read yet.                 *)
LEMMA LiveIs ==
    ASSUME NEW S, NEW s \in Seq(S), NEW r \in 1 .. Len(s) + 1, NEW w \in 1 .. r
    PROVE  IsLive(Live(s, r, w), S, s, r, w)
<1> DEFINE front == SubSeq(s, 1, w - 1)
           back == SubSeq(s, r, Len(s))
           new == Live(s, r, w)
           n == Len(s)
<1>1. n \in Nat /\ \A i \in 1 .. n : s[i] \in S
  BY LenProperties, ElementOfSeq
<1> HIDE DEF n
<1>2. r \in Int /\ w \in Int /\ r \in 1 .. n + 1 /\ 1 <= w /\ w <= r
  BY <1>1 DEF n
<1>3. /\ front \in Seq(S) /\ Len(front) = w - 1
      /\ \A j \in 1 .. w - 1 : front[j] = s[j]
  <2>1. 1 \in Int /\ w - 1 \in Int /\ \A j \in 1 .. w - 1 : s[j] \in S
    BY <1>1, <1>2
  <2>2. /\ front \in Seq(S)
        /\ Len(front) = IF 1 <= w - 1 THEN w - 1 - 1 + 1 ELSE 0
        /\ \A j \in 1 .. w - 1 - 1 + 1 : front[j] = s[1 + j - 1]
    BY <2>1, SubSeqProperties
  <2> QED
    BY <1>2, <2>2
<1>4. /\ back \in Seq(S) /\ Len(back) = n - r + 1
      /\ \A j \in 1 .. n - r + 1 : back[j] = s[r + j - 1]
  <2>1. r \in Int /\ Len(s) \in Int /\ \A j \in r .. Len(s) : s[j] \in S
    BY <1>1, <1>2 DEF n
  <2>2. /\ back \in Seq(S)
        /\ Len(back) = IF r <= Len(s) THEN Len(s) - r + 1 ELSE 0
        /\ \A j \in 1 .. Len(s) - r + 1 : back[j] = s[r + j - 1]
    BY <2>1, SubSeqProperties
  <2> QED
    BY <1>1, <1>2, <2>2 DEF n
<1>5. new = front \o back
  BY DEF Live
<1> HIDE DEF front, back, new
<1>6. /\ new \in Seq(S) /\ Len(new) = Len(front) + Len(back)
      /\ \A j \in 1 .. Len(front) + Len(back) :
            new[j] = IF j <= Len(front) THEN front[j] ELSE back[j - Len(front)]
  BY <1>3, <1>4, <1>5, ConcatProperties
<1>7. Len(front) + Len(back) = n - r + w
  BY <1>1, <1>2, <1>3, <1>4
<1>8. ASSUME NEW i \in 1 .. n - r + w, i < w
      PROVE  i \in 1 .. n /\ new[i] = s[i]
  <2>1. i \in 1 .. w - 1 /\ i <= Len(front) /\ i \in 1 .. n
    BY <1>1, <1>2, <1>3, <1>8
  <2> QED
    BY <1>3, <1>6, <1>7, <2>1
<1>9. ASSUME NEW i \in 1 .. n - r + w, ~(i < w)
      PROVE  i - w + r \in 1 .. n /\ new[i] = s[i - w + r]
  <2>1. i - (w - 1) \in 1 .. n - r + 1 /\ ~(i <= Len(front)) /\ i - w + r \in 1 .. n
        /\ r + (i - (w - 1)) - 1 = i - w + r
    BY <1>1, <1>2, <1>3, <1>9
  <2>2. new[i] = back[i - (w - 1)]
    BY <1>3, <1>6, <1>7, <2>1
  <2> QED
    BY <1>4, <2>1, <2>2
<1> QED
  BY <1>6, <1>7, <1>8, <1>9 DEF new, n, IsLive

(* Before the first step everything is live.                                *)
LEMMA LiveBefore ==
    ASSUME NEW S, NEW s \in Seq(S)
    PROVE  Live(s, 1, 1) = s
<1>1. Len(s) \in Nat /\ 1 \in 1 .. Len(s) + 1 /\ 1 \in 1 .. 1
  BY LenProperties
<1>2. ASSUME NEW r \in 1 .. Len(s) + 1, NEW w \in 1 .. r, r = 1, w = 1
      PROVE  Live(s, r, w) = s
  <2>1. /\ Live(s, r, w) \in Seq(S)
        /\ Len(Live(s, r, w)) = Len(s) - r + w
        /\ \A i \in 1 .. Len(s) - r + w :
              /\ i < w => i \in 1 .. Len(s) /\ Live(s, r, w)[i] = s[i]
              /\ ~(i < w) => i - w + r \in 1 .. Len(s) /\ Live(s, r, w)[i] = s[i - w + r]
    <3>1. IsLive(Live(s, r, w), S, s, r, w)
      BY LiveIs
    <3> QED
      BY <3>1 DEF IsLive
  <2>2. Len(Live(s, r, w)) = Len(s) /\ \A i \in 1 .. Len(s) : Live(s, r, w)[i] = s[i]
    BY <1>1, <1>2, <2>1
  <2> QED
    BY <2>1, <2>2, SeqEqual
<1> QED
  BY <1>1, <1>2

(* After the last one what was kept is.                                     *)
LEMMA LiveAfter ==
    ASSUME NEW S, NEW s \in Seq(S), NEW w \in 1 .. Len(s) + 1
    PROVE  Live(s, Len(s) + 1, w) = SubSeq(s, 1, w - 1)
<1>1. Len(s) \in Nat /\ \A i \in 1 .. Len(s) : s[i] \in S
  BY LenProperties, ElementOfSeq
<1>2. SubSeq(s, 1, w - 1) \in Seq(S)
  <2>1. 1 \in Int /\ w - 1 \in Int /\ \A j \in 1 .. w - 1 : s[j] \in S
    BY <1>1
  <2> QED
    BY <2>1, SubSeqProperties
<1>3. SubSeq(s, Len(s) + 1, Len(s)) = <<>>
  <2>1. Len(s) + 1 \in Int /\ Len(s) \in Int /\ \A j \in Len(s) + 1 .. Len(s) : s[j] \in S
    BY <1>1
  <2>2. /\ SubSeq(s, Len(s) + 1, Len(s)) \in Seq(S)
        /\ Len(SubSeq(s, Len(s) + 1, Len(s)))
              = IF Len(s) + 1 <= Len(s) THEN Len(s) - (Len(s) + 1) + 1 ELSE 0
    BY <2>1, SubSeqProperties
  <2>3. Len(SubSeq(s, Len(s) + 1, Len(s))) = 0
    BY <1>1, <2>2
  <2> QED
    BY <2>2, <2>3, EmptySeq
<1>4. \A t \in Seq(S) : t \o <<>> = t
  BY ConcatEmptySeq
<1> QED
  BY <1>2, <1>3, <1>4 DEF Live

(* A value moved down to the write index stays live.                        *)
LEMMA LiveMoved ==
    ASSUME NEW S, NEW s \in Seq(S), NEW r \in 1 .. Len(s), NEW w \in 1 .. r
    PROVE  Live([s EXCEPT ![w] = s[r]], r + 1, w + 1) = Live(s, r, w)
<1> DEFINE t == [s EXCEPT ![w] = s[r]]
           n == Len(s)
           old == Live(s, r, w)
           new == Live(t, r + 1, w + 1)
<1>1. n \in Nat /\ s[r] \in S /\ w \in 1 .. n
  BY LenProperties, ElementOfSeq
<1>2. t \in Seq(S) /\ Len(t) = n /\ \A i \in 1 .. n : t[i] = IF i = w THEN s[r] ELSE s[i]
  BY <1>1, ExceptSeq
<1> HIDE DEF t
<1>3. IsLive(old, S, s, r, w)
  <2>1. r \in 1 .. Len(s) + 1
    BY <1>1
  <2> QED
    BY <2>1, LiveIs
<1>4. IsLive(new, S, t, r + 1, w + 1)
  <2>1. r + 1 \in 1 .. Len(t) + 1 /\ w + 1 \in 1 .. r + 1
    BY <1>1, <1>2
  <2> QED
    BY <1>2, <2>1, LiveIs
<1> HIDE DEF old, new
<1>5. /\ old \in Seq(S) /\ Len(old) = n - r + w
      /\ \A i \in 1 .. n - r + w :
            /\ i < w => old[i] = s[i]
            /\ ~(i < w) => old[i] = s[i - w + r]
  BY <1>3 DEF IsLive
<1>6. n - (r + 1) + (w + 1) = n - r + w
  BY <1>1
<1>7. /\ new \in Seq(S) /\ Len(new) = n - r + w
      /\ \A i \in 1 .. n - r + w :
            /\ i < w + 1 => new[i] = t[i]
            /\ ~(i < w + 1) => i - (w + 1) + (r + 1) \in 1 .. n /\ new[i] = t[i - (w + 1) + (r + 1)]
  BY <1>2, <1>4, <1>6 DEF IsLive
<1> HIDE DEF n
<1>8. ASSUME NEW i \in 1 .. n - r + w
      PROVE  new[i] = old[i]
  <2>1. i \in Int /\ w \in Int /\ r \in Int /\ w <= r
    BY <1>1
  <2>2. CASE i < w
    <3>1. new[i] = t[i] /\ old[i] = s[i]
      BY <1>5, <1>7, <2>1, <2>2
    <3>2. i \in 1 .. n /\ i # w
      BY <1>1, <2>2
    <3> QED
      BY <1>2, <3>1, <3>2
  <2>3. CASE i = w
    <3>1. i - w + r = r /\ i < w + 1 /\ ~(i < w) /\ i \in 1 .. n
      BY <1>1, <2>1, <2>3
    <3>2. new[i] = t[i] /\ old[i] = s[r]
      BY <1>5, <1>7, <3>1
    <3> QED
      BY <1>2, <2>3, <3>1, <3>2
  <2>4. CASE i > w
    <3>1. i - (w + 1) + (r + 1) = i - w + r /\ ~(i < w + 1) /\ ~(i < w) /\ i - w + r # w
      BY <2>1, <2>4
    <3>2. new[i] = t[i - w + r] /\ i - w + r \in 1 .. n /\ old[i] = s[i - w + r]
      BY <1>5, <1>7, <3>1
    <3> QED
      BY <1>2, <3>1, <3>2
  <2> QED
    BY <2>1, <2>2, <2>3, <2>4
<1>9. new = old
  BY <1>8, <1>5, <1>7, SeqEqual
<1> QED
  BY <1>9 DEF new, old, t

\* The values before the write index have different keys.
KeysOnce(vs, w) == \A a, b \in 1 .. w - 1 : vs[a].key = vs[b].key => a = b

(* A value put over the one kept of its key stays the last of its key.      *)
LEMMA LiveReplaced ==
    ASSUME NEW f, Kind[f] = "map",
           NEW vs \in Seq(Value), NEW r \in 1 .. Len(vs), NEW w \in 1 .. r,
           KeysOnce(vs, w),
           NEW p \in 1 .. w - 1, vs[p].key = vs[r].key
    PROVE  Meaning(f, Live([vs EXCEPT ![p] = vs[r]], r + 1, w)) = Meaning(f, Live(vs, r, w))
<1> DEFINE t == [vs EXCEPT ![p] = vs[r]]
           n == Len(vs)
           m == n - r + w
           old == Live(vs, r, w)
           new == Live(t, r + 1, w)
           M == Meaning(f, old)
<1>1. n \in Nat /\ vs[r] \in Value /\ p \in 1 .. n
  BY LenProperties, ElementOfSeq
<1>2. t \in Seq(Value) /\ Len(t) = n /\ \A i \in 1 .. n : t[i] = IF i = p THEN vs[r] ELSE vs[i]
  BY <1>1, ExceptSeq
<1> HIDE DEF t
<1>3. IsLive(old, Value, vs, r, w)
  <2>1. r \in 1 .. Len(vs) + 1
    BY <1>1
  <2> QED
    BY <2>1, LiveIs
<1>4. IsLive(new, Value, t, r + 1, w)
  <2>1. r + 1 \in 1 .. Len(t) + 1 /\ w \in 1 .. r + 1
    BY <1>1, <1>2
  <2> QED
    BY <1>2, <2>1, LiveIs
<1> HIDE DEF old, new
<1>5. /\ old \in Seq(Value) /\ Len(old) = m
       /\ \A i \in 1 .. m :
             /\ i < w => i \in 1 .. n /\ old[i] = vs[i]
             /\ ~(i < w) => old[i] = vs[i - w + r]
  BY <1>3 DEF IsLive
<1>6. n - (r + 1) + w = m - 1
  BY <1>1
<1>7. /\ new \in Seq(Value) /\ Len(new) = m - 1
       /\ \A i \in 1 .. m - 1 :
             /\ i < w => i \in 1 .. n /\ new[i] = t[i]
             /\ ~(i < w) => i - w + (r + 1) \in 1 .. n /\ new[i] = t[i - w + (r + 1)]
  BY <1>2, <1>4, <1>6 DEF IsLive
<1>8. w \in 1 .. m /\ p \in 1 .. m /\ p < w /\ m \in Nat /\ w \in Int /\ r \in Int
  BY <1>1
<1> HIDE DEF m, n
<1>9. DOMAIN old = 1 .. m /\ DOMAIN new = 1 .. m - 1
  BY <1>5, <1>7, LenProperties
<1>10. old[w] = vs[r] /\ old[p] = vs[p]
  <2>1. w - w + r = r /\ ~(w < w)
    BY <1>8
  <2> QED
    BY <1>8, <1>5, <2>1
<1>11. ASSUME NEW i \in 1 .. m - 1
      PROVE  /\ i < w /\ i # p => new[i] = old[i]
             /\ i = p => new[i] = old[w]
             /\ ~(i < w) => new[i] = old[i + 1]
  <2>1. CASE i < w
    <3>1. i \in 1 .. n /\ new[i] = t[i] /\ i \in 1 .. m
      BY <1>8, <1>7, <2>1
    <3>2. old[i] = vs[i]
      BY <1>5, <2>1, <3>1
    <3> QED
      BY <1>2, <1>10, <2>1, <3>1, <3>2
  <2>2. CASE ~(i < w)
    <3>1. i - w + (r + 1) = i + 1 - w + r /\ i + 1 - w + r # p /\ ~(i + 1 < w)
          /\ i + 1 \in 1 .. m /\ i # p
      BY <1>8, <2>2, r >= w
    <3>2. new[i] = t[i + 1 - w + r] /\ i + 1 - w + r \in 1 .. n
      BY <1>7, <2>2, <3>1
    <3>3. old[i + 1] = vs[i + 1 - w + r]
      <4>1. PICK j : j = i + 1
        OBVIOUS
      <4>2. j \in 1 .. m /\ ~(j < w)
        BY <3>1, <4>1
      <4>3. old[j] = vs[j - w + r]
        BY <1>5, <4>2, Zenon
      <4> QED
        BY <4>1, <4>3
    <3>4. new[i] = old[i + 1]
      BY <1>2, <3>1, <3>2, <3>3
    <3> QED
      BY <2>2, <3>1, <3>4
  <2> QED
    BY <2>1, <2>2
<1>12. old[w].key = old[p].key
  BY <1>10
<1>13. \A a \in 1 .. w - 1 : old[a].key = old[p].key => a = p
  <2> TAKE a \in 1 .. w - 1
  <2>1. old[a] = vs[a]
    <3>1. a \in 1 .. m /\ a < w
      BY <1>8
    <3> QED
      BY <1>5, <3>1
  <2> QED
    BY <1>10, <2>1 DEF KeysOnce
\* What was live in front of or behind the value read still is.
<1>14. ASSUME NEW j \in 1 .. m
       PROVE  \E i \in 1 .. m - 1 : /\ new[i].key = old[j].key
                                    /\ j < w => i = j
                                    /\ j = w => i = p
                                    /\ j > w => i = j - 1
  <2>1. CASE j < w
    <3>1. j \in 1 .. m - 1
      BY <1>8, <2>1
    <3> QED
      BY <1>11, <1>12, <2>1, <3>1
  <2>2. CASE j = w
    <3>1. p \in 1 .. m - 1
      BY <1>8
    <3> QED
      BY <1>8, <1>11, <2>2, <3>1
  <2>3. CASE j > w
    <3>1. j - 1 \in 1 .. m - 1 /\ ~(j - 1 < w) /\ j - 1 + 1 = j
      BY <1>8, <2>3
    <3> QED
      BY <1>8, <1>11, <2>3, <3>1
  <2> QED
    BY <1>8, <2>1, <2>2, <2>3
<1>15. ASSUME NEW i \in 1 .. m - 1
       PROVE  \E j \in 1 .. m : /\ new[i] = old[j]
                                /\ i < w /\ i # p => j = i
                                /\ i = p => j = w
                                /\ ~(i < w) => j = i + 1
  <2>1. i \in 1 .. m /\ i + 1 \in 1 .. m
    BY <1>8
  <2> QED
    BY <1>8, <1>11, <2>1
<1>16. Keys(new) = Keys(old)
  <2>1. \A i \in DOMAIN new : \E j \in DOMAIN old : new[i].key = old[j].key
    BY <1>9, <1>15
  <2>2. \A j \in DOMAIN old : \E i \in DOMAIN new : new[i].key = old[j].key
    BY <1>9, <1>14
  <2> QED
    BY <2>1, <2>2 DEF Keys
<1>17. ASSUME NEW i \in 1 .. m - 1, LastAt(new, new[i].key, i)
       PROVE  new[i].body = M[new[i].key]
  <2>1. PICK j \in 1 .. m : /\ new[i] = old[j]
                            /\ i < w /\ i # p => j = i
                            /\ i = p => j = w
                            /\ ~(i < w) => j = i + 1
    BY <1>15
  <2>2. ASSUME NEW q \in j + 1 .. m, old[q].key = old[j].key
        PROVE  FALSE
    <3>1. q \in 1 .. m /\ j < q
      BY <1>8
    <3>2. PICK k \in 1 .. m - 1 : /\ new[k].key = old[q].key
                                  /\ q < w => k = q
                                  /\ q = w => k = p
                                  /\ q > w => k = q - 1
      BY <1>14, <3>1
    <3>3. new[k].key = new[i].key
      BY <2>1, <2>2, <3>2
    <3>4. i < k
      <4>1. CASE ~(i < w)
        BY <1>8, <2>1, <3>1, <3>2, <4>1
      <4>2. CASE i = p
        BY <1>8, <2>1, <3>1, <3>2, <4>2
      <4>3. CASE i < w /\ i # p
        <5>1. j = i /\ i \in 1 .. w - 1
          BY <1>8, <2>1, <4>3
        <5>2. q # w
          BY <1>12, <1>13, <2>2, <4>3, <5>1
        <5> QED
          BY <1>8, <3>1, <3>2, <4>3, <5>1, <5>2
      <4> QED
        BY <4>1, <4>2, <4>3
    <3>5. k \in i + 1 .. Len(new)
      BY <1>8, <1>7, <3>4
    <3> QED
      BY <1>17, <3>3, <3>5 DEF LastAt
  <2>3. j \in DOMAIN old /\ LastAt(old, old[j].key, j)
    BY <1>5, <1>9, <2>2 DEF LastAt
  <2>4. M[old[j].key] = old[j].body
    BY <1>5, <2>3, MeaningLast
  <2> QED
    BY <2>1, <2>4
<1>18. M = [k \in Keys(new) |-> M[k]]
  BY <1>16 DEF Meaning
<1> HIDE DEF M
<1>19. HoldsLast(M, new)
  BY <1>9, <1>17 DEF HoldsLast
<1>20. Meaning(f, new) = M
  BY <1>18, <1>19, <1>7, MapIs
<1> QED
  BY <1>20 DEF new, M, old, t

(* One iteration of the deduplication leaves what the map holds.            *)
LEMMA CompactedMeans ==
    ASSUME NEW f, Kind[f] = "map",
           NEW vs \in Seq(Value), rd \in 1 .. Len(vs), wr \in 1 .. rd, KeysOnce(vs, wr)
    PROVE  LET end == IF vs[rd].key \in Keys(SubSeq(vs, 1, wr - 1)) THEN wr ELSE wr + 1
           IN  Meaning(f, Live(Compacted(vs), rd + 1, end)) = Meaning(f, Live(vs, rd, wr))
<1> DEFINE kept == SubSeq(vs, 1, wr - 1)
           v == vs[rd]
<1>1. Keys(kept) = {vs[i].key : i \in 1 .. wr - 1}
  <2>1. Len(vs) \in Nat /\ 1 \in Int /\ wr - 1 \in Int /\ \A i \in 1 .. wr - 1 : vs[i] \in Value
    BY LenProperties, ElementOfSeq
  <2>2. /\ kept \in Seq(Value)
        /\ Len(kept) = IF 1 <= wr - 1 THEN wr - 1 - 1 + 1 ELSE 0
        /\ \A i \in 1 .. wr - 1 - 1 + 1 : kept[i] = vs[1 + i - 1]
    BY <2>1, SubSeqProperties
  <2>3. Len(kept) = wr - 1 /\ \A i \in 1 .. wr - 1 : kept[i] = vs[i]
    BY <2>2
  <2>4. DOMAIN kept = 1 .. wr - 1
    BY <2>2, <2>3, LenProperties
  <2>5. \A i \in 1 .. wr - 1 : kept[i].key = vs[i].key
    BY <2>3
  <2> HIDE DEF kept
  <2> QED
    BY <2>4, <2>5 DEF Keys
<1> HIDE DEF kept
<1>2. CASE v.key \in Keys(kept)
  <2> DEFINE p == KeySlot(vs, v.key)
  <2>1. PICK i \in 1 .. wr - 1 : vs[i].key = v.key
    BY <1>1, <1>2
  <2>2. Len(vs) \in Nat /\ DOMAIN vs = 1 .. Len(vs) /\ i \in DOMAIN vs
    BY LenProperties
  <2>3. v.key \in Keys(vs)
    BY <2>1, <2>2 DEF Keys
  <2>4. p \in DOMAIN vs /\ vs[p].key = v.key /\ \A j \in 1 .. p - 1 : vs[j].key # v.key
    BY <2>3, KeySlotFound
  <2> HIDE DEF p
  <2>5. p \in 1 .. wr - 1
    BY <2>1, <2>2, <2>4
  <2>6. Compacted(vs) = [vs EXCEPT ![p] = v]
    BY <1>2 DEF Compacted, kept, p
  <2>7. Meaning(f, Live([vs EXCEPT ![p] = vs[rd]], rd + 1, wr)) = Meaning(f, Live(vs, rd, wr))
    <3>1. vs[p].key = vs[rd].key
      BY <2>4
    <3> QED
      BY <2>5, <3>1, LiveReplaced
  <2> QED
    BY <1>2, <2>6, <2>7 DEF kept
<1>3. CASE v.key \notin Keys(kept)
  <2>1. Compacted(vs) = [vs EXCEPT ![wr] = v]
    BY <1>3 DEF Compacted, kept
  <2>2. Live([vs EXCEPT ![wr] = vs[rd]], rd + 1, wr + 1) = Live(vs, rd, wr)
    BY LiveMoved
  <2> QED
    BY <1>3, <2>1, <2>2 DEF kept
<1> QED
  BY <1>2, <1>3

-----------------------------------------------------------------------------
(* What a field array says.                                                 *)

\* The contents of array fs, the fields of H left out.
Contents(fs, H) ==
    [f \in Field |-> Meaning(f, IF f \in H THEN <<>> ELSE Values(fs, f))]

(* The contents of one field.                                                *)
LEMMA ContentsAt ==
    ASSUME NEW fs, NEW H, NEW f \in Field
    PROVE  Contents(fs, H)[f] = IF f \in H THEN Absent(f) ELSE Meaning(f, Values(fs, f))
BY MeaningEmpty DEF Contents

(* Replacing the values of an entry changes that field only.                 *)
LEMMA ContentsWith ==
    ASSUME NEW fs, WellFormed(fs), NEW n \in Numbers(fs), NEW vs, Fits(n, vs)
    PROVE  n \in Field
           /\ Contents(WithValues(fs, n, vs), {}) = [Contents(fs, {}) EXCEPT ![n] = Meaning(n, vs)]
<1>1. n \in Field
  BY NumbersAreFields DEF WellFormed
<1>2. \A g \in Field : Values(WithValues(fs, n, vs), g) = IF g = n THEN vs ELSE Values(fs, g)
  BY ValuesWith
<1> QED
  BY <1>1, <1>2 DEF Contents

(* Clearing a field is leaving it out.                                       *)
LEMMA ContentsCleared ==
    ASSUME NEW fs, WellFormed(fs), NEW n
    PROVE  Contents(ClearField(fs, n), {}) = Contents(fs, {n})
<1>1. \A g \in Field : Values(ClearField(fs, n), g) = IF g = n THEN <<>> ELSE Values(fs, g)
  BY ValuesCleared
<1> QED
  BY <1>1 DEF Contents

(* A field left out holds nothing.                                           *)
LEMMA ContentsHidden ==
    ASSUME NEW fs, NEW H
    PROVE  Contents(fs, H)
              = [f \in Field |-> IF f \in H THEN Absent(f) ELSE Contents(fs, {})[f]]
<1>1. \A f \in Field : f \in H => Meaning(f, <<>>) = Absent(f)
  BY MeaningEmpty
<1> QED
  BY <1>1 DEF Contents

(* swapRemove of an entry left out does not show, wherever the last one goes. *)
LEMMA ContentsSwapRemove ==
    ASSUME NEW fs, WellFormed(fs), NEW i \in DOMAIN fs, NEW H, fs[i].number \in H
    PROVE  Contents(SwapRemove(fs, i), H) = Contents(fs, H)
<1>1. \A g \in Field : g \notin H => Values(SwapRemove(fs, i), g) = Values(fs, g)
  BY ValuesSwapRemove
<1> QED
  BY <1>1 DEF Contents

(* An entry without values does not show.                                    *)
LEMMA ContentsAppended ==
    ASSUME NEW fs, WellFormed(fs), NEW n \in Field \ Numbers(fs),
           Numbers(fs) \cap Siblings(n) = {}
    PROVE  Contents(Append(fs, [number |-> n, values |-> <<>>]), {}) = Contents(fs, {})
<1>1. \A g \in Field :
        Values(Append(fs, [number |-> n, values |-> <<>>]), g) = Values(fs, g)
  BY ValuesAppended
<1> QED
  BY <1>1 DEF Contents

(* No entries, no contents.                                                  *)
LEMMA ContentsEmpty == Contents(<<>>, {}) = [f \in Field |-> Absent(f)]
<1>1. \A f \in Field : Values(<<>>, f) = <<>>
  BY DEF Values, Numbers
<1>2. \A f \in Field : Meaning(f, <<>>) = Absent(f)
  BY MeaningEmpty
<1> QED
  BY <1>1, <1>2 DEF Contents

(* Leaving out fields without an entry makes no difference.                 *)
LEMMA ContentsFree ==
    ASSUME NEW fs, NEW H, Numbers(fs) \cap H = {}
    PROVE  Contents(fs, H) = Contents(fs, {})
<1>1. \A f \in Field : f \in H => Values(fs, f) = <<>>
  BY DEF Values
<1> QED
  BY <1>1 DEF Contents

-----------------------------------------------------------------------------
(* What the message says, in terms of its variables.                        *)

\* The fields the loop of clearOneof is removing.
Hidden == IF pc = "clear" THEN drop ELSE {}

(* Outside the deduplication the fields say it.                              *)
LEMMA SaidIs == pc # "dedup" => Said = Contents(fields, Hidden)
<1> SUFFICES ASSUME pc # "dedup"
             PROVE  Said = Contents(fields, Hidden)
  OBVIOUS
<1>1. \A f \in Field : Shown(f) = IF f \in Hidden THEN <<>> ELSE Values(fields, f)
  BY DEF Shown, LiveValues, Values, Hidden
<1> QED
  BY <1>1 DEF Said, Holds, Contents

LEMMA SaidIsNext == (pc # "dedup" => Said = Contents(fields, Hidden))'
BY SaidIs, PTL

\* The values of field f during the deduplication of the entry at i.
ShownAt(fs, i, r, w, f) ==
    IF i <= Len(fs) /\ fs[i].number = f /\ Kind[f] = "map" /\ Len(fs[i].values) >= 2
    THEN Live(fs[i].values, r, w) ELSE Values(fs, f)

(* During the deduplication one map is in motion.                            *)
LEMMA DedupSays ==
    pc = "dedup" /\ WellFormed(fields) /\ idx \in Nat \ {0}
      => Said = [f \in Field |-> Meaning(f, ShownAt(fields, idx, rd, wr, f))]
<1> SUFFICES ASSUME pc = "dedup", WellFormed(fields), idx \in Nat \ {0}
             PROVE  Said = [f \in Field |-> Meaning(f, ShownAt(fields, idx, rd, wr, f))]
  OBVIOUS
<1>1. DOMAIN fields = 1 .. Len(fields) /\ Len(fields) \in Nat
  BY LenProperties DEF WellFormed
<1>2. ASSUME NEW f \in Field
      PROVE  Shown(f) = ShownAt(fields, idx, rd, wr, f)
  <2>1. CASE f \notin Numbers(fields)
    <3>1. Values(fields, f) = <<>> /\ Shown(f) = <<>>
      BY <2>1 DEF Values, Shown
    <3>2. ~(idx <= Len(fields) /\ fields[idx].number = f)
      BY <1>1, <2>1 DEF Numbers
    <3> QED
      BY <3>1, <3>2 DEF ShownAt
  <2>2. CASE f \in Numbers(fields)
    <3> DEFINE p == Position(fields, f)
    <3>1. p \in DOMAIN fields /\ fields[p].number = f
      BY <2>2, PositionFound DEF WellFormed
    <3>2. idx <= Len(fields) /\ fields[idx].number = f <=> p = idx
      <4>1. idx <= Len(fields) => idx \in DOMAIN fields
        BY <1>1
      <4>2. idx \in DOMAIN fields /\ fields[idx].number = f => p = idx
        BY <3>1 DEF WellFormed
      <4> QED
        BY <1>1, <3>1, <4>1, <4>2
    <3>3. Shown(f) = LiveValues(p) /\ Values(fields, f) = fields[p].values
      BY <2>2 DEF Shown, Values
    <3> HIDE DEF p
    <3>4. CASE p = idx
      BY <1>1, <3>1, <3>2, <3>3, <3>4 DEF LiveValues, ShownAt, Live, Duplicable
    <3>5. CASE p # idx
      BY <3>2, <3>3, <3>5 DEF LiveValues, ShownAt
    <3> QED
      BY <3>4, <3>5
  <2> QED
    BY <2>1, <2>2
<1> QED
  BY <1>2 DEF Said, Holds

LEMMA DedupSaysNext ==
    (pc = "dedup" /\ WellFormed(fields) /\ idx \in Nat \ {0}
       => Said = [f \in Field |-> Meaning(f, ShownAt(fields, idx, rd, wr, f))])'
BY DedupSays, PTL

-----------------------------------------------------------------------------
(* The steps of Message, in these terms.                                    *)

\* What a step of DynamicMessage is in Message.
AbstractStep == [Abstract!Next]_(Abstract!vars)

(* The two modules read the schema alike.                                   *)
LEMMA SchemaIs ==
    /\ \A f : Abstract!Siblings(f) = Siblings(f)
    /\ \A o : Abstract!Members(o) = Members(o)
    /\ \A f, m : Abstract!ValuesFor(f, m) = ValuesFor(f, m)
    /\ \A f : Abstract!Absent(f) = Absent(f)
    /\ Abstract!OneofName = OneofName
    /\ Abstract!Empty = Nothing
    /\ Nothing = [f \in Field |-> Absent(f)]
    /\ \A s, i : Abstract!RemoveAt(s, i) = RemoveAt(s, i)
    /\ \A s, I : Abstract!AtPositions(s, I) = AtPositions(s, I)
    /\ \A f : Abstract!shouldMergeSingularMessageField(f) = shouldMergeSingularMessageField(f)
<1>1. \A o : Abstract!Members(o) = Members(o)
  BY DEF Abstract!Members, Members
<1>2. \A f : Abstract!Siblings(f) = Siblings(f)
  BY <1>1 DEF Abstract!Siblings, Siblings
<1>3. \A f, m : Abstract!ValuesFor(f, m) = ValuesFor(f, m)
  BY DEF Abstract!ValuesFor, ValuesFor, Abstract!MapEntry, MapEntry,
         Abstract!Nested, Nested, Abstract!Scalar, Scalar
<1>4. \A f : Abstract!Absent(f) = Absent(f)
  BY DEF Abstract!Absent, Absent
<1>5. Abstract!OneofName = OneofName
  BY DEF Abstract!OneofName, OneofName
<1>6. Abstract!Empty = Nothing
  BY DEF Abstract!Empty, Nothing, Abstract!Absent
<1>7. Nothing = [f \in Field |-> Absent(f)]
  BY DEF Nothing, Absent
<1>8. \A s, i : Abstract!RemoveAt(s, i) = RemoveAt(s, i)
  BY DEF Abstract!RemoveAt, RemoveAt
<1>9. \A s, I : Abstract!AtPositions(s, I) = AtPositions(s, I)
  BY Zenon DEF Abstract!AtPositions, AtPositions, Abstract!Nth, Nth,
               Abstract!Cardinality, Cardinality
<1>10. \A f : Abstract!shouldMergeSingularMessageField(f) = shouldMergeSingularMessageField(f)
  BY DEF Abstract!shouldMergeSingularMessageField, shouldMergeSingularMessageField
<1> QED
  BY <1>1, <1>2, <1>3, <1>4, <1>5, <1>6, <1>7, <1>8, <1>9, <1>10

(* A failed decode loses the message, and it stays lost until a clear.      *)
LEMMA LostStep ==
    ASSUME denormalized \in BOOLEAN, denormalized'
    PROVE  AbstractStep
<1>1. CASE denormalized
  BY <1>1 DEF AbstractStep, Abstract!vars
<1>2. CASE ~denormalized
  <2>1. Abstract!Lose
    BY <1>2, SchemaIs DEF Abstract!Lose
  <2> QED
    BY <2>1 DEF AbstractStep, Abstract!Next
<1> QED
  BY <1>1, <1>2

(* A step that changes neither what is said nor what is unknown.             *)
LEMMA InvisibleStep ==
    ASSUME ~denormalized, ~denormalized', Said' = Said, LiveUnknown' = LiveUnknown
    PROVE  AbstractStep
BY DEF AbstractStep, Abstract!vars

(* A step that leaves nothing is a clear.                                    *)
LEMMA ClearStep ==
    ASSUME ~denormalized', Said' = Nothing, LiveUnknown' = <<>>
    PROVE  AbstractStep
<1>1. Abstract!Clear
  BY SchemaIs DEF Abstract!Clear, Abstract!Init
<1> QED
  BY <1>1 DEF AbstractStep, Abstract!Next

\* What a write of v makes of the contents c of f.
WrittenOver(f, c, v) ==
    IF Kind[f] = "map" THEN Bound(c, v.key, v.body)
    ELSE IF f \in Repeated THEN Append(c, v.body)
    ELSE IF shouldMergeSingularMessageField(f) /\ c # Absent(f) THEN <<c[1] \o v.body>>
    ELSE <<v.body>>

(* A step that writes a value into a free oneof is a Put.                    *)
LEMMA PutStep ==
    ASSUME ~denormalized, ~denormalized',
           NEW f \in Field, NEW v \in ValuesFor(f, MaxBody),
           \A g \in Siblings(f) : Said[g] = Absent(g),
           Said' = [Said EXCEPT ![f] = WrittenOver(f, Said[f], v)],
           LiveUnknown' = LiveUnknown
    PROVE  AbstractStep
<1>1. ~denormalized => Abstract!Written(f, v) = WrittenOver(f, Said[f], v)
  <2> HAVE ~denormalized
  <2>1. CASE Kind[f] = "map"
    <3>1. f \notin Repeated
      BY <2>1, RepeatedAssumption
    <3>2. ~Abstract!shouldMergeSingularMessageField(f)
      BY <2>1 DEF Abstract!shouldMergeSingularMessageField
    <3>3. Abstract!Written(f, v)
            = [k \in DOMAIN Said[f] \cup {v.key} |->
                 IF k = v.key THEN v.body ELSE Said[f][k]]
      BY <2>1, <3>1, <3>2, Zenon DEF Abstract!Written
    <3> QED
      BY <2>1, <3>3 DEF WrittenOver, Bound
  <2>2. CASE Kind[f] # "map" /\ f \in Repeated
    <3>1. ~Abstract!shouldMergeSingularMessageField(f)
      BY <2>2 DEF Abstract!shouldMergeSingularMessageField
    <3>2. Abstract!Written(f, v) = Append(Said[f], v.body)
      BY <2>2, <3>1, Zenon DEF Abstract!Written
    <3> QED
      BY <2>2, <3>2 DEF WrittenOver
  <2>3. CASE Kind[f] # "map" /\ f \notin Repeated
    <3>1. CASE shouldMergeSingularMessageField(f) /\ Said[f] # Absent(f)
      <4>1. Abstract!shouldMergeSingularMessageField(f) /\ ~Abstract!IsAbsent(f)
        BY <3>1, SchemaIs DEF Abstract!IsAbsent
      <4>2. Abstract!Written(f, v) = <<Said[f][1] \o v.body>>
        BY <2>3, <4>1, Zenon DEF Abstract!Written
      <4> QED
        BY <2>3, <3>1, <4>2 DEF WrittenOver
    <3>2. CASE ~(shouldMergeSingularMessageField(f) /\ Said[f] # Absent(f))
      <4>1. ~(Abstract!shouldMergeSingularMessageField(f) /\ ~Abstract!IsAbsent(f))
        BY <3>2, SchemaIs DEF Abstract!IsAbsent
      <4>2. Abstract!Written(f, v) = <<v.body>>
        BY <2>3, <4>1, Zenon DEF Abstract!Written
      <4> QED
        BY <2>3, <3>2, <4>2 DEF WrittenOver
    <3> QED
      BY <3>1, <3>2
  <2> QED
    BY <2>1, <2>2, <2>3
<1>2. \A g \in Abstract!Siblings(f) : Abstract!IsAbsent(g)
  BY SchemaIs DEF Abstract!IsAbsent
<1>3. Abstract!Put(f, v)
  BY <1>1, <1>2 DEF Abstract!Put
<1>4. v \in Abstract!ValuesFor(f, MaxBody)
  BY SchemaIs
<1> QED
  BY <1>3, <1>4 DEF AbstractStep, Abstract!Next

(* A step that clears a field, a oneof or the rest of a oneof.               *)
LEMMA ClearFieldsStep ==
    ASSUME ~denormalized, ~denormalized', NEW S,
           \/ \E f \in Field : S = {f} \/ S = Siblings(f)
           \/ \E o \in OneofName : S = Members(o),
           Said' = [f \in Field |-> IF f \in S THEN Absent(f) ELSE Said[f]],
           LiveUnknown' = LiveUnknown
    PROVE  AbstractStep
<1>1. Abstract!ClearFields(S)
  BY SchemaIs DEF Abstract!ClearFields
<1>2. S \in {{f} : f \in Field} \cup {Abstract!Siblings(f) : f \in Field}
             \cup {Abstract!Members(o) : o \in Abstract!OneofName}
  <2>1. CASE \E f \in Field : S = {f} \/ S = Siblings(f)
    BY <2>1, SchemaIs
  <2>2. CASE \E o \in OneofName : S = Members(o)
    BY <2>2, SchemaIs
  <2> QED
    BY <2>1, <2>2
<1> QED
  BY <1>1, <1>2 DEF AbstractStep, Abstract!Next

(* A step that removes a slot of a repeated field.                           *)
LEMMA RemoveSlotStep ==
    ASSUME ~denormalized, ~denormalized', NEW f \in Repeated, NEW i \in 1 .. MaxValues,
           i \in DOMAIN Said[f],
           Said' = [Said EXCEPT ![f] = RemoveAt(Said[f], i)],
           LiveUnknown' = LiveUnknown
    PROVE  AbstractStep
<1>1. Abstract!RemoveSlot(f, i)
  BY SchemaIs DEF Abstract!RemoveSlot
<1>2. f \in Field
  BY RepeatedAssumption
<1> QED
  BY <1>1, <1>2 DEF AbstractStep, Abstract!Next

(* A step that overwrites a slot of a repeated field.                        *)
LEMMA SetSlotStep ==
    ASSUME ~denormalized, ~denormalized', NEW f \in Repeated, NEW i \in 1 .. MaxValues,
           NEW v \in ValuesFor(f, MaxBody), i \in DOMAIN Said[f],
           Said' = [Said EXCEPT ![f] = [Said[f] EXCEPT ![i] = v.body]],
           LiveUnknown' = LiveUnknown
    PROVE  AbstractStep
<1>1. Abstract!SetSlot(f, i, v)
  BY DEF Abstract!SetSlot
<1>2. f \in Field /\ v \in Abstract!ValuesFor(f, MaxBody)
  BY RepeatedAssumption, SchemaIs
<1> QED
  BY <1>1, <1>2 DEF AbstractStep, Abstract!Next

(* A step that swaps two slots of a repeated field.                          *)
LEMMA SwapSlotsStep ==
    ASSUME ~denormalized, ~denormalized', NEW f \in Repeated,
           NEW i \in 1 .. MaxValues, NEW j \in 1 .. MaxValues,
           i \in DOMAIN Said[f], j \in DOMAIN Said[f],
           Said' = [Said EXCEPT ![f] = [Said[f] EXCEPT ![i] = Said[f][j], ![j] = Said[f][i]]],
           LiveUnknown' = LiveUnknown
    PROVE  AbstractStep
<1>1. f \in Field
  BY RepeatedAssumption
<1>2. Abstract!SwapSlots(f, i, j)
  BY <1>1 DEF Abstract!SwapSlots, Said
<1> QED
  BY <1>1, <1>2 DEF AbstractStep, Abstract!Next

(* A step that removes a key of a map.                                       *)
LEMMA RemoveKeyStep ==
    ASSUME ~denormalized, ~denormalized', NEW f \in Field, Kind[f] = "map",
           NEW k \in DOMAIN Said[f],
           Said' = [Said EXCEPT ![f] = [q \in DOMAIN Said[f] \ {k} |-> Said[f][q]]],
           LiveUnknown' = LiveUnknown
    PROVE  AbstractStep
<1>1. Abstract!RemoveKey(f, k)
  BY DEF Abstract!RemoveKey
<1>2. k \in DOMAIN (IF denormalized THEN Nothing ELSE Said)[f]
  OBVIOUS
<1> QED
  BY <1>1, <1>2 DEF AbstractStep, Abstract!Next

(* A step that keeps an unknown field.                                       *)
LEMMA AddUnknownStep ==
    ASSUME ~denormalized, ~denormalized', NEW u \in UnknownField,
           Said' = Said, LiveUnknown' = Append(LiveUnknown, u)
    PROVE  AbstractStep
<1>1. Abstract!AddUnknown(u)
  BY DEF Abstract!AddUnknown
<1> QED
  BY <1>1 DEF AbstractStep, Abstract!Next

(* A step that drops the unknown fields of some numbers.                     *)
LEMMA DropUnknownStep ==
    ASSUME ~denormalized, ~denormalized', NEW N, N \subseteq {u.number : u \in UnknownField},
           Said' = Said,
           LiveUnknown' = AtPositions(LiveUnknown,
                             {i \in DOMAIN LiveUnknown : LiveUnknown[i].number \notin N})
    PROVE  AbstractStep
<1>1. Abstract!DropUnknown(N)
  BY SchemaIs DEF Abstract!DropUnknown
<1> QED
  BY <1>1 DEF AbstractStep, Abstract!Next

-----------------------------------------------------------------------------
(* The arguments of a call while it runs.                                   *)

\* add is past mergeSingularMessageValue and has not placed its value.
Writing == pc \in {"create", "place"} \/ (pc = "clear" /\ op # "clearOneof")

\* What is left of a source are values of their fields.
SourceFits ==
    \A i \in DOMAIN src.values :
        src.values[i].value \in ValuesFor(src.values[i].number, MaxBody)

\* The value is one of its field, a singular message that is about to be placed
\* has nothing to merge with, and the field an add or set works on keeps what it
\* held when the call began.
ArgsOK ==
    /\ SourceFits
    /\ pc = "add" \/ Writing => val \in ValuesFor(fld, MaxBody)
    /\ Writing /\ shouldMergeSingularMessageField(fld) => ~has(fields, fld)
    /\ SettingOne /\ fld \in prior => has(fields, fld)

(* A short payload is one a client may hand over.                           *)
LEMMA ShortValues ==
    ASSUME NEW f \in Field, NEW v \in ValuesFor(f, 1)
    PROVE  v \in ValuesFor(f, MaxBody)
<1>1. CASE Kind[f] = "message"
  <2>1. PICK n \in 0 .. 1 : \E s \in [1 .. n -> Datum] : v = Nested(s)
    BY <1>1 DEF ValuesFor
  <2>2. n \in 0 .. MaxBody
    BY BoundAssumption
  <2> QED
    BY <1>1, <2>1, <2>2 DEF ValuesFor
<1>2. CASE Kind[f] # "message"
  BY <1>2 DEF ValuesFor
<1> QED
  BY <1>1, <1>2

(* Outside add the arguments are not in use.                                *)
LEMMA QuietArgs ==
    TypeOK /\ FrameOK /\ SourceFits /\ pc \notin {"add", "clear", "create", "place"}
      => ArgsOK
BY DEF TypeOK, FrameOK, ArgsOK, Writing, SettingOne, Label

LEMMA QuietArgsNext ==
    (TypeOK /\ FrameOK /\ SourceFits /\ pc \notin {"add", "clear", "create", "place"}
       => ArgsOK)'
BY QuietArgs, PTL

(* A source that is not read any further still fits.                         *)
LEMMA SourceKept ==
    ASSUME SourceFits, src' = src \/ src' = NoSource
    PROVE  SourceFits'
BY DEF SourceFits, NoSource

(* A call that returns, or add that returns to its loop, leaves nothing.    *)
LEMMA DoneArgs ==
    ASSUME IInv', SourceFits, Return \/ Fail \/ \E r \in {"ok", "error"} : Finish(r)
    PROVE  ArgsOK'
<1>1. pc' \in {"idle", "decode", "merge"} /\ (src' = src \/ src' = NoSource)
  BY DEF Return, Fail, Finish
<1> QED
  BY <1>1, SourceKept, QuietArgsNext DEF IInv

(* No beginning of a call breaks ArgsOK,                                    *)
LEMMA CallArgs ==
    ASSUME IInv, IInv', ArgsOK, Call
    PROVE  ArgsOK'
<1>1. WellFormed(fields) /\ pc = "idle" /\ SourceFits /\ ~SettingOne
  BY DEF Call, CallAdd, CallSet, CallMergeFrom, CallCopyFrom, CallDecode, Begin,
         IInv, StoreOK, FrameOK, ArgsOK, SettingOne
<1>2. ASSUME NEW f \in Field, NEW v \in ValuesFor(f, MaxBody), CallAdd(f, v) \/ CallSet(f, v)
      PROVE  ArgsOK'
  <2>1. /\ fld' = f /\ val' = v /\ pc' = "add" /\ src' = NoSource
        /\ prior' = PresentNumbers(fields) /\ (f \notin Repeated => fields' = fields)
    BY <1>2 DEF CallAdd, CallSet, Begin
  <2>2. SourceFits' /\ ~Writing' /\ (pc = "add" \/ Writing => val \in ValuesFor(fld, MaxBody))'
    BY <1>1, <2>1, SourceKept DEF Writing
  <2>3. SettingOne' /\ fld' \in prior' => has(fields', fld')
    BY <1>1, <2>1, PresentIs DEF SettingOne, has
  <2> QED
    BY <2>2, <2>3 DEF ArgsOK
<1>3. ASSUME NEW s \in Source, CallMergeFrom(s) \/ CallCopyFrom(s)
      PROVE  ArgsOK'
  <2>1. src' = s /\ pc' = "merge"
    BY <1>3 DEF CallMergeFrom, CallCopyFrom, Begin
  <2>2. SourceFits'
    BY <2>1, SourceAssumption DEF SourceFits
  <2> QED
    BY <2>1, <2>2, QuietArgsNext DEF IInv
<1>4. CASE CallDecode
  <2>1. src' = NoSource /\ pc' = "decode"
    BY <1>4 DEF CallDecode, Begin
  <2> QED
    BY <1>1, <2>1, SourceKept, QuietArgsNext DEF IInv
<1> QED
  BY <1>2, <1>3, <1>4 DEF Call

(* The same for the mutations,                                               *)
LEMMA MutateArgs ==
    ASSUME IInv', ArgsOK, Mutate
    PROVE  ArgsOK'
<1>1. SourceFits
  BY DEF ArgsOK
<1>2. CASE \E o \in OneofName : CallClearOneof(o)
  <2>1. pc' = "clear" /\ op' = "clearOneof" /\ src' = NoSource
    BY <1>2 DEF CallClearOneof, Begin
  <2> QED
    BY <1>1, <2>1, SourceKept DEF ArgsOK, Writing, SettingOne
<1>3. CASE \E n \in Field \cup UnknownNumber : CallClearUnknownByNumber(n)
  <2>1. pc' = "forget" /\ src' = NoSource
    BY <1>3 DEF CallClearUnknownByNumber, Begin
  <2> QED
    BY <1>1, <2>1, SourceKept, QuietArgsNext DEF IInv
<1>4. CASE ~(\E o \in OneofName : CallClearOneof(o))
             /\ ~(\E n \in Field \cup UnknownNumber : CallClearUnknownByNumber(n))
  <2>1. pc' = "idle" /\ src' = src
    BY <1>4 DEF Mutate, CallClearField, CallRemoveRepeatedValue, CallSwapRepeatedValues,
                CallSetRepeatedValue, CallClearMapEntry, CallClear, CallAppendUnknownRaw,
                CallClearUnknown, Immediate, frame
  <2> QED
    BY <1>1, <2>1, SourceKept, QuietArgsNext DEF IInv
<1> QED
  BY <1>2, <1>3, <1>4

(* for add,                                                                  *)
LEMMA AddArgs ==
    ASSUME IInv, IInv', ArgsOK, Add
    PROVE  ArgsOK'
<1>1. WellFormed(fields) /\ SourceFits
  BY DEF IInv, StoreOK, ArgsOK
<1>2. CASE MergeSingular \/ MergeSingularFails \/ CreateFails \/ Place \/ PlaceFails
  <2>1. Return \/ Fail
    BY <1>2 DEF MergeSingular, MergeSingularFails, CreateFails, Place, PlaceFails
  <2> QED
    BY <1>1, <2>1, DoneArgs
<1>3. CASE NothingToMerge
  <2>1. /\ pc = "add" /\ ~Mergeable /\ fields' = fields
        /\ op' = op /\ fld' = fld /\ val' = val /\ src' = src /\ prior' = prior
    BY <1>3 DEF NothingToMerge, frame
  <2>2. SourceFits' /\ (pc = "add" \/ Writing => val \in ValuesFor(fld, MaxBody))'
        /\ (SettingOne /\ fld \in prior => has(fields, fld))'
    BY <1>1, <2>1, SourceKept DEF ArgsOK, SettingOne
  <2>3. shouldMergeSingularMessageField(fld') => ~has(fields', fld')
    BY <2>1 DEF Mergeable
  <2> QED
    BY <2>2, <2>3 DEF ArgsOK
<1>4. CASE ClearSibling
  <2>1. /\ pc = "clear" /\ pc' = pc /\ idx \in DOMAIN fields
        /\ fields[idx].number \in drop /\ fields' = SwapRemove(fields, idx)
        /\ op' = op /\ fld' = fld /\ val' = val /\ src' = src /\ prior' = prior
    BY <1>1, <1>4, LenProperties DEF ClearSibling, frame, IInv, TypeOK
  <2>2. op # "clearOneof" => has(fields', fld) = has(fields, fld)
    <3> HAVE op # "clearOneof"
    <3>1. fields[idx].number # fld
      BY <2>1 DEF IInv, FrameOK, Siblings
    <3>2. Values(SwapRemove(fields, idx), fld) = Values(fields, fld)
      BY <1>1, <2>1, <3>1, ValuesSwapRemove
    <3> QED
      BY <2>1, <3>2 DEF has
  <2>3. SettingOne => op # "clearOneof"
    BY DEF SettingOne
  <2>4. SettingOne' = SettingOne /\ Writing' = Writing
    BY <2>1 DEF SettingOne, Writing
  <2>5. Writing => op # "clearOneof"
    BY <2>1 DEF Writing
  <2> QED
    BY <1>1, <2>1, <2>2, <2>3, <2>4, <2>5, SourceKept DEF ArgsOK
<1>5. CASE SkipSibling
  <2>1. /\ fields' = fields /\ pc' = pc
        /\ op' = op /\ fld' = fld /\ val' = val /\ src' = src /\ prior' = prior
    BY <1>5 DEF SkipSibling
  <2> QED
    BY <1>1, <2>1, SourceKept DEF ArgsOK, Writing, SettingOne
<1>6. CASE SiblingsCleared
  <2>1. CASE op = "clearOneof"
    <3>1. Finish("ok")
      BY <1>6, <2>1 DEF SiblingsCleared
    <3> QED
      BY <1>1, <3>1, DoneArgs
  <2>2. CASE op # "clearOneof"
    <3>1. /\ fields' = fields /\ pc = "clear" /\ pc' = "create"
          /\ op' = op /\ fld' = fld /\ val' = val /\ src' = src /\ prior' = prior
      BY <1>6, <2>2 DEF SiblingsCleared, frame
    <3> QED
      BY <1>1, <2>2, <3>1, SourceKept DEF ArgsOK, Writing, SettingOne
  <2> QED
    BY <2>1, <2>2
<1>7. CASE Create
  <2>1. /\ fields' = Created(fld) /\ pc = "create" /\ pc' = "place"
        /\ op' = op /\ fld' = fld /\ val' = val /\ src' = src /\ prior' = prior
    BY <1>7 DEF Create, frame
  <2>2. Values(fields', fld) = Values(fields, fld)
    BY <1>1, <2>1, ValuesAppended DEF Created, IInv, FrameOK, StoreOK
  <2> QED
    BY <1>1, <2>1, <2>2, SourceKept DEF ArgsOK, Writing, SettingOne, has
<1> QED
  BY <1>2, <1>3, <1>4, <1>5, <1>6, <1>7 DEF Add

(* and for the loops of mergeFrom, decode and clearUnknownFieldsByNumber.    *)
LEMMA LoopArgs ==
    ASSUME IInv, IInv', ArgsOK, Forget \/ Merge \/ Decode
    PROVE  ArgsOK'
<1>1. SourceFits
  BY DEF ArgsOK
<1>2. src \in [values : Seq(Assignment), unknown : Seq(UnknownField)]
  BY DEF IInv, TypeOK
<1>3. CASE MergeField
  <2>1. /\ pc = "merge" /\ pc' = "add" /\ op' = op /\ src.values # <<>>
        /\ fld' = Head(src.values).number /\ val' = Head(src.values).value
        /\ src' = [src EXCEPT !.values = Tail(src.values)]
    BY <1>3 DEF MergeField
  <2>2. /\ src.values \in Seq(Assignment) /\ src'.values = Tail(src.values)
        /\ Len(src.values) \in Nat /\ DOMAIN src.values = 1 .. Len(src.values)
    BY <1>2, <2>1, LenProperties
  <2>3. /\ 1 \in DOMAIN src.values /\ Head(src.values) = src.values[1]
        /\ Tail(src.values) \in Seq(Assignment) /\ Len(Tail(src.values)) = Len(src.values) - 1
        /\ \A i \in 1 .. Len(Tail(src.values)) : Tail(src.values)[i] = src.values[i + 1]
    BY <2>1, <2>2, EmptySeq, HeadTailProperties
  <2>4. SourceFits'
    <3>1. ASSUME NEW i \in DOMAIN src'.values
          PROVE  src'.values[i] = src.values[i + 1] /\ i + 1 \in DOMAIN src.values
      <4>1. i \in 1 .. Len(Tail(src.values))
        BY <2>2, <2>3, LenProperties
      <4> QED
        BY <2>2, <2>3, <4>1
    <3> QED
      BY <1>1, <3>1 DEF SourceFits
  <2>5. val' \in ValuesFor(fld', MaxBody)
    BY <1>1, <2>1, <2>3 DEF SourceFits
  <2>6. ~Writing' /\ ~SettingOne'
    BY <2>1 DEF Writing, SettingOne, IInv, FrameOK
  <2> QED
    BY <2>4, <2>5, <2>6 DEF ArgsOK
<1>4. ASSUME NEW f \in Field, NEW v \in ValuesFor(f, 1), DecodeField(f, v)
      PROVE  ArgsOK'
  <2>1. /\ pc = "decode" /\ pc' = (IF Kind[f] = "map" THEN "create" ELSE "add")
        /\ op' = op /\ fld' = f /\ val' = v /\ src' = src
    BY <1>4 DEF DecodeField, Reading
  <2>2. ~SettingOne' /\ SourceFits' /\ val' \in ValuesFor(fld', MaxBody)
    BY <1>1, <2>1, SourceKept, ShortValues DEF SettingOne, IInv, FrameOK
  <2>3. (Writing /\ shouldMergeSingularMessageField(fld) => ~has(fields, fld))'
    BY <2>1 DEF Writing, shouldMergeSingularMessageField
  <2> QED
    BY <2>2, <2>3 DEF ArgsOK
<1>5. CASE MergeUnknown
  <2>1. pc' = "merge" /\ src' = [src EXCEPT !.unknown = Tail(src.unknown)]
    BY <1>5 DEF MergeUnknown
  <2>2. src'.values = src.values
    BY <1>2, <2>1
  <2> QED
    BY <1>1, <2>1, <2>2, QuietArgsNext DEF IInv, SourceFits
<1>6. CASE UnknownForgotten \/ MergeFails \/ MergeDone \/ PackedDone \/ DecodeFails
             \/ CompactFails \/ DecodeDone
  <2>1. Return \/ Fail \/ \E r \in {"ok", "error"} : Finish(r)
    BY <1>6 DEF UnknownForgotten, MergeFails, MergeDone, PackedDone, DecodeFails,
                CompactFails, DecodeDone
  <2> QED
    BY <1>1, <2>1, DoneArgs
<1>7. CASE \/ ForgetUnknown \/ RetainUnknown
           \/ \E n \in Field \cup UnknownNumber, d \in Datum : DecodeUnknown(n, d)
           \/ \E f \in Field : DecodePacked(f)
           \/ \E d \in Datum : PackedElement(d) \/ PackedUnknown(d)
           \/ DecodeEnd \/ Compact \/ CompactNext
  <2>1. src' = src /\ pc' \notin {"add", "clear", "create", "place"}
    BY <1>7 DEF ForgetUnknown, RetainUnknown, DecodeUnknown, DecodePacked, PackedElement,
                PackedUnknown, DecodeEnd, Compact, CompactNext, Reading, frame
  <2> QED
    BY <1>1, <2>1, SourceKept, QuietArgsNext DEF IInv
<1> QED
  BY <1>3, <1>4, <1>5, <1>6, <1>7 DEF Forget, Merge, Decode

(* IInv and ArgsOK hold between any two steps of any call.                  *)
THEOREM ArgumentsFit == Spec => [](IInv /\ ArgsOK)
<1>1. Init => IInv /\ ArgsOK
  <2> SUFFICES ASSUME Init
               PROVE  IInv /\ ArgsOK
    OBVIOUS
  <2>1. IInv
    BY InitSafe
  <2>2. SourceFits /\ pc = "idle"
    BY DEF Init, SourceFits, NoSource
  <2> QED
    BY <2>1, <2>2, QuietArgs DEF IInv
<1>2. (IInv /\ ArgsOK) /\ [Next]_vars => (IInv /\ ArgsOK)'
  <2> SUFFICES ASSUME IInv, ArgsOK, [Next]_vars
               PROVE  IInv' /\ ArgsOK'
    OBVIOUS
  <2>1. IInv'
    BY StepSafe
  <2>2. CASE UNCHANGED vars
    <3>1. /\ fields' = fields /\ pc' = pc /\ op' = op /\ fld' = fld /\ val' = val
          /\ src' = src /\ prior' = prior
      BY <2>2 DEF vars, frame
    <3>2. ArgsOK'
      BY <3>1 DEF ArgsOK, SourceFits, Writing, SettingOne
    <3> QED
      BY <2>1, <3>2
  <2>3. CASE Next
    BY <2>1, <2>3, CallArgs, MutateArgs, AddArgs, LoopArgs DEF Next
  <2> QED
    BY <2>1, <2>2, <2>3
<1> QED
  BY <1>1, <1>2, PTL DEF Spec

-----------------------------------------------------------------------------
(* The steps of DynamicMessage are steps of Message.                        *)

LEMMA PlainIs ==
    /\ pc \notin {"clear", "dedup"} => Said = Contents(fields, {})
    /\ pc # "forget" => LiveUnknown = unknown_fields
BY SaidIs DEF Hidden, LiveUnknown

LEMMA PlainIsNext ==
    (/\ pc \notin {"clear", "dedup"} => Said = Contents(fields, {})
     /\ pc # "forget" => LiveUnknown = unknown_fields)'
BY PlainIs, PTL

(* Only a clear gives a message back what it says.                          *)
LEMMA StaysLost ==
    ASSUME Return \/ Fail \/ denormalized' = denormalized, ~denormalized'
    PROVE  ~denormalized
BY DEF Return, Fail

(* Where a step that returns, or loops, goes to.                            *)
LEMMA DoneGoes ==
    ASSUME Return \/ Fail \/ \E r \in {"ok", "error"} : Finish(r)
    PROVE  pc' \in {"idle", "decode", "merge"}
BY DEF Return, Fail, Finish

(* The labels at which the fields are all there is.                         *)
Plain == pc \notin {"clear", "dedup", "forget"}

(* A step that writes no field and no unknown field does not show.          *)
LEMMA NothingWritten ==
    ASSUME ~denormalized, ~denormalized', Plain, Plain',
           fields' = fields, unknown_fields' = unknown_fields
    PROVE  AbstractStep
<1>1. Said = Contents(fields, {}) /\ LiveUnknown = unknown_fields
  BY PlainIs DEF Plain
<1>2. Said' = Contents(fields', {}) /\ LiveUnknown' = unknown_fields'
  BY PlainIsNext DEF Plain
<1> QED
  BY <1>1, <1>2, InvisibleStep

(* An entry without values does not show.                                   *)
LEMMA CreatedSays ==
    ASSUME WellFormed(fields), NEW f \in Field, Numbers(fields) \cap Siblings(f) = {}
    PROVE  Contents(Created(f), {}) = Contents(fields, {})
BY ContentsAppended DEF Created

(* The fields a field's oneof excludes hold nothing.                        *)
LEMMA SiblingsAbsent ==
    ASSUME NEW fs, WellFormed(fs), NEW f \in Numbers(fs), NEW g \in Siblings(f)
    PROVE  g \in Field /\ Contents(fs, {})[g] = Absent(g)
<1>1. g \in Field
  BY DEF Siblings, Members
<1>2. g \notin Numbers(fs)
  <2> SUFFICES ASSUME g \in Numbers(fs)
               PROVE  FALSE
    OBVIOUS
  <2>1. PICK i \in DOMAIN fs : fs[i].number = f
    BY DEF Numbers
  <2>2. PICK j \in DOMAIN fs : fs[j].number = g
    BY DEF Numbers
  <2>3. f # g
    BY DEF Siblings
  <2> QED
    BY <2>1, <2>2, <2>3 DEF WellFormed
<1>3. Values(fs, g) = <<>>
  BY <1>2 DEF Values
<1> QED
  BY <1>1, <1>3, ContentsAt, MeaningEmpty

(* New values of a field that say what a write to it says are a write.      *)
LEMMA ValuesWritten ==
    ASSUME IInv, ~denormalized, ~denormalized', Plain, Plain',
           NEW f \in Numbers(fields), NEW v \in ValuesFor(f, MaxBody),
           NEW vs, Fits(f, vs),
           Meaning(f, vs) = WrittenOver(f, Meaning(f, Values(fields, f)), v),
           fields' = WithValues(fields, f, vs), unknown_fields' = unknown_fields
    PROVE  AbstractStep
<1>1. WellFormed(fields)
  BY DEF IInv, StoreOK
<1>2. Said = Contents(fields, {}) /\ LiveUnknown = unknown_fields
  BY PlainIs DEF Plain
<1>3. Said' = Contents(fields', {}) /\ LiveUnknown' = unknown_fields'
  BY PlainIsNext DEF Plain
<1>4. f \in Field /\ Said' = [Said EXCEPT ![f] = Meaning(f, vs)]
  BY <1>1, <1>2, <1>3, ContentsWith
<1>5. Said[f] = Meaning(f, Values(fields, f))
  BY <1>2, <1>4, ContentsAt
<1>6. \A g \in Siblings(f) : Said[g] = Absent(g)
  BY <1>1, <1>2, SiblingsAbsent
<1>7. Said' = [Said EXCEPT ![f] = WrittenOver(f, Said[f], v)]
  BY <1>4, <1>5
<1> QED
  BY <1>2, <1>3, <1>4, <1>6, <1>7, PutStep

(* What a field that is not a map says.                                     *)
LEMMA MeaningPlain ==
    ASSUME NEW f, Kind[f] # "map", NEW vs
    PROVE  Meaning(f, vs) = Bodies(vs)
BY DEF Meaning, Bodies

(* What a single value says.                                                 *)
LEMMA MeaningOne ==
    ASSUME NEW f, Kind[f] # "map", NEW v
    PROVE  Meaning(f, <<v>>) = <<v.body>>
BY DEF Meaning

(* The beginning of a nested message is one a client may hand over.         *)
LEMMA PrefixFits ==
    ASSUME NEW f, Kind[f] = "message", NEW v \in ValuesFor(f, MaxBody),
           NEW n \in 0 .. Len(v.body) - 1
    PROVE  Nested(SubSeq(v.body, 1, n)) \in ValuesFor(f, MaxBody)
<1>1. PICK m \in 0 .. MaxBody : \E s \in [1 .. m -> Datum] : v = Nested(s)
  BY DEF ValuesFor
<1>2. PICK s \in [1 .. m -> Datum] : v = Nested(s)
  BY <1>1
<1>3. s \in Seq(Datum) /\ Len(s) = m /\ v.body = s
  BY <1>1, <1>2, SeqDef, LenProperties DEF Nested
<1>4. MaxBody \in Nat /\ n \in 0 .. MaxBody
  BY <1>1, <1>3, BoundAssumption
<1>5. SubSeq(s, 1, n) \in [1 .. n -> Datum]
  <2>1. 1 \in Int /\ n \in Nat /\ \A j \in 1 .. n : s[j] \in Datum
    BY <1>3, <1>4
  <2>2. SubSeq(s, 1, n) \in Seq(Datum) /\ Len(SubSeq(s, 1, n)) = n
    BY <1>3, <2>1, SubSeqProperties
  <2> QED
    BY <2>1, <2>2, LenProperties
<1> DEFINE w == Nested(SubSeq(v.body, 1, n))
<1>6. \E t \in [1 .. n -> Datum] : w = Nested(t)
  BY <1>3, <1>5
<1> HIDE DEF w
<1>7. Kind[f] = "message" /\ \E k \in 0 .. MaxBody : \E t \in [1 .. k -> Datum] : w = Nested(t)
  BY <1>4, <1>6
<1>8. w \in ValuesFor(f, MaxBody)
  BY <1>7 DEF ValuesFor
<1> QED
  BY <1>8 DEF w

-----------------------------------------------------------------------------
(* The steps of add.                                                        *)

(* Merging a singular message appends to what it says.                      *)
LEMMA MergedStep ==
    ASSUME IInv, ~denormalized, ~denormalized', pc = "add", Plain',
           Mergeable, NEW v \in ValuesFor(fld, MaxBody),
           fields' = Merged(v.body), unknown_fields' = unknown_fields
    PROVE  AbstractStep
<1> DEFINE vs == Values(fields, fld)
           new == <<Nested(vs[1].body \o v.body)>>
<1>1. /\ fld \in Field /\ Kind[fld] = "message" /\ fld \notin Repeated /\ vs # <<>>
      /\ ~isRepeatedLike(fld) /\ WellFormed(fields)
  BY DEF IInv, FrameOK, StoreOK, Mergeable, shouldMergeSingularMessageField, has, isRepeatedLike
<1>2. fld \in Numbers(fields)
  BY <1>1 DEF Values
<1>3. vs \in Seq(Value) /\ Len(vs) <= 1
  BY <1>1, ValuesFit DEF Fits
<1>4. Len(vs) = 1 /\ vs[1] \in Value
  <2>1. Len(vs) # 0 /\ Len(vs) \in Nat
    BY <1>1, <1>3, EmptySeq
  <2>2. Len(vs) = 1
    <3>1. \A n \in Nat : n <= 1 /\ n # 0 => n = 1
      OBVIOUS
    <3> QED
      BY <1>3, <2>1, <3>1, Zenon
  <2>3. 1 \in 1 .. Len(vs)
    BY <2>2
  <2> QED
    BY <1>3, <2>2, <2>3, ElementOfSeq
<1>5. v \in Value
  BY <1>1, ValuesForAreValues, BoundAssumption
<1>6. Fits(fld, new)
  <2>1. vs[1].body \o v.body \in Seq(Datum)
    BY <1>4, <1>5, ConcatProperties DEF Value
  <2>2. Nested(vs[1].body \o v.body) \in Value
    BY <2>1 DEF Nested, Value
  <2> QED
    BY <2>2 DEF Fits
<1>7. Meaning(fld, new) = <<vs[1].body \o v.body>>
  <2>1. Nested(vs[1].body \o v.body).body = vs[1].body \o v.body
    BY DEF Nested
  <2>2. Meaning(fld, new) = <<Nested(vs[1].body \o v.body).body>>
    BY <1>1, MeaningOne
  <2> QED
    BY <2>1, <2>2
<1>8. Meaning(fld, vs)[1] = vs[1].body
  BY <1>1, <1>3, <1>4, MeaningPlain, BodiesIs
<1>9. Meaning(fld, vs) # Absent(fld)
  BY <1>1, <1>3, MeaningFull
<1>10. Meaning(fld, new) = WrittenOver(fld, Meaning(fld, vs), v)
  BY <1>1, <1>7, <1>8, <1>9 DEF WrittenOver, Mergeable
<1>11. fields' = WithValues(fields, fld, new)
  BY DEF Merged
<1>12. Plain
  BY DEF Plain
<1> HIDE DEF vs, new
<1> QED
  BY <1>2, <1>6, <1>10, <1>11, <1>12, ValuesWritten DEF vs

(* Placing a value says what a write of it says.                            *)
LEMMA PlacedMeans ==
    ASSUME IInv, ArgsOK, ~denormalized, pc = "place"
    PROVE  Meaning(fld, Placed) = WrittenOver(fld, Meaning(fld, Values(fields, fld)), val)
<1> DEFINE vs == Values(fields, fld)
<1>1. fld \in Field /\ WellFormed(fields) /\ vs \in Seq(Value) /\ val \in Value
  BY ValuesFit DEF IInv, TypeOK, FrameOK, StoreOK, Fits
<1>2. CASE Kind[fld] = "map" /\ op # "decode"
  <2>1. Placed = PutEntry(vs, val)
    <3>1. isRepeatedLike(fld)
      BY <1>2 DEF isRepeatedLike
    <3> QED
      BY <1>2, <3>1, Zenon DEF Placed
  <2>2. UniqueKeys(vs)
    <3>1. NormalizedMaps(fields)
      BY <1>2 DEF IInv, MapsOK, MapKeysUnique
    <3>2. CASE fld \in Numbers(fields)
      BY <1>1, <1>2, <3>1, <3>2, PositionFound DEF Values, NormalizedMaps, WellFormed
    <3>3. CASE fld \notin Numbers(fields)
      BY <3>3 DEF Values, UniqueKeys
    <3> QED
      BY <3>2, <3>3
  <2> HIDE DEF vs
  <2> QED
    BY <1>1, <1>2, <2>1, <2>2, MeaningPut DEF WrittenOver, vs
<1>3. CASE Kind[fld] = "map" /\ op = "decode"
  <2>1. Placed = Append(vs, val)
    BY <1>3, Zenon DEF Placed, isRepeatedLike
  <2> HIDE DEF vs
  <2> QED
    BY <1>1, <1>3, <2>1, MeaningAppended DEF WrittenOver, vs
<1>4. CASE Kind[fld] # "map" /\ fld \in Repeated
  <2>1. Placed = Append(vs, val)
    BY <1>4, Zenon DEF Placed, isRepeatedLike
  <2> HIDE DEF vs
  <2>2. Bodies(Append(vs, val)) = Append(Bodies(vs), val.body)
    BY <1>1, BodiesAppend
  <2> QED
    BY <1>4, <2>1, <2>2, MeaningPlain DEF WrittenOver, vs
<1>5. CASE Kind[fld] # "map" /\ fld \notin Repeated
  <2>1. Placed = <<val>>
    BY <1>5, Zenon DEF Placed, isRepeatedLike
  <2>2. shouldMergeSingularMessageField(fld) => Meaning(fld, vs) = Absent(fld)
    <3> HAVE shouldMergeSingularMessageField(fld)
    <3>1. vs = <<>>
      BY DEF ArgsOK, Writing, has
    <3> QED
      BY <3>1, MeaningEmpty
  <2> QED
    BY <1>5, <2>1, <2>2, MeaningOne DEF WrittenOver
<1> QED
  BY <1>2, <1>3, <1>4, <1>5

(* Every step of add is a step of Message or does not show.                  *)
LEMMA AddSteps ==
    ASSUME IInv, IInv', ArgsOK, Add, ~denormalized'
    PROVE  AbstractStep
<1>1. ~denormalized
  BY StaysLost DEF Add, MergeSingular, MergeSingularFails, NothingToMerge, ClearSibling,
     SkipSibling, SiblingsCleared, Create, CreateFails, Place, PlaceFails
<1>2. WellFormed(fields) /\ val \in Value
  BY DEF IInv, StoreOK, TypeOK
<1>3. CASE MergeSingular
  <2>1. /\ pc = "add" /\ Mergeable /\ fields' = Merged(val.body) /\ Return
        /\ unknown_fields' = unknown_fields
    BY <1>3 DEF MergeSingular
  <2>2. Plain'
    BY <2>1, DoneGoes DEF Plain
  <2>3. val \in ValuesFor(fld, MaxBody)
    BY <2>1 DEF ArgsOK
  <2> QED
    BY <1>1, <2>1, <2>2, <2>3, MergedStep
<1>4. CASE MergeSingularFails
  <2>1. PICK n \in 0 .. Len(val.body) - 1 :
          /\ pc = "add" /\ Mergeable /\ fields' = Merged(SubSeq(val.body, 1, n))
          /\ Fail /\ unknown_fields' = unknown_fields
    BY <1>4 DEF MergeSingularFails
  <2>2. Plain'
    BY <2>1, DoneGoes DEF Plain
  <2> DEFINE v == Nested(SubSeq(val.body, 1, n))
  <2>3. v \in ValuesFor(fld, MaxBody)
    <3>1. Kind[fld] = "message" /\ val \in ValuesFor(fld, MaxBody)
      BY <2>1 DEF ArgsOK, Mergeable, shouldMergeSingularMessageField
    <3> QED
      BY <3>1, PrefixFits
  <2>4. fields' = Merged(v.body)
    BY <2>1 DEF Nested
  <2> HIDE DEF v
  <2> QED
    BY <1>1, <2>1, <2>2, <2>3, <2>4, MergedStep
<1>5. CASE NothingToMerge
  <2>1. /\ pc = "add" /\ fields' = fields /\ unknown_fields' = unknown_fields
        /\ pc' \in {"clear", "create"} /\ drop' = drop /\ drop = Siblings(fld) /\ fld \in Field
    BY <1>5 DEF NothingToMerge, frame, IInv, FrameOK
  <2>2. Said = Contents(fields, {}) /\ LiveUnknown = unknown_fields
    BY <2>1, PlainIs
  <2>3. CASE pc' = "create"
    BY <1>1, <2>1, <2>3, NothingWritten DEF Plain
  <2>4. CASE pc' = "clear"
    <3>1. Said' = Contents(fields, Siblings(fld)) /\ LiveUnknown' = unknown_fields'
      BY <2>1, <2>4, SaidIsNext, PlainIsNext DEF Hidden
    <3>2. Said' = [f \in Field |-> IF f \in Siblings(fld) THEN Absent(f) ELSE Said[f]]
      BY <2>2, <3>1, ContentsHidden
    <3> QED
      BY <1>1, <2>1, <2>2, <3>1, <3>2, ClearFieldsStep
  <2> QED
    BY <2>1, <2>3, <2>4
<1>6. CASE ClearSibling \/ SkipSibling
  <2>1. /\ pc = "clear" /\ pc' = pc /\ drop' = drop /\ unknown_fields' = unknown_fields
    BY <1>6 DEF ClearSibling, SkipSibling, frame
  <2>2. Contents(fields', drop) = Contents(fields, drop)
    <3>1. CASE ClearSibling
      <4>1. /\ idx \in DOMAIN fields /\ fields[idx].number \in drop
            /\ fields' = SwapRemove(fields, idx)
        BY <1>2, <3>1, LenProperties DEF ClearSibling, IInv, TypeOK
      <4> QED
        BY <1>2, <4>1, ContentsSwapRemove
    <3>2. CASE SkipSibling
      BY <3>2 DEF SkipSibling
    <3> QED
      BY <1>6, <3>1, <3>2
  <2>3. Said = Contents(fields, drop) /\ LiveUnknown = unknown_fields
    BY <2>1, SaidIs, PlainIs DEF Hidden
  <2>4. Said' = Contents(fields', drop) /\ LiveUnknown' = unknown_fields'
    BY <2>1, SaidIsNext, PlainIsNext DEF Hidden
  <2> QED
    BY <1>1, <2>1, <2>2, <2>3, <2>4, InvisibleStep
<1>7. CASE SiblingsCleared
  <2>1. /\ pc = "clear" /\ pc' \in {"idle", "create"} /\ idx > Len(fields)
        /\ fields' = fields /\ unknown_fields' = unknown_fields
    BY <1>7 DEF SiblingsCleared, Finish
  <2>2. Numbers(fields) \cap drop = {}
    <3>1. /\ idx <= Len(fields) + 1 /\ idx \in Nat /\ Len(fields) \in Nat
          /\ DOMAIN fields = 1 .. Len(fields)
          /\ \A i \in 1 .. idx - 1 : fields[i].number \notin drop
      <4>1. fields \in Seq(Entry) /\ idx \in Nat
        BY <1>2 DEF WellFormed, IInv, TypeOK
      <4> QED
        BY <2>1, <4>1, LenProperties DEF IInv, StoreOK
    <3>2. \A i \in DOMAIN fields : fields[i].number \notin drop
      BY <2>1, <3>1
    <3> QED
      BY <3>2 DEF Numbers
  <2>3. Said = Contents(fields, drop) /\ LiveUnknown = unknown_fields
    BY <2>1, SaidIs, PlainIs DEF Hidden
  <2>4. Said' = Contents(fields, {}) /\ LiveUnknown' = unknown_fields
    BY <2>1, PlainIsNext
  <2> QED
    BY <1>1, <2>2, <2>3, <2>4, ContentsFree, InvisibleStep
<1>8. CASE Create
  <2>1. /\ pc = "create" /\ pc' = "place" /\ fields' = Created(fld)
        /\ unknown_fields' = unknown_fields
    BY <1>8 DEF Create
  <2>2. Contents(fields', {}) = Contents(fields, {})
    BY <1>2, <2>1, CreatedSays DEF IInv, FrameOK, StoreOK
  <2> QED
    BY <1>1, <2>1, <2>2, PlainIs, PlainIsNext, InvisibleStep
<1>9. CASE CreateFails \/ PlaceFails
  <2>1. Fail /\ pc \in {"create", "place"} /\ fields' = fields /\ unknown_fields' = unknown_fields
    BY <1>9 DEF CreateFails, PlaceFails
  <2> QED
    BY <1>1, <2>1, DoneGoes, NothingWritten DEF Plain
<1>10. CASE Place
  <2>1. /\ pc = "place" /\ fields' = WithValues(fields, fld, Placed) /\ Return
        /\ unknown_fields' = unknown_fields
    BY <1>10 DEF Place
  <2>2. fld \in Numbers(fields) /\ val \in ValuesFor(fld, MaxBody)
    BY <2>1 DEF IInv, StoreOK, ArgsOK, Writing
  <2>3. Plain /\ Plain'
    BY <2>1, DoneGoes DEF Plain
  <2>4. Fits(fld, Placed)
    BY <2>1, PlacedIs
  <2> QED
    BY <1>1, <2>1, <2>2, <2>3, <2>4, PlacedMeans, ValuesWritten
<1> QED
  BY <1>3, <1>4, <1>5, <1>6, <1>7, <1>8, <1>9, <1>10 DEF Add

-----------------------------------------------------------------------------
(* The other calls.                                                         *)

(* A message emptied by a call says nothing.                                *)
LEMMA EmptiedStep ==
    ASSUME ~denormalized', Plain', fields' = <<>>, unknown_fields' = <<>>
    PROVE  AbstractStep
<1>1. Said' = Contents(fields', {}) /\ LiveUnknown' = unknown_fields'
  BY PlainIsNext DEF Plain
<1>2. Said' = Nothing
  BY <1>1, ContentsEmpty, SchemaIs
<1> QED
  BY <1>1, <1>2, ClearStep

(* What clearField leaves.                                                   *)
LEMMA ClearedSays ==
    ASSUME NEW fs, WellFormed(fs), NEW n
    PROVE  Contents(ClearField(fs, n), {})
              = [g \in Field |-> IF g \in {n} THEN Absent(g) ELSE Contents(fs, {})[g]]
<1>1. Contents(ClearField(fs, n), {}) = Contents(fs, {n})
  BY ContentsCleared
<1>2. Contents(fs, {n})
        = [g \in Field |-> IF g \in {n} THEN Absent(g) ELSE Contents(fs, {})[g]]
  BY ContentsHidden
<1> QED
  BY <1>1, <1>2

(* A field cleared holds nothing.                                           *)
LEMMA ClearedStep ==
    ASSUME IInv, ~denormalized, ~denormalized', Plain, Plain', NEW f \in Field,
           fields' = ClearField(fields, f), unknown_fields' = unknown_fields
    PROVE  AbstractStep
<1>1. Said = Contents(fields, {}) /\ LiveUnknown = unknown_fields
  BY PlainIs DEF Plain
<1>2. Said' = Contents(fields', {}) /\ LiveUnknown' = unknown_fields'
  BY PlainIsNext DEF Plain
<1>3. Said' = [g \in Field |-> IF g \in {f} THEN Absent(g) ELSE Said[g]]
  BY <1>1, <1>2, ClearedSays DEF IInv, StoreOK
<1> QED
  BY <1>1, <1>2, <1>3, ClearFieldsStep

(* So is the beginning of every call,                                        *)
LEMMA CallSteps ==
    ASSUME IInv, Call, ~denormalized'
    PROVE  AbstractStep
<1>1. pc = "idle"
  BY DEF Call, CallAdd, CallSet, CallMergeFrom, CallCopyFrom, CallDecode, Begin
<1>2. ASSUME NEW f \in Field, NEW v \in ValuesFor(f, MaxBody), CallAdd(f, v) \/ CallSet(f, v)
      PROVE  AbstractStep
  <2>1. /\ pc' = "add" /\ unknown_fields' = unknown_fields /\ denormalized' = denormalized
        /\ fields' = fields \/ fields' = ClearField(fields, f)
    BY <1>2 DEF CallAdd, CallSet, Begin
  <2> QED
    BY <1>1, <2>1, NothingWritten, ClearedStep DEF Plain
<1>3. ASSUME NEW s \in Source, CallMergeFrom(s)
      PROVE  AbstractStep
  <2>1. /\ pc' = "merge" /\ unknown_fields' = unknown_fields /\ denormalized' = denormalized
        /\ fields' = fields
    BY <1>3 DEF CallMergeFrom, Begin
  <2> QED
    BY <1>1, <2>1, NothingWritten DEF Plain
<1>4. ASSUME CallDecode \/ \E s \in Source : CallCopyFrom(s)
      PROVE  AbstractStep
  <2>1. pc' \in {"merge", "decode"} /\ fields' = <<>> /\ unknown_fields' = <<>>
    BY <1>4 DEF CallDecode, CallCopyFrom, Begin
  <2> QED
    BY <2>1, EmptiedStep DEF Plain
<1> QED
  BY <1>2, <1>3, <1>4 DEF Call

(* Replacing the slots of a field changes what that field says.             *)
LEMMA SlotsSay ==
    ASSUME IInv, pc = "idle", pc' = "idle", NEW f \in Numbers(fields),
           NEW vs, Fits(f, vs),
           fields' = WithValues(fields, f, vs) \/ fields' = WithSlots(f, vs)
    PROVE  f \in Field /\ Said' = [Said EXCEPT ![f] = Meaning(f, vs)]
<1>1. WellFormed(fields)
  BY DEF IInv, StoreOK
<1>2. Said = Contents(fields, {})
  BY PlainIs
<1>3. Said' = Contents(fields', {})
  BY PlainIsNext
<1>4. f \in Field
  BY <1>1, NumbersAreFields DEF WellFormed
<1>5. CASE fields' = WithValues(fields, f, vs)
  BY <1>1, <1>2, <1>3, <1>4, <1>5, ContentsWith
<1>6. CASE vs = <<>> /\ fields' = ClearField(fields, f)
  <2>1. Said' = [g \in Field |-> IF g \in {f} THEN Absent(g) ELSE Said[g]]
    BY <1>1, <1>2, <1>3, <1>6, ClearedSays
  <2>2. Meaning(f, vs) = Absent(f)
    BY <1>6, MeaningEmpty
  <2>3. Said = [g \in Field |-> Said[g]]
    BY DEF Said
  <2> QED
    BY <1>4, <2>1, <2>2, <2>3
<1> QED
  BY <1>4, <1>5, <1>6 DEF WithSlots

(* The values of a field a client reads: one value per key of a map.        *)
LEMMA ClientValues ==
    ASSUME IInv, ~denormalized, pc = "idle", NEW f, Values(fields, f) # <<>>
    PROVE  /\ f \in Numbers(fields) /\ f \in Field
           /\ Values(fields, f) \in Seq(Value)
           /\ Said[f] = Meaning(f, Values(fields, f))
           /\ Kind[f] = "map" => UniqueKeys(Values(fields, f))
<1>1. WellFormed(fields)
  BY DEF IInv, StoreOK
<1>2. f \in Numbers(fields)
  BY DEF Values
<1>3. f \in Field /\ Values(fields, f) \in Seq(Value)
  BY <1>1, <1>2, NumbersAreFields, ValuesFit DEF Fits, WellFormed
<1>4. Said[f] = Meaning(f, Values(fields, f))
  BY <1>3, PlainIs, ContentsAt
<1>5. NormalizedMaps(fields)
  BY DEF IInv, FrameOK, MapsOK, MapKeysUnique
<1>6. Kind[f] = "map" => UniqueKeys(Values(fields, f))
  BY <1>1, <1>2, <1>5, PositionFound DEF Values, NormalizedMaps, WellFormed
<1> QED
  BY <1>2, <1>3, <1>4, <1>6

(* A removed slot of a repeated field, or entry of a map, is a slot or key  *)
(* of what the message says.                                                *)
LEMMA RemovedStep ==
    ASSUME IInv, ~denormalized, ~denormalized', pc = "idle", pc' = "idle",
           NEW f, isRepeatedLike(f), NEW i \in DOMAIN Values(fields, f),
           Kind[f] # "map" => i \in 1 .. MaxValues,
           fields' = WithSlots(f, RemoveAt(Values(fields, f), i)),
           unknown_fields' = unknown_fields
    PROVE  AbstractStep
<1> DEFINE vs == Values(fields, f)
           new == RemoveAt(vs, i)
<1>1. vs # <<>>
  BY EmptySeq
<1>2. /\ f \in Numbers(fields) /\ f \in Field /\ vs \in Seq(Value)
      /\ Said[f] = Meaning(f, vs) /\ (Kind[f] = "map" => UniqueKeys(vs))
  BY <1>1, ClientValues
<1>3. Fits(f, new)
  BY <1>2, RemoveAtIs DEF Fits
<1>4. LiveUnknown = unknown_fields /\ LiveUnknown' = unknown_fields'
  BY PlainIs, PlainIsNext
<1>5. Said' = [Said EXCEPT ![f] = Meaning(f, new)]
  BY <1>2, <1>3, SlotsSay
<1>6. CASE Kind[f] = "map"
  <2>1. Meaning(f, new) = Unbound(Meaning(f, vs), vs[i].key)
    BY <1>2, <1>6, MeaningRemoved
  <2>2. vs[i].key \in DOMAIN Meaning(f, vs)
    BY <1>2, <1>6, MeaningAt
  <2> HIDE DEF vs, new
  <2> QED
    BY <1>2, <1>4, <1>5, <1>6, <2>1, <2>2, RemoveKeyStep DEF Unbound
<1>7. CASE Kind[f] # "map"
  <2>1. Meaning(f, new) = RemoveAt(Meaning(f, vs), i)
    BY <1>2, <1>7, MeaningPlain, BodiesRemove
  <2>2. i \in DOMAIN Meaning(f, vs)
    BY <1>7 DEF Meaning
  <2>3. f \in Repeated
    BY <1>7 DEF isRepeatedLike
  <2> HIDE DEF vs, new
  <2> QED
    BY <1>2, <1>4, <1>5, <1>7, <2>1, <2>2, <2>3, RemoveSlotStep
<1> QED
  BY <1>6, <1>7

(* Swapping two slots of a map does not show.                               *)
LEMMA SwappedStep ==
    ASSUME IInv, ~denormalized, ~denormalized', pc = "idle", pc' = "idle",
           NEW f, isRepeatedLike(f), NEW i \in 1 .. MaxValues, NEW j \in 1 .. MaxValues,
           i \in DOMAIN Values(fields, f), j \in DOMAIN Values(fields, f),
           fields' = WithValues(fields, f, [Values(fields, f) EXCEPT
                        ![i] = Values(fields, f)[j], ![j] = Values(fields, f)[i]]),
           unknown_fields' = unknown_fields
    PROVE  AbstractStep
<1> DEFINE vs == Values(fields, f)
           new == [vs EXCEPT ![i] = vs[j], ![j] = vs[i]]
<1>1. vs # <<>>
  BY EmptySeq
<1>2. /\ f \in Numbers(fields) /\ f \in Field /\ vs \in Seq(Value)
      /\ Said[f] = Meaning(f, vs) /\ (Kind[f] = "map" => UniqueKeys(vs))
  BY <1>1, ClientValues
<1>3. Fits(f, new)
  BY <1>2, SwappedIs DEF Fits
<1>4. LiveUnknown = unknown_fields /\ LiveUnknown' = unknown_fields'
  BY PlainIs, PlainIsNext
<1>5. Said' = [Said EXCEPT ![f] = Meaning(f, new)]
  BY <1>2, <1>3, SlotsSay
<1>6. CASE Kind[f] = "map"
  <2>1. Meaning(f, new) = Meaning(f, vs)
    BY <1>2, <1>6, MeaningSwapped
  <2>2. Said = [g \in Field |-> Said[g]]
    BY DEF Said
  <2> HIDE DEF vs, new
  <2>3. Said' = Said
    BY <1>2, <1>5, <2>1, <2>2
  <2> QED
    BY <1>4, <2>3, InvisibleStep
<1>7. CASE Kind[f] # "map"
  <2> DEFINE m == Meaning(f, vs)
  <2>1. Meaning(f, new) = [m EXCEPT ![i] = m[j], ![j] = m[i]]
    <3>1. i \in DOMAIN vs /\ j \in DOMAIN vs
      OBVIOUS
    <3>2. Meaning(f, new) = Bodies(new) /\ m = Bodies(vs)
      BY <1>7, MeaningPlain
    <3> HIDE DEF vs, m
    <3>3. Bodies(new) = [Bodies(vs) EXCEPT ![i] = Bodies(vs)[j], ![j] = Bodies(vs)[i]]
      BY <1>2, <3>1, BodiesSwapped
    <3> HIDE DEF new
    <3> QED
      BY <3>2, <3>3
  <2>2. i \in DOMAIN m /\ j \in DOMAIN m
    BY <1>7 DEF Meaning
  <2>3. f \in Repeated
    BY <1>7 DEF isRepeatedLike
  <2> HIDE DEF vs, new, m
  <2>4. Said[f] = m
    BY <1>2 DEF m
  <2> QED
    BY <1>2, <1>4, <1>5, <1>7, <2>1, <2>2, <2>3, <2>4, SwapSlotsStep
<1> QED
  BY <1>6, <1>7

(* A slot of a repeated field overwritten.                                  *)
LEMMA OverwrittenStep ==
    ASSUME IInv, ~denormalized, ~denormalized', pc = "idle", pc' = "idle",
           NEW f \in Repeated, NEW i \in 1 .. MaxValues, NEW v \in ValuesFor(f, 1),
           i \in DOMAIN Values(fields, f),
           fields' = WithValues(fields, f, [Values(fields, f) EXCEPT ![i] = v]),
           unknown_fields' = unknown_fields
    PROVE  AbstractStep
<1> DEFINE vs == Values(fields, f)
           new == [vs EXCEPT ![i] = v]
<1>1. vs # <<>>
  BY EmptySeq
<1>2. /\ f \in Numbers(fields) /\ f \in Field /\ vs \in Seq(Value)
      /\ Said[f] = Meaning(f, vs)
  BY <1>1, ClientValues
<1>3. v \in Value /\ v \in ValuesFor(f, MaxBody) /\ Kind[f] # "map"
  BY <1>2, ValuesForAreValues, ShortValues, RepeatedAssumption
<1>4. Fits(f, new)
  BY <1>2, <1>3, ExceptSeq DEF Fits, isRepeatedLike
<1>5. LiveUnknown = unknown_fields /\ LiveUnknown' = unknown_fields'
  BY PlainIs, PlainIsNext
<1>6. Said' = [Said EXCEPT ![f] = Meaning(f, new)]
  BY <1>2, <1>4, SlotsSay
<1>7. Meaning(f, new) = [Meaning(f, vs) EXCEPT ![i] = v.body]
  BY <1>2, <1>3, MeaningPlain, BodiesSet
<1>8. i \in DOMAIN Meaning(f, vs)
  BY <1>3 DEF Meaning
<1> HIDE DEF vs, new
<1> QED
  BY <1>2, <1>3, <1>5, <1>6, <1>7, <1>8, SetSlotStep

-----------------------------------------------------------------------------
(* The unknown fields.                                                      *)

\* The unknown fields from position r on that a call leaves.
Retained(r) == {i \in r .. Len(unknown_fields) : unknown_fields[i].number \notin drop}

(* What a call leaves of the unknown fields is a sequence of them.           *)
LEMMA RetainedIs ==
    ASSUME unknown_fields \in Seq(UnknownField), NEW r \in Nat \ {0}
    PROVE  /\ Positions(Retained(r))
           /\ \A i \in Retained(r) : i \in 1 .. Len(unknown_fields) /\ i >= r
                                     /\ unknown_fields[i] \in UnknownField
           /\ AtPositions(unknown_fields, Retained(r)) \in Seq(UnknownField)
<1>1. Len(unknown_fields) \in Nat
      /\ \A i \in 1 .. Len(unknown_fields) : unknown_fields[i] \in UnknownField
  BY LenProperties, ElementOfSeq
<1>2. Retained(r) \subseteq r .. Len(unknown_fields)
  BY DEF Retained
<1>3. IsFiniteSet(r .. Len(unknown_fields))
  BY <1>1, FS_Interval
<1>4. IsFiniteSet(Retained(r)) /\ Retained(r) \subseteq Int
  BY <1>1, <1>2, <1>3, FS_Subset
<1>5. \A i \in Retained(r) : i \in 1 .. Len(unknown_fields) /\ i >= r
  BY <1>1, <1>2
<1>6. \A i \in Retained(r) : unknown_fields[i] \in UnknownField
  BY <1>1, <1>5
<1> QED
  BY <1>4, <1>5, <1>6, AtPositionsIs DEF Positions

(* What counts while a call removes unknown fields.                          *)
LEMMA ForgetIs ==
    pc = "forget" =>
      LiveUnknown = SubSeq(unknown_fields, 1, wr - 1) \o AtPositions(unknown_fields, Retained(rd))
BY DEF LiveUnknown, Retained

LEMMA ForgetIsNext ==
    (pc = "forget" =>
       LiveUnknown = SubSeq(unknown_fields, 1, wr - 1)
                       \o AtPositions(unknown_fields, Retained(rd)))'
BY ForgetIs, PTL

(* Keeping an unknown field is AddUnknown.                                   *)
LEMMA AppendedUnknown ==
    ASSUME IInv, ~denormalized, ~denormalized', Plain, Plain', NEW u \in UnknownField,
           fields' = fields, unknown_fields' = Append(unknown_fields, u)
    PROVE  AbstractStep
<1>1. Said = Contents(fields, {}) /\ LiveUnknown = unknown_fields
  BY PlainIs DEF Plain
<1>2. Said' = Contents(fields', {}) /\ LiveUnknown' = unknown_fields'
  BY PlainIsNext DEF Plain
<1> QED
  BY <1>1, <1>2, AddUnknownStep

(* clearUnknownFields drops every number.                                   *)
LEMMA UnknownCleared ==
    ASSUME IInv, ~denormalized, CallClearUnknown
    PROVE  AbstractStep
<1> DEFINE N == {u.number : u \in UnknownField}
<1>1. /\ pc = "idle" /\ pc' = "idle" /\ fields' = fields /\ unknown_fields' = <<>>
      /\ ~denormalized'
  BY DEF CallClearUnknown
<1>2. Said' = Said /\ LiveUnknown = unknown_fields /\ LiveUnknown' = <<>>
  BY <1>1, PlainIs, PlainIsNext
<1>3. unknown_fields \in Seq(UnknownField)
  BY DEF IInv, TypeOK
<1>4. \A i \in DOMAIN unknown_fields : unknown_fields[i].number \in N
  BY <1>3, ElementOfSeq, LenProperties
<1>5. {i \in DOMAIN LiveUnknown : LiveUnknown[i].number \notin N} = {}
  BY <1>2, <1>4
<1>6. LiveUnknown' = AtPositions(LiveUnknown,
                        {i \in DOMAIN LiveUnknown : LiveUnknown[i].number \notin N})
  BY <1>2, <1>5, NoPositions
<1> QED
  BY <1>1, <1>2, <1>6, DropUnknownStep

(* clearUnknownFieldsByNumber has dropped the number when its loop begins.  *)
LEMMA UnknownDropped ==
    ASSUME IInv, ~denormalized, NEW n, CallClearUnknownByNumber(n)
    PROVE  AbstractStep
<1> DEFINE N == {n} \cap {u.number : u \in UnknownField}
<1>1. /\ pc = "idle" /\ pc' = "forget" /\ drop' = {n} /\ rd' = 1 /\ wr' = 1
      /\ fields' = fields /\ unknown_fields' = unknown_fields /\ ~denormalized'
  BY DEF CallClearUnknownByNumber, Begin, IInv, FrameOK
<1>2. Said' = Said /\ LiveUnknown = unknown_fields
  BY <1>1, PlainIs, PlainIsNext
<1>3. unknown_fields \in Seq(UnknownField) /\ DOMAIN unknown_fields = 1 .. Len(unknown_fields)
  BY LenProperties DEF IInv, TypeOK
<1>4. \A i \in DOMAIN unknown_fields : unknown_fields[i].number \in {u.number : u \in UnknownField}
  BY <1>3, ElementOfSeq
<1> DEFINE I == {i \in DOMAIN unknown_fields : unknown_fields[i].number \notin N}
<1>5. Retained(rd)' = I
  <2>1. Retained(rd)' = {i \in 1 .. Len(unknown_fields) : unknown_fields[i].number \notin {n}}
    BY <1>1 DEF Retained
  <2> QED
    BY <1>3, <1>4, <2>1
<1>6. AtPositions(unknown_fields, I) \in Seq(UnknownField)
  <2>1. I \subseteq 1 .. Len(unknown_fields) /\ Len(unknown_fields) \in Nat
    BY <1>3, LenProperties
  <2>2. Positions(I)
    <3>1. IsFiniteSet(1 .. Len(unknown_fields))
      BY <2>1, FS_Interval
    <3> HIDE DEF I
    <3>2. IsFiniteSet(I)
      BY <2>1, <3>1, FS_Subset
    <3>3. I \subseteq Int
      BY <2>1
    <3> QED
      BY <3>2, <3>3 DEF Positions
  <2>3. \A i \in I : unknown_fields[i] \in UnknownField
    BY <1>3, <2>1, ElementOfSeq
  <2> HIDE DEF I
  <2> QED
    BY <2>2, <2>3, AtPositionsIs
<1> HIDE DEF I
<1>7. LiveUnknown' = SubSeq(unknown_fields, 1, 0) \o AtPositions(unknown_fields, I)
  BY <1>1, <1>5, ForgetIsNext
<1>8. SubSeq(unknown_fields, 1, 0) = <<>>
  BY <1>3
<1>9. LiveUnknown' = AtPositions(unknown_fields, I)
  BY <1>6, <1>7, <1>8, ConcatEmptySeq
<1> HIDE DEF N
<1>10. N \subseteq {u.number : u \in UnknownField}
  BY DEF N
<1> QED
  BY <1>1, <1>2, <1>9, <1>10, DropUnknownStep DEF I

(* The loop that moves unknown fields within their array does not show.      *)
LEMMA ForgetSteps ==
    ASSUME IInv, Forget, ~denormalized'
    PROVE  AbstractStep
<1>1. /\ unknown_fields \in Seq(UnknownField) /\ Len(unknown_fields) \in Nat
      /\ DOMAIN unknown_fields = 1 .. Len(unknown_fields)
      /\ pc = "forget" /\ rd \in Nat \ {0} /\ wr \in Nat \ {0}
      /\ wr <= rd /\ rd <= Len(unknown_fields) + 1
  BY LenProperties DEF IInv, TypeOK, IndexesOK, Forget, ForgetUnknown, RetainUnknown,
     UnknownForgotten
<1>2. /\ ~denormalized /\ fields' = fields /\ pc' \in {"forget", "idle"}
      /\ pc' = "forget" => drop' = drop
  BY DEF Forget, ForgetUnknown, RetainUnknown, UnknownForgotten, Finish
<1>3. Said' = Said
  BY <1>1, <1>2, PlainIs, PlainIsNext
<1> DEFINE front == SubSeq(unknown_fields, 1, wr - 1)
           K == Retained(rd + 1)
<1>4. front \in Seq(UnknownField) /\ Len(front) = wr - 1
      /\ \A i \in 1 .. wr - 1 : front[i] = unknown_fields[i]
  <2>1. 1 \in Int /\ wr - 1 \in Int /\ \A j \in 1 .. wr - 1 : unknown_fields[j] \in UnknownField
    BY <1>1, ElementOfSeq
  <2>2. /\ SubSeq(unknown_fields, 1, wr - 1) \in Seq(UnknownField)
        /\ Len(SubSeq(unknown_fields, 1, wr - 1)) = IF 1 <= wr - 1 THEN wr - 1 - 1 + 1 ELSE 0
        /\ \A i \in 1 .. wr - 1 - 1 + 1 :
             SubSeq(unknown_fields, 1, wr - 1)[i] = unknown_fields[1 + i - 1]
    BY <1>1, <2>1, SubSeqProperties
  <2> QED
    BY <1>1, <2>2
<1>5. LiveUnknown = front \o AtPositions(unknown_fields, Retained(rd))
  BY <1>1, ForgetIs
<1>6. CASE ForgetUnknown
  <2>1. /\ rd <= Len(unknown_fields) /\ unknown_fields[rd].number \in drop
        /\ rd' = rd + 1 /\ wr' = wr /\ unknown_fields' = unknown_fields /\ pc' = "forget"
    BY <1>1, <1>6 DEF ForgetUnknown
  <2>2. Retained(rd) = K
    BY <1>1, <2>1 DEF Retained
  <2>3. Retained(rd)' = K
    BY <1>2, <2>1 DEF Retained
  <2>4. LiveUnknown' = front \o AtPositions(unknown_fields, K)
    BY <2>1, <2>3, ForgetIsNext
  <2> QED
    BY <1>2, <1>3, <1>5, <2>2, <2>4, InvisibleStep
<1>7. CASE RetainUnknown
  <2> DEFINE u == unknown_fields[rd]
             uf == [unknown_fields EXCEPT ![wr] = u]
             rest == AtPositions(unknown_fields, K)
  <2>1. /\ rd \in 1 .. Len(unknown_fields) /\ u.number \notin drop
        /\ rd' = rd + 1 /\ wr' = wr + 1 /\ unknown_fields' = uf /\ pc' = "forget"
    BY <1>1, <1>7 DEF RetainUnknown
  <2>2. wr \in 1 .. Len(unknown_fields) /\ u \in UnknownField
    BY <1>1, <2>1, ElementOfSeq
  <2>3. /\ uf \in Seq(UnknownField) /\ Len(uf) = Len(unknown_fields)
        /\ \A i \in 1 .. Len(unknown_fields) : uf[i] = IF i = wr THEN u ELSE unknown_fields[i]
    BY <1>1, <2>2, ExceptSeq
  <2>4. /\ Positions(K) /\ rest \in Seq(UnknownField)
        /\ \A i \in K : i \in 1 .. Len(unknown_fields) /\ i >= rd + 1
                        /\ unknown_fields[i] \in UnknownField
    BY <1>1, RetainedIs
  <2>5. Retained(rd) = K \cup {rd}
    BY <1>1, <2>1 DEF Retained
  <2>6. AtPositions(unknown_fields, K \cup {rd}) = <<u>> \o rest
    <3>1. /\ rd \in Int /\ \A i \in K : rd < i
          /\ \A i \in K \cup {rd} : unknown_fields[i] \in UnknownField
      BY <1>1, <2>2, <2>4
    <3> HIDE DEF K
    <3> QED
      BY <2>4, <3>1, FirstOfPositions
  <2> HIDE DEF u, uf
  <2>7. Retained(rd)' = K
    BY <1>1, <1>2, <2>1, <2>3 DEF Retained
  <2>8. AtPositions(uf, K) = rest
    <3>1. \A i \in K : uf[i] = unknown_fields[i]
      BY <1>1, <2>3, <2>4
    <3> HIDE DEF K
    <3> QED
      BY <2>4, <3>1, SameAtPositions
  <2>9. SubSeq(uf, 1, wr) = front \o <<u>>
    <3>1. <<u>> \in Seq(UnknownField) /\ Len(<<u>>) = 1 /\ <<u>>[1] = u
      BY <2>2
    <3>2. /\ front \o <<u>> \in Seq(UnknownField)
          /\ Len(front \o <<u>>) = Len(front) + Len(<<u>>)
          /\ \A i \in 1 .. Len(front) + Len(<<u>>) :
               (front \o <<u>>)[i] = IF i <= Len(front) THEN front[i] ELSE <<u>>[i - Len(front)]
      BY <1>4, <3>1, ConcatProperties
    <3>3. 1 \in Int /\ wr \in Int /\ \A j \in 1 .. wr : uf[j] \in UnknownField
      BY <1>1, <2>2, <2>3, ElementOfSeq
    <3>4. /\ SubSeq(uf, 1, wr) \in Seq(UnknownField)
          /\ Len(SubSeq(uf, 1, wr)) = IF 1 <= wr THEN wr - 1 + 1 ELSE 0
          /\ \A i \in 1 .. wr - 1 + 1 : SubSeq(uf, 1, wr)[i] = uf[1 + i - 1]
      BY <2>3, <3>3, SubSeqProperties
    <3>5. Len(SubSeq(uf, 1, wr)) = wr /\ Len(front \o <<u>>) = wr
      BY <1>1, <1>4, <3>1, <3>2, <3>4
    <3>6. ASSUME NEW i \in 1 .. wr
          PROVE  SubSeq(uf, 1, wr)[i] = (front \o <<u>>)[i]
      <4> HIDE DEF front
      <4>1. SubSeq(uf, 1, wr)[i] = uf[i]
        BY <1>1, <3>4
      <4>2. CASE i = wr
        BY <1>1, <1>4, <2>2, <2>3, <3>1, <3>2, <4>1, <4>2
      <4>3. CASE i < wr
        BY <1>1, <1>4, <2>2, <2>3, <3>1, <3>2, <4>1, <4>3
      <4>4. i = wr \/ i < wr
        BY <1>1
      <4> QED
        BY <4>2, <4>3, <4>4, Zenon
    <3> HIDE DEF front
    <3> QED
      BY <3>2, <3>4, <3>5, <3>6, SeqEqual
  <2>10. LiveUnknown' = (front \o <<u>>) \o rest
    <3>1. LiveUnknown' = SubSeq(unknown_fields', 1, wr' - 1)
                           \o AtPositions(unknown_fields', Retained(rd)')
      BY <2>1, ForgetIsNext
    <3>2. wr' - 1 = wr
      BY <1>1, <2>1
    <3> HIDE DEF front, rest, K
    <3> QED
      BY <2>1, <2>7, <2>8, <2>9, <3>1, <3>2, Zenon
  <2>11. LiveUnknown = front \o (<<u>> \o rest)
    BY <1>5, <2>5, <2>6
  <2>12. <<u>> \in Seq(UnknownField)
    BY <2>2
  <2> HIDE DEF front, rest
  <2>13. (front \o <<u>>) \o rest = front \o (<<u>> \o rest)
    BY <1>4, <2>4, <2>12, ConcatAssociative
  <2> QED
    BY <1>2, <1>3, <2>10, <2>11, <2>13, InvisibleStep
<1>8. CASE UnknownForgotten
  <2>1. rd > Len(unknown_fields) /\ unknown_fields' = front /\ pc' = "idle"
    BY <1>8 DEF UnknownForgotten, Finish
  <2>2. Retained(rd) = {}
    BY <1>1, <2>1 DEF Retained
  <2> HIDE DEF front
  <2>3. LiveUnknown = front
    BY <1>4, <1>5, <2>2, NoPositions, ConcatEmptySeq
  <2>4. LiveUnknown' = front
    BY <2>1, PlainIsNext
  <2> QED
    BY <1>2, <1>3, <2>3, <2>4, InvisibleStep
<1> QED
  BY <1>6, <1>7, <1>8 DEF Forget

-----------------------------------------------------------------------------
(* The mutations, the merge and the decode.                                 *)

LEMMA MutateSteps ==
    ASSUME IInv, Mutate, ~denormalized'
    PROVE  AbstractStep
<1>1. ASSUME NEW f \in Field, CallClearField(f)
      PROVE  AbstractStep
  <2>1. /\ pc = "idle" /\ pc' = "idle" /\ fields' = ClearField(fields, f)
        /\ unknown_fields' = unknown_fields /\ denormalized' = denormalized
    BY <1>1 DEF CallClearField, Immediate
  <2> QED
    BY <2>1, ClearedStep DEF Plain
<1>2. ASSUME NEW f \in Field, NEW i \in 1 .. MaxValues, CallRemoveRepeatedValue(f, i)
      PROVE  AbstractStep
  <2>1. /\ pc = "idle" /\ pc' = "idle" /\ isRepeatedLike(f) /\ i \in DOMAIN Values(fields, f)
        /\ fields' = WithSlots(f, RemoveAt(Values(fields, f), i))
        /\ unknown_fields' = unknown_fields /\ denormalized' = denormalized
    BY <1>2 DEF CallRemoveRepeatedValue, Immediate
  <2> QED
    BY <2>1, RemovedStep
<1>3. ASSUME NEW f \in Field, NEW i \in 1 .. MaxValues, NEW j \in 1 .. MaxValues,
             CallSwapRepeatedValues(f, i, j)
      PROVE  AbstractStep
  <2>1. /\ pc = "idle" /\ pc' = "idle" /\ isRepeatedLike(f)
        /\ i \in DOMAIN Values(fields, f) /\ j \in DOMAIN Values(fields, f)
        /\ fields' = WithValues(fields, f, [Values(fields, f) EXCEPT
                        ![i] = Values(fields, f)[j], ![j] = Values(fields, f)[i]])
        /\ unknown_fields' = unknown_fields /\ denormalized' = denormalized
    BY <1>3 DEF CallSwapRepeatedValues, Immediate
  <2> QED
    BY <2>1, SwappedStep
<1>4. ASSUME NEW f \in Field, NEW i \in 1 .. MaxValues, NEW v \in ValuesFor(f, 1),
             CallSetRepeatedValue(f, i, v)
      PROVE  AbstractStep
  <2>1. /\ pc = "idle" /\ pc' = "idle" /\ isRepeatedLike(f) /\ i \in DOMAIN Values(fields, f)
        /\ fields' = WithValues(fields, f, [Values(fields, f) EXCEPT ![i] = v])
        /\ unknown_fields' = unknown_fields /\ ~denormalized /\ Kind[f] # "map"
    BY <1>4 DEF CallSetRepeatedValue
  <2>2. f \in Repeated
    BY <2>1 DEF isRepeatedLike
  <2> QED
    BY <2>1, <2>2, OverwrittenStep
<1>5. ASSUME NEW f \in Field, NEW k \in Key, CallClearMapEntry(f, k)
      PROVE  AbstractStep
  <2> DEFINE i == KeySlot(Values(fields, f), k)
  <2>1. /\ pc = "idle" /\ pc' = "idle" /\ Kind[f] = "map" /\ k \in Keys(Values(fields, f))
        /\ fields' = WithSlots(f, RemoveAt(Values(fields, f), i))
        /\ unknown_fields' = unknown_fields /\ denormalized' = denormalized
    BY <1>5 DEF CallClearMapEntry, Immediate
  <2>2. isRepeatedLike(f) /\ i \in DOMAIN Values(fields, f)
    BY <2>1, ValuesFit, KeySlotFound DEF isRepeatedLike, IInv, StoreOK, Fits
  <2> HIDE DEF i
  <2> QED
    BY <2>1, <2>2, RemovedStep
<1>6. ASSUME NEW o \in OneofName, CallClearOneof(o)
      PROVE  AbstractStep
  <2>1. /\ pc = "idle" /\ pc' = "clear" /\ drop' = Members(o) /\ fields' = fields
        /\ unknown_fields' = unknown_fields /\ denormalized' = denormalized
    BY <1>6 DEF CallClearOneof, Begin
  <2>2. Said = Contents(fields, {}) /\ LiveUnknown = unknown_fields
    BY <2>1, PlainIs
  <2>3. Said' = Contents(fields, Members(o)) /\ LiveUnknown' = unknown_fields
    BY <2>1, SaidIsNext, PlainIsNext DEF Hidden
  <2>4. Said' = [f \in Field |-> IF f \in Members(o) THEN Absent(f) ELSE Said[f]]
    BY <2>2, <2>3, ContentsHidden
  <2> QED
    BY <2>1, <2>2, <2>3, <2>4, ClearFieldsStep
<1>7. CASE CallClear
  <2>1. pc' = "idle" /\ fields' = <<>> /\ unknown_fields' = <<>>
    BY <1>7 DEF CallClear
  <2> QED
    BY <2>1, EmptiedStep DEF Plain
<1>8. ASSUME NEW n \in Field \cup UnknownNumber, NEW d \in Datum, CallAppendUnknownRaw(n, d)
      PROVE  AbstractStep
  <2>1. /\ pc = "idle" /\ pc' = "idle" /\ fields' = fields /\ denormalized' = denormalized
        /\ unknown_fields' = Append(unknown_fields, [number |-> n, data |-> d])
    BY <1>8 DEF CallAppendUnknownRaw, KeepUnknown
  <2>2. [number |-> n, data |-> d] \in UnknownField
    BY DEF UnknownField
  <2> QED
    BY <2>1, <2>2, AppendedUnknown DEF Plain
<1>9. CASE CallClearUnknown
  <2>1. ~denormalized
    BY <1>9 DEF CallClearUnknown
  <2> QED
    BY <1>9, <2>1, UnknownCleared
<1>10. ASSUME NEW n \in Field \cup UnknownNumber, CallClearUnknownByNumber(n)
       PROVE  AbstractStep
  <2>1. ~denormalized
    BY <1>10 DEF CallClearUnknownByNumber
  <2> QED
    BY <1>10, <2>1, UnknownDropped
<1> QED
  BY <1>1, <1>2, <1>3, <1>4, <1>5, <1>6, <1>7, <1>8, <1>9, <1>10 DEF Mutate

(* every step of mergeFrom is,                                               *)
LEMMA MergeSteps ==
    ASSUME IInv, Merge, ~denormalized'
    PROVE  AbstractStep
<1>1. ~denormalized
  BY StaysLost DEF Merge, MergeField, MergeUnknown, MergeFails, MergeDone
<1>2. pc = "merge" /\ Plain
  BY DEF Merge, MergeField, MergeUnknown, MergeFails, MergeDone, Plain
<1>3. CASE MergeField
  BY <1>1, <1>2, <1>3, NothingWritten DEF MergeField, Plain
<1>4. CASE MergeUnknown
  <2>1. /\ src.unknown # <<>> /\ fields' = fields /\ pc' = "merge"
        /\ unknown_fields' = Append(unknown_fields, Head(src.unknown))
    BY <1>2, <1>4 DEF MergeUnknown
  <2>2. src.unknown \in Seq(UnknownField)
    BY DEF IInv, TypeOK
  <2>3. Head(src.unknown) \in UnknownField
    BY <2>1, <2>2, HeadTailProperties
  <2> QED
    BY <1>1, <1>2, <2>1, <2>3, AppendedUnknown DEF Plain
<1>5. CASE MergeFails \/ MergeDone
  <2>1. /\ Fail \/ Finish("ok")
        /\ fields' = fields /\ unknown_fields' = unknown_fields
    BY <1>5 DEF MergeFails, MergeDone
  <2>2. pc' = "idle"
    BY <2>1 DEF Fail, Finish
  <2> QED
    BY <1>1, <1>2, <2>1, <2>2, NothingWritten DEF Plain
<1> QED
  BY <1>3, <1>4, <1>5 DEF Merge

(* Reading the input, before the deduplication.                             *)
LEMMA ReadSteps ==
    ASSUME IInv, Decode, ~denormalized', pc \in {"decode", "packed"}, pc' # "dedup"
    PROVE  AbstractStep
<1>1. ~denormalized /\ Plain /\ WellFormed(fields)
  BY StaysLost DEF Decode, DecodeField, DecodeUnknown, DecodePacked, PackedElement,
     PackedUnknown, PackedDone, DecodeFails, DecodeEnd, Compact, CompactNext, CompactFails,
     DecodeDone, Plain, IInv, StoreOK
<1>2. ASSUME NEW f \in Field, NEW v \in ValuesFor(f, 1), DecodeField(f, v)
      PROVE  AbstractStep
  BY <1>1, <1>2, NothingWritten DEF DecodeField, Plain
<1>3. ASSUME NEW n \in Field \cup UnknownNumber, NEW d \in Datum,
             fields' = fields, Plain', KeepUnknown(n, d)
      PROVE  AbstractStep
  <2>1. [number |-> n, data |-> d] \in UnknownField
    BY DEF UnknownField
  <2> QED
    BY <1>1, <1>3, <2>1, AppendedUnknown DEF KeepUnknown
<1>4. ASSUME NEW n \in Field \cup UnknownNumber, NEW d \in Datum, DecodeUnknown(n, d)
      PROVE  AbstractStep
  <2>1. fields' = fields /\ Plain' /\ KeepUnknown(n, d)
    BY <1>1, <1>4 DEF DecodeUnknown, Plain
  <2> QED
    BY <1>3, <2>1
<1>5. ASSUME NEW d \in Datum, PackedUnknown(d)
      PROVE  AbstractStep
  <2>1. fields' = fields /\ Plain' /\ KeepUnknown(fld, d) /\ fld \in Field
    BY <1>1, <1>5 DEF PackedUnknown, Plain, IInv, FrameOK
  <2> QED
    BY <1>3, <2>1
<1>6. ASSUME NEW f \in Field, DecodePacked(f)
      PROVE  AbstractStep
  <2>1. /\ f \in Repeated /\ fields' = Created(f) /\ pc' = "packed"
        /\ unknown_fields' = unknown_fields
    BY <1>6 DEF DecodePacked
  <2>2. Numbers(fields) \cap Siblings(f) = {}
    BY <2>1, RepeatedHasNoSiblings DEF isRepeatedLike
  <2>3. Contents(fields', {}) = Contents(fields, {})
    BY <1>1, <2>1, <2>2, CreatedSays
  <2>4. Said' = Said /\ LiveUnknown' = LiveUnknown
    BY <1>1, <2>1, <2>3, PlainIs, PlainIsNext DEF Plain
  <2> QED
    BY <1>1, <2>4, InvisibleStep
<1>7. ASSUME NEW d \in Datum, PackedElement(d)
      PROVE  AbstractStep
  <2> DEFINE vs == Values(fields, fld)
             v == Scalar(d)
  <2>1. /\ pc = "packed" /\ pc' = "packed" /\ unknown_fields' = unknown_fields
        /\ fields' = WithValues(fields, fld, Append(vs, v))
    BY <1>7 DEF PackedElement
  <2>2. /\ fld \in Repeated /\ fld \in Numbers(fields) /\ fld \in Field
        /\ Kind[fld] \in {"scalar", "closed_enum"}
    BY <2>1 DEF IInv, FrameOK, StoreOK
  <2>3. v \in ValuesFor(fld, MaxBody)
    BY <2>2 DEF ValuesFor
  <2>4. vs \in Seq(Value) /\ v \in Value
    BY <1>1, <2>2, <2>3, ValuesFit, ValuesForAreValues, BoundAssumption DEF Fits
  <2>5. Fits(fld, Append(vs, v))
    BY <2>2, <2>4, AppendProperties DEF Fits, isRepeatedLike
  <2> HIDE DEF vs, v
  <2>6. Meaning(fld, Append(vs, v)) = WrittenOver(fld, Meaning(fld, vs), v)
    <3>1. Bodies(Append(vs, v)) = Append(Bodies(vs), v.body)
      BY <2>4, BodiesAppend
    <3>2. Meaning(fld, Append(vs, v)) = Bodies(Append(vs, v)) /\ Meaning(fld, vs) = Bodies(vs)
      BY <2>2, MeaningPlain
    <3> QED
      BY <2>2, <3>1, <3>2 DEF WrittenOver
  <2>7. Plain'
    BY <2>1 DEF Plain
  <2> QED
    BY <1>1, <2>1, <2>2, <2>3, <2>5, <2>6, <2>7, ValuesWritten DEF vs
<1>8. CASE PackedDone \/ DecodeFails
  <2>1. /\ Return \/ Fail
        /\ fields' = fields /\ unknown_fields' = unknown_fields
    BY <1>8 DEF PackedDone, DecodeFails
  <2>2. Plain'
    BY <2>1, DoneGoes DEF Plain
  <2> QED
    BY <1>1, <2>1, <2>2, NothingWritten
<1>9. ~(DecodeEnd \/ Compact \/ CompactNext \/ CompactFails \/ DecodeDone)
  BY DEF DecodeEnd, Compact, CompactNext, CompactFails, DecodeDone
<1> QED
  BY <1>2, <1>4, <1>5, <1>6, <1>7, <1>8, <1>9 DEF Decode

-----------------------------------------------------------------------------
(* The deduplication at the end of a decode.                                *)

\* What the message says while the entry at i is deduplicated.
DedupContents(fs, i, r, w) == [f \in Field |-> Meaning(f, ShownAt(fs, i, r, w, f))]

(* The entries that are not deduplicated show all their values.              *)
LEMMA ShownElsewhere ==
    ASSUME NEW fs, NEW i, NEW r, NEW w, NEW f,
           ~(i <= Len(fs) /\ fs[i].number = f /\ Kind[f] = "map" /\ Len(fs[i].values) >= 2)
    PROVE  ShownAt(fs, i, r, w, f) = Values(fs, f)
BY DEF ShownAt

(* Before the first slot and outside maps nothing is in motion.             *)
LEMMA DedupBegins ==
    ASSUME NEW fs, WellFormed(fs), NEW i \in Nat \ {0}
    PROVE  DedupContents(fs, i, 1, 1) = Contents(fs, {})
<1>1. ASSUME NEW f \in Field
      PROVE  ShownAt(fs, i, 1, 1, f) = Values(fs, f)
  <2>1. CASE i <= Len(fs) /\ fs[i].number = f /\ Kind[f] = "map" /\ Len(fs[i].values) >= 2
    <3>1. i \in DOMAIN fs
      BY <2>1, LenProperties DEF WellFormed
    <3>2. fs[i].values = Values(fs, f)
      BY <2>1, <3>1, ValuesOf
    <3>3. Values(fs, f) \in Seq(Value)
      BY ValuesFit DEF Fits
    <3>4. Live(Values(fs, f), 1, 1) = Values(fs, f)
      BY <3>3, LiveBefore
    <3> QED
      BY <2>1, <3>2, <3>4 DEF ShownAt
  <2>2. CASE ~(i <= Len(fs) /\ fs[i].number = f /\ Kind[f] = "map" /\ Len(fs[i].values) >= 2)
    BY <2>2, ShownElsewhere
  <2> QED
    BY <2>1, <2>2
<1> QED
  BY <1>1 DEF DedupContents, Contents

LEMMA DedupSaysIs ==
    pc = "dedup" /\ WellFormed(fields) /\ idx \in Nat \ {0}
      => Said = DedupContents(fields, idx, rd, wr)
BY DedupSays DEF DedupContents

LEMMA DedupSaysIsNext ==
    (pc = "dedup" /\ WellFormed(fields) /\ idx \in Nat \ {0}
       => Said = DedupContents(fields, idx, rd, wr))'
BY DedupSaysIs, PTL

(* One iteration keeps the last payload of every key.                       *)
LEMMA CompactSays ==
    ASSUME IInv, Compact
    PROVE  DedupContents(fields', idx, rd', wr') = DedupContents(fields, idx, rd, wr)
<1> DEFINE n == fields[idx].number
           vs == fields[idx].values
           new == Compacted(vs)
           end == IF vs[rd].key \in Keys(SubSeq(vs, 1, wr - 1)) THEN wr ELSE wr + 1
<1>1. /\ pc = "dedup" /\ Duplicable /\ rd <= Len(vs)
      /\ fields' = SetValues(fields, idx, new) /\ wr' = end /\ rd' = rd + 1
  BY DEF Compact
<1>2. /\ WellFormed(fields) /\ fields \in Seq(Entry) /\ Len(fields) \in Nat
      /\ DOMAIN fields = 1 .. Len(fields)
      /\ idx \in Nat \ {0} /\ rd \in Nat \ {0} /\ wr \in Nat \ {0}
  BY LenProperties DEF IInv, TypeOK, StoreOK
<1>3. /\ idx \in DOMAIN fields /\ Kind[n] = "map" /\ Len(vs) >= 2
      /\ wr <= rd
      /\ \A a, b \in 1 .. wr - 1 : vs[a].key = vs[b].key => a = b
  BY <1>1, <1>2 DEF Duplicable, IInv, IndexesOK, MapsOK
<1>4. vs \in Seq(Value) /\ Len(vs) \in Nat
  <2>1. fields[idx] \in Entry
    BY <1>2, <1>3, ElementOfSeq
  <2> QED
    BY <2>1, LenProperties DEF Entry
<1>5. rd \in 1 .. Len(vs) /\ wr \in 1 .. rd
  BY <1>1, <1>2, <1>3, <1>4
<1>6. KeysOnce(vs, wr)
  BY <1>3 DEF KeysOnce
<1> HIDE DEF vs
<1>7. new \in Seq(Value) /\ Len(new) = Len(vs)
  BY <1>3, <1>4, <1>5, CompactedIs
<1>8. Meaning(n, Live(new, rd + 1, end)) = Meaning(n, Live(vs, rd, wr))
  BY <1>3, <1>4, <1>5, <1>6, CompactedMeans
<1>9. Fits(n, new)
  BY <1>3, <1>7 DEF Fits, isRepeatedLike
<1> HIDE DEF new, end
<1>10. /\ WellFormed(fields') /\ Len(fields') = Len(fields)
       /\ fields'[idx].number = n /\ fields'[idx].values = new
  BY <1>1, <1>2, <1>3, <1>9, SetValuesIs
<1>11. ASSUME NEW f \in Field
       PROVE  Meaning(f, ShownAt(fields', idx, rd', wr', f))
                = Meaning(f, ShownAt(fields, idx, rd, wr, f))
  <2>1. CASE f = n
    <3>1. ShownAt(fields', idx, rd', wr', f) = Live(new, rd + 1, end)
      BY <1>1, <1>2, <1>3, <1>7, <1>10, <2>1 DEF ShownAt
    <3>2. ShownAt(fields, idx, rd, wr, f) = Live(vs, rd, wr)
      BY <1>2, <1>3, <2>1 DEF ShownAt, vs
    <3> QED
      BY <1>8, <2>1, <3>1, <3>2
  <2>2. CASE f # n
    <3>1. Values(fields', f) = Values(fields, f)
      BY <1>1, <1>2, <1>3, <1>9, <2>2, ValuesSet
    <3>2. ShownAt(fields', idx, rd', wr', f) = Values(fields', f)
      BY <1>10, <2>2, ShownElsewhere
    <3>3. ShownAt(fields, idx, rd, wr, f) = Values(fields, f)
      BY <2>2, ShownElsewhere
    <3> QED
      BY <3>1, <3>2, <3>3
  <2> QED
    BY <2>1, <2>2
<1> QED
  BY <1>11 DEF DedupContents

(* What an entry keeps when it is cut is what was live.                     *)
LEMMA CompactNextSays ==
    ASSUME IInv, IInv', CompactNext
    PROVE  DedupContents(fields', idx', rd', wr') = DedupContents(fields, idx, rd, wr)
<1> DEFINE n == fields[idx].number
           vs == fields[idx].values
           new == SubSeq(vs, 1, wr - 1)
<1>1. pc = "dedup" /\ idx <= Len(fields) /\ idx' = idx + 1 /\ rd' = 1 /\ wr' = 1
  BY DEF CompactNext
<1>2. /\ WellFormed(fields) /\ fields \in Seq(Entry) /\ Len(fields) \in Nat
      /\ DOMAIN fields = 1 .. Len(fields) /\ WellFormed(fields')
      /\ idx \in Nat \ {0} /\ rd \in Nat \ {0} /\ wr \in Nat \ {0} /\ idx' \in Nat \ {0}
  BY LenProperties DEF IInv, TypeOK, StoreOK
<1>3. idx \in DOMAIN fields
  BY <1>1, <1>2
<1>4. DedupContents(fields', idx', rd', wr') = Contents(fields', {})
  BY <1>1, <1>2, DedupBegins
<1>5. CASE ~Duplicable
  <2>1. fields' = fields
    BY <1>5 DEF CompactNext
  <2>2. \A f \in Field : ShownAt(fields, idx, rd, wr, f) = Values(fields, f)
    BY <1>5, ShownElsewhere DEF Duplicable
  <2> QED
    BY <1>4, <2>1, <2>2 DEF DedupContents, Contents
<1>6. CASE Duplicable
  <2>1. rd > Len(vs) /\ fields' = SetValues(fields, idx, new)
    BY <1>6 DEF CompactNext
  <2>2. Kind[n] = "map" /\ Len(vs) >= 2 /\ wr <= rd /\ rd <= Len(vs) + 1
    BY <1>1, <1>6 DEF Duplicable, IInv, IndexesOK
  <2>3. vs \in Seq(Value) /\ Len(vs) \in Nat
    <3>1. fields[idx] \in Entry
      BY <1>2, <1>3, ElementOfSeq
    <3> QED
      BY <3>1, LenProperties DEF Entry
  <2>4. rd = Len(vs) + 1 /\ wr \in 1 .. Len(vs) + 1
    BY <1>2, <2>1, <2>2, <2>3
  <2>5. ShownAt(fields, idx, rd, wr, n) = Live(vs, rd, wr)
    BY <1>1, <2>2 DEF ShownAt
  <2> HIDE DEF vs
  <2>6. new \in Seq(Value)
    <3>1. 1 \in Int /\ wr - 1 \in Int /\ \A j \in 1 .. wr - 1 : vs[j] \in Value
      BY <2>3, <2>4, ElementOfSeq
    <3> QED
      BY <2>3, <3>1, SubSeqProperties
  <2>7. Live(vs, Len(vs) + 1, wr) = new
    BY <2>3, <2>4, LiveAfter
  <2>8. Fits(n, new)
    BY <2>2, <2>6 DEF Fits, isRepeatedLike
  <2> HIDE DEF new
  <2>9. ASSUME NEW f \in Field
        PROVE  Values(fields', f) = ShownAt(fields, idx, rd, wr, f)
    <3>1. Values(fields', f) = IF f = n THEN new ELSE Values(fields, f)
      BY <1>2, <1>3, <2>1, <2>8, ValuesSet
    <3>2. CASE f = n
      BY <2>4, <2>5, <2>7, <3>1, <3>2
    <3>3. CASE f # n
      BY <3>1, <3>3, ShownElsewhere
    <3> QED
      BY <3>2, <3>3
  <2> QED
    BY <1>4, <2>9 DEF DedupContents, Contents
<1> QED
  BY <1>5, <1>6

(* No step of the deduplication changes what the message says.              *)
LEMMA DedupStep ==
    ASSUME IInv, IInv', [Next]_vars, pc = "dedup"
    PROVE  Said' = Said
<1>1. WellFormed(fields) /\ idx \in Nat \ {0} /\ WellFormed(fields') /\ idx' \in Nat \ {0}
  BY DEF IInv, TypeOK, StoreOK
<1>2. Said = DedupContents(fields, idx, rd, wr)
  BY <1>1, DedupSaysIs
<1>3. CASE Compact
  <2>1. pc' = "dedup" /\ idx' = idx
    BY <1>3 DEF Compact
  <2> QED
    BY <1>1, <1>2, <1>3, <2>1, DedupSaysIsNext, CompactSays
<1>4. CASE CompactNext
  <2>1. pc' = "dedup"
    BY <1>4 DEF CompactNext
  <2> QED
    BY <1>1, <1>2, <1>4, <2>1, DedupSaysIsNext, CompactNextSays
<1>5. CASE CompactFails \/ DecodeDone
  <2>1. fields' = fields /\ pc' = "idle"
    BY <1>5 DEF CompactFails, DecodeDone, Fail, Finish
  <2>2. DedupContents(fields, idx, rd, wr) = Contents(fields, {})
    <3>1. CASE CompactFails
      <4>1. rd = 1 /\ wr = 1
        BY <3>1 DEF CompactFails, IInv, IndexesOK, TypeOK
      <4> QED
        BY <1>1, <4>1, DedupBegins
    <3>2. CASE DecodeDone
      <4>1. ~(idx <= Len(fields))
        <5>1. idx > Len(fields) /\ idx \in Nat /\ fields \in Seq(Entry)
          BY <1>1, <3>2 DEF DecodeDone, WellFormed
        <5> QED
          BY <5>1, LenProperties
      <4>2. \A f \in Field : ShownAt(fields, idx, rd, wr, f) = Values(fields, f)
        BY <4>1, ShownElsewhere
      <4> QED
        BY <4>2 DEF DedupContents, Contents
    <3> QED
      BY <1>5, <3>1, <3>2
  <2> QED
    BY <1>2, <2>1, <2>2, PlainIsNext
<1>6. CASE UNCHANGED vars
  BY <1>6 DEF vars, frame, Said, Holds, Shown, LiveValues, Duplicable
<1>7. Compact \/ CompactNext \/ CompactFails \/ DecodeDone \/ UNCHANGED vars
  BY DEF Next, Call, CallAdd, CallSet, CallMergeFrom, CallCopyFrom, CallDecode, Begin,
     Mutate, CallClearField, CallRemoveRepeatedValue, CallSwapRepeatedValues,
     CallSetRepeatedValue, CallClearMapEntry, CallClearOneof, CallClear,
     CallAppendUnknownRaw, CallClearUnknown, CallClearUnknownByNumber, Immediate,
     Add, MergeSingular, MergeSingularFails, NothingToMerge, ClearSibling, SkipSibling,
     SiblingsCleared, Create, CreateFails, Place, PlaceFails,
     Forget, ForgetUnknown, RetainUnknown, UnknownForgotten,
     Merge, MergeField, MergeUnknown, MergeFails, MergeDone,
     Decode, DecodeField, DecodeUnknown, DecodePacked, PackedElement, PackedUnknown,
     PackedDone, DecodeFails, DecodeEnd, Reading
<1> QED
  BY <1>3, <1>4, <1>5, <1>6, <1>7

(* Every step of decode is a step of Message or does not show.               *)
LEMMA DecodeSteps ==
    ASSUME IInv, IInv', Decode, ~denormalized'
    PROVE  AbstractStep
<1>1. ~denormalized /\ WellFormed(fields) /\ idx \in Nat \ {0}
  BY StaysLost DEF Decode, DecodeField, DecodeUnknown, DecodePacked, PackedElement,
     PackedUnknown, PackedDone, DecodeFails, DecodeEnd, Compact, CompactNext, CompactFails,
     DecodeDone, IInv, StoreOK, TypeOK
<1>2. CASE DecodeEnd
  <2>1. /\ pc = "decode" /\ pc' = "dedup" /\ fields' = fields
        /\ idx' = idx /\ rd' = rd /\ wr' = wr /\ rd = 1 /\ wr = 1
        /\ unknown_fields' = unknown_fields
    BY <1>2 DEF DecodeEnd, frame, IInv, FrameOK
  <2>2. Said' = DedupContents(fields, idx, 1, 1)
    BY <1>1, <2>1, DedupSaysIsNext
  <2>3. Said' = Said /\ LiveUnknown' = LiveUnknown
    BY <1>1, <2>1, <2>2, DedupBegins, PlainIs, PlainIsNext
  <2> QED
    BY <1>1, <2>3, InvisibleStep
<1>3. CASE pc = "dedup"
  <2>1. Compact \/ CompactNext \/ CompactFails \/ DecodeDone
    BY <1>3 DEF Decode, DecodeField, DecodeUnknown, DecodePacked, PackedElement,
       PackedUnknown, PackedDone, DecodeFails, DecodeEnd, Reading
  <2>2. unknown_fields' = unknown_fields /\ pc' \in {"dedup", "idle"}
    BY <1>3, <2>1 DEF Compact, CompactNext, CompactFails, DecodeDone, Fail, Finish
  <2>3. LiveUnknown' = LiveUnknown
    BY <1>3, <2>2, PlainIs, PlainIsNext
  <2>4. Said' = Said
    BY <1>3, DedupStep DEF Next
  <2> QED
    BY <1>1, <2>3, <2>4, InvisibleStep
<1>4. CASE pc # "dedup" /\ ~DecodeEnd
  <2>1. pc \in {"decode", "packed"} /\ pc' # "dedup"
    BY <1>4 DEF Decode, DecodeField, DecodeUnknown, DecodePacked, PackedElement,
       PackedUnknown, PackedDone, DecodeFails, Compact, CompactNext, CompactFails,
       DecodeDone, Reading, Return, Fail, Finish
  <2> QED
    BY <2>1, ReadSteps
<1> QED
  BY <1>2, <1>3, <1>4

-----------------------------------------------------------------------------
(* The results.                                                             *)

(* Before the first call the message is empty.                              *)
LEMMA BeginsEmpty ==
    ASSUME Init
    PROVE  Abstract!Init
<1>1. fields = <<>> /\ pc = "idle" /\ unknown_fields = <<>> /\ denormalized = FALSE
  BY DEF Init
<1>2. Said = Nothing /\ LiveUnknown = <<>>
  BY <1>1, PlainIs, ContentsEmpty, SchemaIs
<1> QED
  BY <1>1, <1>2, SchemaIs DEF Abstract!Init

(* Every step of every call is a step of Message or does not show there.    *)
LEMMA StepsImplement ==
    ASSUME IInv, IInv', ArgsOK, [Next]_vars
    PROVE  AbstractStep
<1>1. denormalized \in BOOLEAN
  BY DEF IInv, TypeOK
<1>2. CASE denormalized'
  BY <1>1, <1>2, LostStep
<1>3. CASE ~denormalized' /\ Next
  BY <1>3, CallSteps, MutateSteps, AddSteps, ForgetSteps, MergeSteps, DecodeSteps DEF Next
<1>4. CASE ~denormalized' /\ UNCHANGED vars
  <2>1. Said' = Said /\ LiveUnknown' = LiveUnknown /\ ~denormalized
    BY <1>4 DEF vars, frame, Said, Holds, Shown, LiveValues, Duplicable, LiveUnknown
  <2> QED
    BY <1>4, <2>1, InvisibleStep
<1> QED
  BY <1>2, <1>3, <1>4

(* A DynamicMessage is a Message: for every message type, source and bound, *)
(* each step of add, set, mergeFrom, copyFrom, decode and the mutations, of *)
(* the loops inside them and of a call that runs out of memory, writes,     *)
(* merges, clears or removes what Message does, loses the contents where    *)
(* Message does, or shows nothing.                                          *)
THEOREM Implementation == Spec => ImplementsMessage
<1>1. Init => Abstract!Init
  BY BeginsEmpty
<1>2. (IInv /\ ArgsOK) /\ (IInv /\ ArgsOK)' /\ [Next]_vars
        => [Abstract!Next]_(Abstract!vars)
  BY StepsImplement DEF AbstractStep
<1> QED
  BY <1>1, <1>2, ArgumentsFit, PTL DEF Spec, ImplementsMessage, Abstract!Spec

(* deduplicateDecodedMapFields, which moves values within the array it is   *)
(* reading, changes at no step what a field holds.                          *)
THEOREM DedupKeepsMeaning == Spec => DedupInvisible
<1>1. IInv /\ IInv' /\ [Next]_vars
        => [pc = "dedup" => \A f \in Field : Holds(f)' = Holds(f)]_vars
  <2> SUFFICES ASSUME IInv, IInv', [Next]_vars, pc = "dedup", NEW f \in Field
               PROVE  Holds(f)' = Holds(f)
    OBVIOUS
  <2>1. Said' = Said
    BY DedupStep
  <2>2. Said[f] = Holds(f) /\ Said'[f] = Holds(f)'
    BY DEF Said
  <2> QED
    BY <2>1, <2>2
<1> QED
  BY <1>1, Inductive, PTL DEF Spec, DedupInvisible

(* An add or set of a singular or map field that runs out of memory leaves  *)
(* the field set if it was when the call began.                             *)
THEOREM FailedSetKeeps == Spec => FailedSetKeepsField
<1>1. (IInv /\ ArgsOK) /\ (IInv /\ ArgsOK)' /\ [Next]_vars
        => [SettingOne /\ Returns("error") /\ fld \in prior
              => fld \in PresentNumbers(fields')]_vars
  <2> SUFFICES ASSUME IInv, IInv', ArgsOK, Next, SettingOne, Returns("error"), fld \in prior
               PROVE  fld \in PresentNumbers(fields')
    BY DEF vars, Returns, frame
  <2>1. has(fields, fld)
    BY DEF ArgsOK
  <2>2. WellFormed(fields) /\ WellFormed(fields') /\ op \in {"add", "set"}
    BY DEF IInv, StoreOK, SettingOne
  <2>3. pc \in {"add", "clear", "create", "place"} /\ outcome' = "error" /\ op' = "none"
    BY <2>2 DEF IInv, TypeOK, FrameOK, Label, Returns
  <2>4. fields' = fields \/ MergeSingularFails
    <3>1. Add
      BY <2>2, <2>3 DEF Next, Call, CallAdd, CallSet, CallMergeFrom, CallCopyFrom, CallDecode,
         Begin, Mutate, CallClearField, CallRemoveRepeatedValue, CallSwapRepeatedValues,
         CallSetRepeatedValue, CallClearMapEntry, CallClearOneof, CallClear, Immediate,
         CallAppendUnknownRaw, CallClearUnknown, CallClearUnknownByNumber,
         Forget, ForgetUnknown, RetainUnknown, UnknownForgotten,
         Merge, MergeField, MergeUnknown, MergeFails, MergeDone,
         Decode, DecodeField, DecodeUnknown, DecodePacked, PackedElement, PackedUnknown,
         PackedDone, DecodeFails, DecodeEnd, Compact, CompactNext, CompactFails, DecodeDone,
         Reading
    <3>2. ~Return
      BY <2>2, <2>3 DEF Return, Finish
    <3>3. op' # op
      BY <2>2, <2>3
    <3> QED
      BY <3>1, <3>2, <3>3 DEF Add, MergeSingular, NothingToMerge, ClearSibling, SkipSibling,
         SiblingsCleared, Create, CreateFails, Place, PlaceFails, frame
  <2>5. CASE fields' = fields
    BY <2>1, <2>2, <2>5, PresentIs DEF has
  <2>6. CASE MergeSingularFails
    <3> DEFINE p == Position(fields, fld)
    <3>1. PICK x : fields' = SetValues(fields, p, <<x>>)
      BY <2>6 DEF MergeSingularFails, Merged, WithValues
    <3>2. fld \in Numbers(fields)
      BY <2>1 DEF has, Values
    <3>3. p \in DOMAIN fields /\ fields[p].number = fld
      BY <2>2, <3>2, PositionFound DEF WellFormed
    <3> HIDE DEF p
    <3>4. p \in DOMAIN fields' /\ fields'[p] = [number |-> fld, values |-> <<x>>]
      BY <3>1, <3>3 DEF SetValues
    <3>5. fields'[p].number = fld /\ fields'[p].values # <<>>
      BY <3>4
    <3> QED
      BY <3>4, <3>5 DEF PresentNumbers
  <2> QED
    BY <2>4, <2>5, <2>6
<1> QED
  BY <1>1, ArgumentsFit, PTL DEF Spec, FailedSetKeepsField
=============================================================================
