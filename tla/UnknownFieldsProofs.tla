------------------------ MODULE UnknownFieldsProofs ------------------------
(***************************************************************************)
(* Proofs about UnknownFields: what a message stores, who owns it, and     *)
(* what the calls do to it.                                                *)
(***************************************************************************)
EXTENDS UnknownFieldsSafety, CommonProofs

-----------------------------------------------------------------------------
(* Skipping a field, tag by tag *)

(* What the tag behind i does while the groups of open are: where it, or   *)
(* the value it starts, ends, and the groups that are open then; a field's *)
(* own tag has at most longest bytes.                                      *)
Refused == [ok |-> FALSE, to |-> 0, open |-> <<>>]

Move(s, i, e, open, longest) ==
    LET tag   == readTag(s, i, e, TagLimit(open, longest))
        value == skipValue(s, tag.index, e, tag.wire_type)
    IN  IF ~tag.ok THEN Refused
        ELSE IF tag.wire_type = EndGroup
        THEN IF open # <<>> /\ tag.number = Last(open)
             THEN [ok |-> TRUE, to |-> tag.index, open |-> Front(open)] ELSE Refused
        ELSE IF tag.wire_type = StartGroup
        THEN IF Len(open) < RecursionLimit
             THEN [ok |-> TRUE, to |-> tag.index, open |-> Append(open, tag.number)]
             ELSE Refused
        ELSE IF value.ok THEN [ok |-> TRUE, to |-> value.index, open |-> open] ELSE Refused

\* What SkipTag says of a move.
Skipped(m, Skip) ==
    IF ~m.ok THEN Failed ELSE IF m.open = <<>> THEN m.to ELSE Skip[<<m.to, m.open>>]

LEMMA SkipTagIs ==
    ASSUME NEW longest, NEW s, NEW i, NEW open, NEW Skip
    PROVE  SkipTag(s, i, open, longest, Skip) = Skipped(Move(s, i, Len(s), open, longest), Skip)
<1>1. PICK limit, tag : limit = TagLimit(open, longest) /\ tag = readTag(s, i, Len(s), limit)
  OBVIOUS
<1>2. PICK value : value = skipValue(s, tag.index, Len(s), tag.wire_type)
  OBVIOUS
<1>3. PICK m : m = Move(s, i, Len(s), open, longest)
  OBVIOUS
<1>4. ~Refused.ok
  BY DEF Refused
<1>5. \A x, y : /\ [ok |-> TRUE, to |-> x, open |-> y].ok
                /\ [ok |-> TRUE, to |-> x, open |-> y].to = x
                /\ [ok |-> TRUE, to |-> x, open |-> y].open = y
  OBVIOUS
<1>6. CASE ~tag.ok
  <2>1. SkipTag(s, i, open, longest, Skip) = Failed
    BY <1>1, <1>6, Zenon DEF SkipTag
  <2>2. m = Refused
    BY <1>1, <1>3, <1>6, Zenon DEF Move
  <2>3. QED
    BY <1>3, <1>4, <2>1, <2>2, Zenon DEF Skipped
<1>7. CASE tag.ok /\ tag.wire_type = EndGroup
  <2>1. CASE open # <<>> /\ tag.number = Last(open)
    <3>1. SkipTag(s, i, open, longest, Skip) =
              IF Front(open) = <<>> THEN tag.index ELSE Skip[<<tag.index, Front(open)>>]
      BY <1>1, <1>7, <2>1, Zenon DEF SkipTag
    <3>2. m = [ok |-> TRUE, to |-> tag.index, open |-> Front(open)]
      BY <1>1, <1>3, <1>7, <2>1, Zenon DEF Move
    <3>3. m.ok /\ m.to = tag.index /\ m.open = Front(open)
      BY <1>5, <3>2, Zenon
    <3>4. QED
      BY <1>3, <3>1, <3>3, Zenon DEF Skipped
  <2>2. CASE ~(open # <<>> /\ tag.number = Last(open))
    <3>1. SkipTag(s, i, open, longest, Skip) = Failed
      BY <1>1, <1>7, <2>2, Zenon DEF SkipTag
    <3>2. m = Refused
      BY <1>1, <1>3, <1>7, <2>2, Zenon DEF Move
    <3>3. QED
      BY <1>3, <1>4, <3>1, <3>2, Zenon DEF Skipped
  <2>3. QED
    BY <2>1, <2>2, Zenon
<1>8. CASE tag.ok /\ tag.wire_type # EndGroup /\ tag.wire_type = StartGroup
  <2>1. CASE Len(open) < RecursionLimit
    <3>1. SkipTag(s, i, open, longest, Skip) =
              IF Append(open, tag.number) = <<>> THEN tag.index
              ELSE Skip[<<tag.index, Append(open, tag.number)>>]
      BY <1>1, <1>8, <2>1, Zenon DEF SkipTag
    <3>2. m = [ok |-> TRUE, to |-> tag.index, open |-> Append(open, tag.number)]
      BY <1>1, <1>3, <1>8, <2>1, Zenon DEF Move
    <3>3. m.ok /\ m.to = tag.index /\ m.open = Append(open, tag.number)
      BY <1>5, <3>2, Zenon
    <3>4. QED
      BY <1>3, <3>1, <3>3, Zenon DEF Skipped
  <2>2. CASE ~(Len(open) < RecursionLimit)
    <3>1. SkipTag(s, i, open, longest, Skip) = Failed
      BY <1>1, <1>8, <2>2, Zenon DEF SkipTag
    <3>2. m = Refused
      BY <1>1, <1>3, <1>8, <2>2, Zenon DEF Move
    <3>3. QED
      BY <1>3, <1>4, <3>1, <3>2, Zenon DEF Skipped
  <2>3. QED
    BY <2>1, <2>2, Zenon
<1>9. CASE tag.ok /\ tag.wire_type # EndGroup /\ tag.wire_type # StartGroup
  <2>1. SkipTag(s, i, open, longest, Skip) =
            IF value.ok THEN (IF open = <<>> THEN value.index ELSE Skip[<<value.index, open>>])
            ELSE Failed
    BY <1>1, <1>2, <1>9, Zenon DEF SkipTag
  <2>2. m = IF value.ok THEN [ok |-> TRUE, to |-> value.index, open |-> open] ELSE Refused
    BY <1>1, <1>2, <1>3, <1>9, Zenon DEF Move
  <2>3. CASE value.ok
    <3>1. m.ok /\ m.to = value.index /\ m.open = open
      BY <1>5, <2>2, <2>3, Zenon
    <3>2. QED
      BY <1>3, <2>1, <2>3, <3>1, Zenon DEF Skipped
  <2>4. CASE ~value.ok
    <3>1. ~m.ok
      BY <1>4, <2>2, <2>4, Zenon
    <3>2. QED
      BY <1>3, <2>1, <2>4, <3>1, Zenon DEF Skipped
  <2>5. QED
    BY <2>3, <2>4, Zenon
<1>10. QED
  BY <1>6, <1>7, <1>8, <1>9, Zenon

\* No tag begins behind the end.
LEMMA TagInFront ==
    ASSUME NEW s \in Seq(Byte), NEW i \in Nat, NEW e \in Nat, NEW m, readTag(s, i, e, m).ok
    PROVE  i < e
<1> SUFFICES ASSUME ~(i < e) PROVE FALSE
  OBVIOUS
<1>1. \A k \in 1 .. MaxVarint : ~(i + k <= e)
  BY DEF MaxVarint
<1>2. readVarint(s, i, e) =
          [ok |-> FALSE, index |-> IF e - i < MaxVarint THEN e ELSE i + MaxVarint]
  BY <1>1, Zenon DEF readVarint
<1>3. ~readVarint(s, i, e).ok
  BY <1>2
<1>4. QED
  BY <1>3, Zenon DEF readTag

LEMMA FrontIs ==
    ASSUME NEW S, NEW q \in Seq(S), q # <<>>
    PROVE  Front(q) \in Seq(S) /\ Last(q) \in S
  BY DEF Front, Last

LEMMA MoveInside ==
    ASSUME NEW longest, NEW s \in Seq(Byte), NEW i \in Nat, NEW e \in Nat, e <= Len(s),
           NEW open \in Seq(Nat), Move(s, i, e, open, longest).ok
    PROVE  /\ Move(s, i, e, open, longest).to \in Nat
           /\ i < Move(s, i, e, open, longest).to /\ Move(s, i, e, open, longest).to <= e
           /\ Move(s, i, e, open, longest).open \in Seq(Nat)
<1>1. PICK limit, tag : limit = TagLimit(open, longest) /\ tag = readTag(s, i, e, limit)
  OBVIOUS
<1>2. PICK value : value = skipValue(s, tag.index, e, tag.wire_type)
  OBVIOUS
<1>3. PICK m : m = Move(s, i, e, open, longest)
  OBVIOUS
<1>4. ~Refused.ok
  BY DEF Refused
<1>5. m.ok
  BY <1>3
<1>6. tag.ok
  BY <1>1, <1>3, <1>4, <1>5, Zenon DEF Move
<1>7. i < e
  BY <1>1, <1>6, TagInFront
<1>8. /\ tag.index \in Nat /\ i < tag.index /\ tag.index <= e
      /\ tag.number \in Nat /\ tag.wire_type \in WireType
  <2>1. i <= e
    BY <1>7
  <2>2. readTag(s, i, e, limit).ok
    BY <1>1, <1>6
  <2>3. QED
    BY <1>1, <2>1, <2>2, TagInside
<1>9. CASE tag.wire_type = EndGroup
  <2>1. open # <<>> /\ m = [ok |-> TRUE, to |-> tag.index, open |-> Front(open)]
    BY <1>1, <1>3, <1>4, <1>5, <1>9, Zenon DEF Move
  <2>2. Front(open) \in Seq(Nat)
    BY <2>1, FrontIs
  <2>3. m.to = tag.index /\ m.open = Front(open)
    BY <2>1
  <2>4. QED
    BY <1>3, <1>8, <2>2, <2>3
<1>10. CASE tag.wire_type # EndGroup /\ tag.wire_type = StartGroup
  <2>1. m = [ok |-> TRUE, to |-> tag.index, open |-> Append(open, tag.number)]
    BY <1>1, <1>3, <1>4, <1>5, <1>10, Zenon DEF Move
  <2>2. Append(open, tag.number) \in Seq(Nat)
    BY <1>8
  <2>3. m.to = tag.index /\ m.open = Append(open, tag.number)
    BY <2>1
  <2>4. QED
    BY <1>3, <1>8, <2>2, <2>3
<1>11. CASE tag.wire_type # EndGroup /\ tag.wire_type # StartGroup
  <2>1. m = [ok |-> TRUE, to |-> value.index, open |-> open]
    BY <1>1, <1>2, <1>3, <1>4, <1>5, <1>11, Zenon DEF Move
  <2>2. value.index \in Nat /\ tag.index <= value.index /\ value.index <= e
    BY <1>2, <1>8, ValueInside
  <2>3. m.to = value.index /\ m.open = open
    BY <2>1
  <2>4. QED
    BY <1>3, <1>8, <2>2, <2>3
<1>12. QED
  BY <1>9, <1>10, <1>11, Zenon

\* A move in the slice is one in t, behind k; and where it is not refused there
\* up to the end of the slice, it is not in the slice.
ShiftedMove(k, u, v) == u.ok = v.ok /\ (v.ok => u.to = k + v.to /\ u.open = v.open)

LEMMA MoveShifts ==
    ASSUME NEW longest, NEW s \in Seq(Byte), NEW t \in Seq(Byte), NEW k, Window(s, k, t),
           NEW i \in Nat, NEW e \in Nat, i <= e, e <= Len(s), NEW open
    PROVE  ShiftedMove(k, Move(t, k + i, k + e, open, longest), Move(s, i, e, open, longest))
<1>1. PICK limit, tag : limit = TagLimit(open, longest) /\ tag = readTag(s, i, e, limit)
  OBVIOUS
<1>2. PICK there : there = readTag(t, k + i, k + e, limit)
  OBVIOUS
<1>3. ShiftedTag(k, there, tag)
  BY <1>1, <1>2, TagShifts
<1>4. /\ there.ok = tag.ok /\ there.index = k + tag.index
      /\ there.number = tag.number /\ there.wire_type = tag.wire_type
  BY <1>3, Zenon DEF ShiftedTag, Shifted
<1>5. PICK m : m = Move(s, i, e, open, longest)
  OBVIOUS
<1>6. PICK n : n = Move(t, k + i, k + e, open, longest)
  OBVIOUS
<1>7. ~Refused.ok
  BY DEF Refused
<1>8. CASE ~tag.ok
  <2>1. m = Refused /\ n = Refused
    BY <1>1, <1>2, <1>4, <1>5, <1>6, <1>8, Zenon DEF Move
  <2>2. QED
    BY <1>5, <1>6, <1>7, <2>1, Zenon DEF ShiftedMove
<1>9. CASE tag.ok
  <2>1. tag.index \in Nat /\ tag.index <= e /\ tag.wire_type \in WireType
    <3>1. readTag(s, i, e, limit).ok
      BY <1>1, <1>9
    <3>2. QED
      BY <1>1, <3>1, TagInside
  <2>2. CASE tag.wire_type = EndGroup
    <3>1. CASE open # <<>> /\ tag.number = Last(open)
      <4>1. /\ m = [ok |-> TRUE, to |-> tag.index, open |-> Front(open)]
            /\ n = [ok |-> TRUE, to |-> there.index, open |-> Front(open)]
        BY <1>1, <1>2, <1>4, <1>5, <1>6, <1>9, <2>2, <3>1, Zenon DEF Move
      <4>2. n.ok = m.ok /\ n.to = k + m.to /\ n.open = m.open
        BY <1>4, <4>1
      <4>3. QED
        BY <1>5, <1>6, <4>2, Zenon DEF ShiftedMove
    <3>2. CASE ~(open # <<>> /\ tag.number = Last(open))
      <4>1. m = Refused /\ n = Refused
        BY <1>1, <1>2, <1>4, <1>5, <1>6, <1>9, <2>2, <3>2, Zenon DEF Move
      <4>2. QED
        BY <1>5, <1>6, <1>7, <4>1, Zenon DEF ShiftedMove
    <3>3. QED
      BY <3>1, <3>2, Zenon
  <2>3. CASE tag.wire_type # EndGroup /\ tag.wire_type = StartGroup
    <3>1. CASE Len(open) < RecursionLimit
      <4>1. /\ m = [ok |-> TRUE, to |-> tag.index, open |-> Append(open, tag.number)]
            /\ n = [ok |-> TRUE, to |-> there.index, open |-> Append(open, tag.number)]
        BY <1>1, <1>2, <1>4, <1>5, <1>6, <1>9, <2>3, <3>1, Zenon DEF Move
      <4>2. n.ok = m.ok /\ n.to = k + m.to /\ n.open = m.open
        BY <1>4, <4>1
      <4>3. QED
        BY <1>5, <1>6, <4>2, Zenon DEF ShiftedMove
    <3>2. CASE ~(Len(open) < RecursionLimit)
      <4>1. m = Refused /\ n = Refused
        BY <1>1, <1>2, <1>4, <1>5, <1>6, <1>9, <2>3, <3>2, Zenon DEF Move
      <4>2. QED
        BY <1>5, <1>6, <1>7, <4>1, Zenon DEF ShiftedMove
    <3>3. QED
      BY <3>1, <3>2, Zenon
  <2>4. CASE tag.wire_type # EndGroup /\ tag.wire_type # StartGroup
    <3>1. PICK value : value = skipValue(s, tag.index, e, tag.wire_type)
      OBVIOUS
    <3>2. PICK w : w = skipValue(t, there.index, k + e, tag.wire_type)
      OBVIOUS
    <3>3. Shifted(k, w, value)
      <4>1. Shifted(k, skipValue(t, k + tag.index, k + e, tag.wire_type), value)
        BY <2>1, <3>1, ValueShifts
      <4>2. QED
        BY <1>4, <3>2, <4>1
    <3>4. w.ok = value.ok /\ w.index = k + value.index
      BY <3>3, Zenon DEF Shifted
    <3>5. /\ m = IF value.ok THEN [ok |-> TRUE, to |-> value.index, open |-> open] ELSE Refused
          /\ n = IF w.ok THEN [ok |-> TRUE, to |-> w.index, open |-> open] ELSE Refused
      BY <1>1, <1>2, <1>4, <1>5, <1>6, <1>9, <2>4, <3>1, <3>2, Zenon DEF Move
    <3>6. CASE value.ok
      <4>1. n.ok = m.ok /\ n.to = k + m.to /\ n.open = m.open
        BY <3>4, <3>5, <3>6
      <4>2. QED
        BY <1>5, <1>6, <4>1, Zenon DEF ShiftedMove
    <3>7. CASE ~value.ok
      BY <1>5, <1>6, <1>7, <3>4, <3>5, <3>7, Zenon DEF ShiftedMove
    <3>8. QED
      BY <3>6, <3>7, Zenon
  <2>5. QED
    BY <2>2, <2>3, <2>4, Zenon
<1>10. QED
  BY <1>8, <1>9, Zenon

LEMMA MoveFits ==
    ASSUME NEW longest, NEW s \in Seq(Byte), NEW i \in Nat, NEW e \in Nat, e <= Len(s),
           NEW f \in Nat, f <= Len(s), NEW open \in Seq(Nat),
           Move(s, i, e, open, longest).ok, Move(s, i, e, open, longest).to <= f
    PROVE  Move(s, i, f, open, longest) = Move(s, i, e, open, longest)
<1>1. PICK limit, tag : limit = TagLimit(open, longest) /\ tag = readTag(s, i, e, limit)
  OBVIOUS
<1>2. PICK m : m = Move(s, i, e, open, longest)
  OBVIOUS
<1>3. ~Refused.ok
  BY DEF Refused
<1>4. m.ok /\ m.to <= f
  BY <1>2
<1>5. tag.ok
  BY <1>1, <1>2, <1>3, <1>4, Zenon DEF Move
<1>6. i < e
  BY <1>1, <1>5, TagInFront
<1>7. tag.index \in Nat /\ tag.index <= e /\ tag.wire_type \in WireType
  <2>1. i <= e
    BY <1>6
  <2>2. readTag(s, i, e, limit).ok
    BY <1>1, <1>5
  <2>3. QED
    BY <1>1, <2>1, <2>2, TagInside
<1>8. ASSUME tag.index <= f PROVE readTag(s, i, f, limit) = tag
  <2>1. readTag(s, i, e, limit).ok /\ readTag(s, i, e, limit).index <= f
    BY <1>1, <1>5, <1>8
  <2>2. QED
    BY <1>1, <2>1, TagFits
<1>9. CASE tag.wire_type = EndGroup \/ tag.wire_type = StartGroup
  <2>1. m.to = tag.index
    <3>1. \A o : [ok |-> TRUE, to |-> tag.index, open |-> o].to = tag.index
      OBVIOUS
    <3>2. QED
      BY <1>1, <1>2, <1>3, <1>4, <1>5, <1>9, <3>1, Zenon DEF Move
  <2>2. readTag(s, i, f, limit) = tag
    BY <1>4, <1>8, <2>1
  <2>3. QED
    BY <1>1, <1>9, <2>2, Zenon DEF Move
<1>10. CASE tag.wire_type # EndGroup /\ tag.wire_type # StartGroup
  <2>1. PICK value : value = skipValue(s, tag.index, e, tag.wire_type)
    OBVIOUS
  <2>2. value.ok /\ m = [ok |-> TRUE, to |-> value.index, open |-> open]
    BY <1>1, <1>2, <1>3, <1>4, <1>5, <1>10, <2>1, Zenon DEF Move
  <2>3. value.index \in Nat /\ tag.index <= value.index
    BY <1>7, <2>1, ValueInside
  <2>4. value.index <= f /\ tag.index <= f
    BY <1>4, <1>7, <2>2, <2>3
  <2>5. readTag(s, i, f, limit) = tag
    BY <1>8, <2>4
  <2>6. skipValue(s, tag.index, f, tag.wire_type) = value
    <3>1. skipValue(s, tag.index, e, tag.wire_type).ok
          /\ skipValue(s, tag.index, e, tag.wire_type).index <= f
      BY <2>1, <2>2, <2>4
    <3>2. QED
      BY <1>7, <2>1, <2>4, <3>1, ValueFits
  <2>7. Move(s, i, f, open, longest) = [ok |-> TRUE, to |-> value.index, open |-> open]
    BY <1>1, <1>5, <1>10, <2>2, <2>5, <2>6, Zenon DEF Move
  <2>8. QED
    BY <1>2, <2>2, <2>7, Zenon
<1>11. QED
  BY <1>9, <1>10, Zenon

-----------------------------------------------------------------------------
(* Skipping whole fields *)

SkipsBy(s, Skip, longest) ==
    Skip = [place \in Nat \X Seq(Nat) |-> SkipTag(s, place[1], place[2], longest, Skip)]

SkipOf(s, longest) == CHOOSE Skip : SkipsBy(s, Skip, longest)

LEMMA SkipExists ==
    ASSUME NEW longest, NEW s \in Seq(Byte)
    PROVE  \E Skip : SkipsBy(s, Skip, longest)
<1> DEFINE D == Nat \X Seq(Nat)
           M(p) == Move(s, p[1], Len(s), p[2], longest)
           C == {p \in D : M(p).ok /\ M(p).open # <<>>}
           next == [p \in D |-> <<M(p).to, M(p).open>>]
           step == [p \in D |-> [x \in Int |-> x]]
           final == [p \in D |-> IF M(p).ok THEN M(p).to ELSE Failed]
           rank == [p \in D |-> IF p[1] <= Len(s) THEN Len(s) - p[1] ELSE 0]
<1>1. Len(s) \in Nat
  OBVIOUS
<1>2. ASSUME NEW p \in D PROVE p[1] \in Nat /\ p[2] \in Seq(Nat)
  BY <1>2
<1>3. rank \in [D -> 0 .. Len(s)]
  BY <1>1, <1>2
<1>4. ASSUME NEW p \in D, M(p).ok
      PROVE  /\ M(p).to \in Nat /\ p[1] < M(p).to /\ M(p).to <= Len(s)
             /\ M(p).open \in Seq(Nat)
  <2>1. Move(s, p[1], Len(s), p[2], longest).ok
    BY <1>4
  <2> HIDE DEF D
  <2>2. QED
    BY <1>1, <1>2, <2>1, MoveInside
<1>5. ASSUME NEW p \in D \cap C
      PROVE  next[p] \in D /\ rank[next[p]] < rank[p] /\ step[p] \in [Int -> Int]
  <2>1. p \in D /\ M(p).ok
    BY <1>5
  <2>2. PICK to, open : to = M(p).to /\ open = M(p).open
    OBVIOUS
  <2>3. to \in Nat /\ p[1] < to /\ to <= Len(s) /\ open \in Seq(Nat)
    BY <1>4, <2>1, <2>2
  <2>4. next[p] = <<to, open>> /\ p[1] \in Nat
    BY <1>2, <2>1, <2>2
  <2>5. <<to, open>> \in D /\ <<to, open>>[1] = to
    BY <2>3
  <2>6. rank[<<to, open>>] = Len(s) - to /\ rank[p] = Len(s) - p[1]
    BY <2>1, <2>3, <2>4, <2>5
  <2>7. rank[<<to, open>>] < rank[p]
    BY <1>1, <2>3, <2>4, <2>6
  <2>8. step[p] \in [Int -> Int]
    BY <2>1
  <2>9. QED
    BY <2>4, <2>5, <2>7, <2>8
<1>6. ASSUME NEW p \in D \ C PROVE final[p] \in Int
  <2>1. M(p).ok => M(p).to \in Int
    BY <1>4, <1>6
  <2>2. QED
    BY <1>6, <2>1 DEF Failed
<1> HIDE DEF D, M, C, next, step, final, rank
<1>7. PICK f \in [D -> Int] : Recursion(D, C, next, step, final, f)
  BY <1>1, <1>3, <1>5, <1>6, RecursionExists, Zenon
<1>8. ASSUME NEW p \in D PROVE f[p] = SkipTag(s, p[1], p[2], longest, f)
  <2>1. f[p] = IF p \in C THEN step[p][f[next[p]]] ELSE final[p]
    BY <1>7, <1>8, Zenon DEF Recursion
  <2>2. SkipTag(s, p[1], p[2], longest, f) = Skipped(M(p), f)
    BY SkipTagIs, Zenon DEF M
  <2>3. CASE p \in C
    <3>1. M(p).ok /\ M(p).open # <<>> /\ next[p] = <<M(p).to, M(p).open>>
      BY <1>8, <2>3, Zenon DEF C, next
    <3>2. next[p] \in D
      BY <1>5, <1>8, <2>3
    <3>3. f[next[p]] \in Int
      BY <3>2
    <3>4. step[p][f[next[p]]] = f[next[p]]
      BY <1>8, <3>3 DEF step
    <3>5. QED
      BY <2>1, <2>2, <2>3, <3>1, <3>4, Zenon DEF Skipped
  <2>4. CASE p \notin C
    <3>1. ~M(p).ok \/ M(p).open = <<>>
      BY <1>8, <2>4 DEF C
    <3>2. final[p] = IF M(p).ok THEN M(p).to ELSE Failed
      BY <1>8, Zenon DEF final
    <3>3. QED
      BY <2>1, <2>2, <2>4, <3>1, <3>2, Zenon DEF Skipped
  <2>5. QED
    BY <2>3, <2>4, Zenon
<1>9. f = [p \in D |-> SkipTag(s, p[1], p[2], longest, f)]
  <2> DEFINE P(p) == SkipTag(s, p[1], p[2], longest, f)
  <2>1. \A p \in D : f[p] = P(p)
    BY <1>8, Zenon
  <2> HIDE DEF P
  <2>2. f = [p \in D |-> P(p)]
    BY <1>7, <2>1
  <2>3. QED
    BY <2>2, Zenon DEF P
<1>10. QED
  BY <1>9, Zenon DEF SkipsBy, D

LEMMA SkipIs ==
    ASSUME NEW longest, NEW s \in Seq(Byte), NEW i \in Nat, NEW open \in Seq(Nat)
    PROVE  SkipOf(s, longest)[<<i, open>>]
               = Skipped(Move(s, i, Len(s), open, longest), SkipOf(s, longest))
<1>1. PICK f : f = SkipOf(s, longest)
  OBVIOUS
<1>2. SkipsBy(s, f, longest)
  BY <1>1, SkipExists, Zenon DEF SkipOf
<1>3. PICK p : p = <<i, open>>
  OBVIOUS
<1>4. p \in Nat \X Seq(Nat) /\ p[1] = i /\ p[2] = open
  BY <1>3
<1>5. f[p] = SkipTag(s, p[1], p[2], longest, f)
  BY <1>2, <1>4, Zenon DEF SkipsBy
<1>6. f[<<i, open>>] = SkipTag(s, i, open, longest, f)
  BY <1>3, <1>4, <1>5
<1>7. QED
  BY <1>1, <1>6, SkipTagIs

LEMMA FieldEndIs ==
    ASSUME NEW longest, NEW s \in Seq(Byte), NEW i
    PROVE  FieldEndOf(s, i, longest) = SkipOf(s, longest)[<<i, <<>>>>]
  BY Zenon DEF FieldEndOf, SkipOf, SkipsBy

(* What holds of a place in s and its open groups when it holds of all     *)
(* places behind it, holds.                                                *)
LEMMA SkipInduct ==
    ASSUME NEW s \in Seq(Byte), NEW G,
           \A i \in Nat, open \in Seq(Nat) :
               (\A j \in Nat, o \in Seq(Nat) : i < j /\ j <= Len(s) => <<j, o>> \in G)
                   => <<i, open>> \in G
    PROVE  \A i \in Nat, open \in Seq(Nat) : <<i, open>> \in G
<1> DEFINE D == Nat \X Seq(Nat)
           rank == [p \in D |-> IF p[1] <= Len(s) THEN Len(s) - p[1] ELSE 0]
<1>1. Len(s) \in Nat
  OBVIOUS
<1>2. rank \in [D -> Nat]
  <2>1. \A p \in D : p[1] \in Nat
    OBVIOUS
  <2>2. QED
    BY <1>1, <2>1
<1>3. ASSUME NEW p \in D, \A q \in D : rank[q] < rank[p] => q \in G
      PROVE  p \in G
  <2>1. PICK i \in Nat, open \in Seq(Nat) : p = <<i, open>>
    OBVIOUS
  <2>2. ASSUME NEW j \in Nat, NEW o \in Seq(Nat), i < j, j <= Len(s)
        PROVE  <<j, o>> \in G
    <3>1. PICK q : q = <<j, o>>
      OBVIOUS
    <3>2. q \in D /\ q[1] = j /\ p[1] = i
      BY <2>1, <3>1
    <3>3. rank[q] = Len(s) - j /\ rank[p] = Len(s) - i
      BY <1>1, <2>2, <3>2
    <3>4. rank[q] < rank[p]
      BY <1>1, <2>2, <3>3
    <3>5. QED
      BY <1>3, <3>1, <3>2, <3>4, Zenon
  <2>3. QED
    BY <2>1, <2>2, Zenon
<1>4. D \subseteq G
  <2> HIDE DEF D, rank
  <2>1. QED
    BY <1>2, <1>3, ByRank, Zenon
<1>5. QED
  BY <1>4

LEMMA MoveEnds ==
    ASSUME NEW longest, NEW s \in Seq(Byte), NEW i \in Nat, NEW open \in Seq(Nat),
           NEW m, m = Move(s, i, Len(s), open, longest), m.ok
    PROVE  m.to \in Nat /\ i < m.to /\ m.to <= Len(s) /\ m.open \in Seq(Nat)
<1>1. PICK e : e = Len(s)
  OBVIOUS
<1>2. /\ e \in Nat /\ e <= Len(s)
      /\ Move(s, i, e, open, longest).ok /\ m = Move(s, i, e, open, longest)
  BY <1>1
<1>3. QED
  BY <1>1, <1>2, MoveInside

SkipsInside(s, i, r) == r # Failed => r \in Nat /\ i < r /\ r <= Len(s)

LEMMA SkipInside ==
    ASSUME NEW longest, NEW s \in Seq(Byte), NEW i \in Nat, NEW open \in Seq(Nat)
    PROVE  SkipsInside(s, i, SkipOf(s, longest)[<<i, open>>])
<1> DEFINE G == {p \in Nat \X Seq(Nat) : SkipsInside(s, p[1], SkipOf(s, longest)[p])}
<1>1. \A x, y : <<x, y>>[1] = x
  OBVIOUS
<1>2. ASSUME NEW x \in Nat, NEW y \in Seq(Nat)
      PROVE  <<x, y>> \in G <=> SkipsInside(s, x, SkipOf(s, longest)[<<x, y>>])
  <2>1. <<x, y>> \in Nat \X Seq(Nat)
    OBVIOUS
  <2>2. QED
    BY <1>1, <2>1
<1> HIDE DEF G
<1>3. ASSUME NEW x \in Nat, NEW y \in Seq(Nat),
             \A j \in Nat, o \in Seq(Nat) : x < j /\ j <= Len(s) => <<j, o>> \in G
      PROVE  <<x, y>> \in G
  <2>1. PICK m : m = Move(s, x, Len(s), y, longest)
    OBVIOUS
  <2>2. PICK r : r = SkipOf(s, longest)[<<x, y>>]
    OBVIOUS
  <2>3. r = Skipped(m, SkipOf(s, longest))
    BY <2>1, <2>2, SkipIs
  <2>4. Len(s) \in Nat
    OBVIOUS
  <2>5. CASE ~m.ok
    BY <1>2, <2>2, <2>3, <2>5, Zenon DEF Skipped, SkipsInside
  <2>6. CASE m.ok
    <3>1. m.to \in Nat /\ x < m.to /\ m.to <= Len(s) /\ m.open \in Seq(Nat)
      BY <2>1, <2>6, MoveEnds
    <3>2. CASE m.open = <<>>
      <4>1. r = m.to
        BY <2>3, <2>6, <3>2, Zenon DEF Skipped
      <4>2. QED
        BY <1>2, <2>2, <3>1, <4>1, Zenon DEF SkipsInside
    <3>3. CASE m.open # <<>>
      <4>1. r = SkipOf(s, longest)[<<m.to, m.open>>]
        BY <2>3, <2>6, <3>3, Zenon DEF Skipped
      <4>2. SkipsInside(s, m.to, r)
        BY <1>2, <1>3, <3>1, <4>1, Zenon
      <4>3. SkipsInside(s, x, r)
        BY <2>4, <3>1, <4>2 DEF SkipsInside
      <4>4. QED
        BY <1>2, <2>2, <4>3, Zenon
    <3>4. QED
      BY <3>2, <3>3, Zenon
  <2>7. QED
    BY <2>5, <2>6, Zenon
<1>4. <<i, open>> \in G
  BY <1>3, SkipInduct, Zenon
<1>5. QED
  BY <1>2, <1>4, Zenon

\* A move in the slice, of l bytes, and one in t.
MovesThere(k, l, m, n) ==
    /\ m.ok => n.ok /\ n.to = k + m.to /\ n.open = m.open
    /\ n.ok /\ n.to <= k + l => m.ok

LEMMA MoveThere ==
    ASSUME NEW longest, NEW s \in Seq(Byte), NEW t \in Seq(Byte), NEW k, Window(s, k, t),
           NEW i \in Nat, i <= Len(s), NEW open \in Seq(Nat),
           NEW m, m = Move(s, i, Len(s), open, longest),
           NEW n, n = Move(t, k + i, Len(t), open, longest)
    PROVE  MovesThere(k, Len(s), m, n)
<1>1. k \in Nat /\ k + Len(s) <= Len(t) /\ Len(s) \in Nat /\ Len(t) \in Nat
  BY DEF Window
<1>2. PICK e : e = k + Len(s)
  OBVIOUS
<1>3. e \in Nat /\ e <= Len(t) /\ k + i \in Nat
  BY <1>1, <1>2
<1>4. PICK u : u = Move(t, k + i, e, open, longest)
  OBVIOUS
<1>a. PICK f : f = Len(t)
  OBVIOUS
<1>b. PICK x : x = k + i
  OBVIOUS
<1>c. /\ x \in Nat /\ f \in Nat /\ e <= f /\ f <= Len(t)
      /\ u = Move(t, x, e, open, longest) /\ n = Move(t, x, f, open, longest)
  BY <1>1, <1>3, <1>4, <1>a, <1>b
<1>5. ShiftedMove(k, u, m)
  <2>1. i <= Len(s) /\ Len(s) <= Len(s)
    OBVIOUS
  <2>2. ShiftedMove(k, Move(t, k + i, k + Len(s), open, longest), Move(s, i, Len(s), open, longest))
    BY <1>1, <2>1, MoveShifts
  <2>3. QED
    BY <1>2, <1>4, <2>2
<1>6. ASSUME m.ok
      PROVE  n.ok /\ n.to = k + m.to /\ n.open = m.open
  <2>1. u.ok /\ u.to = k + m.to /\ u.open = m.open
    BY <1>5, <1>6, Zenon DEF ShiftedMove
  <2>2. u.to \in Nat /\ u.to <= e
    BY <1>3, <1>c, <2>1, MoveInside
  <2>3. u.to <= f
    BY <1>3, <1>c, <2>2
  <2>4. n = u
    BY <1>3, <1>c, <2>1, <2>3, MoveFits
  <2>5. QED
    BY <2>1, <2>4
<1>7. ASSUME n.ok, n.to <= k + Len(s)
      PROVE  m.ok
  <2>1. n.to <= e
    BY <1>2, <1>7
  <2>2. u = n
    BY <1>3, <1>c, <1>7, <2>1, MoveFits
  <2>3. QED
    BY <1>5, <1>7, <2>2, Zenon DEF ShiftedMove
<1>8. QED
  BY <1>6, <1>7, Zenon DEF MovesThere

(* A field that is skipped in s is skipped in t; and one that is skipped   *)
(* in t up to the end of s is skipped in s.                                *)
SkipsAlike(s, k, t, i, open, longest) ==
    LET r == SkipOf(s, longest)[<<i, open>>]
        q == SkipOf(t, longest)[<<k + i, open>>]
    IN  i <= Len(s) => /\ r # Failed => q = k + r
                       /\ q # Failed /\ q <= k + Len(s) => r # Failed

LEMMA SkipShifts ==
    ASSUME NEW longest, NEW s \in Seq(Byte), NEW t \in Seq(Byte), NEW k, Window(s, k, t),
           NEW i \in Nat, NEW open \in Seq(Nat)
    PROVE  SkipsAlike(s, k, t, i, open, longest)
<1> DEFINE G == {p \in Nat \X Seq(Nat) : SkipsAlike(s, k, t, p[1], p[2], longest)}
<1>1. \A x, y : <<x, y>>[1] = x /\ <<x, y>>[2] = y
  OBVIOUS
<1>2. ASSUME NEW x \in Nat, NEW y \in Seq(Nat)
      PROVE  <<x, y>> \in G <=> SkipsAlike(s, k, t, x, y, longest)
  <2>1. <<x, y>> \in Nat \X Seq(Nat)
    OBVIOUS
  <2>2. PICK p : p = <<x, y>>
    OBVIOUS
  <2>3. p[1] = x /\ p[2] = y /\ p \in Nat \X Seq(Nat)
    BY <1>1, <2>1, <2>2
  <2>4. p \in G <=> SkipsAlike(s, k, t, p[1], p[2], longest)
    BY <2>3
  <2>5. QED
    BY <2>2, <2>3, <2>4
<1> HIDE DEF G
<1>3. k \in Nat /\ Len(s) \in Nat
  BY DEF Window
<1>4. ASSUME NEW x \in Nat, NEW y \in Seq(Nat),
             \A j \in Nat, o \in Seq(Nat) : x < j /\ j <= Len(s) => <<j, o>> \in G
      PROVE  <<x, y>> \in G
  <2> SUFFICES ASSUME x <= Len(s) PROVE SkipsAlike(s, k, t, x, y, longest)
    BY <1>2, Zenon DEF SkipsAlike
  <2>1. PICK m : m = Move(s, x, Len(s), y, longest)
    OBVIOUS
  <2>2. PICK n : n = Move(t, k + x, Len(t), y, longest)
    OBVIOUS
  <2>3. PICK r : r = SkipOf(s, longest)[<<x, y>>]
    OBVIOUS
  <2>4. PICK q : q = SkipOf(t, longest)[<<k + x, y>>]
    OBVIOUS
  <2>5. k + x \in Nat
    BY <1>3
  <2>6. r = Skipped(m, SkipOf(s, longest)) /\ q = Skipped(n, SkipOf(t, longest))
    <3>1. r = Skipped(m, SkipOf(s, longest))
      BY <2>1, <2>3, SkipIs
    <3>2. q = Skipped(n, SkipOf(t, longest))
      BY <2>2, <2>4, <2>5, SkipIs
    <3>3. QED
      BY <3>1, <3>2
  <2>7. /\ m.ok => n.ok /\ n.to = k + m.to /\ n.open = m.open
        /\ n.ok /\ n.to <= k + Len(s) => m.ok
    <3>1. MovesThere(k, Len(s), m, n)
      BY <2>1, <2>2, MoveThere
    <3>2. QED
      BY <3>1, Zenon DEF MovesThere
  <2>8. CASE ~m.ok
    <3>1. r = Failed
      BY <2>6, <2>8, Zenon DEF Skipped
    <3>2. ASSUME q # Failed, q <= k + Len(s) PROVE FALSE
      <4>1. n.ok
        BY <2>6, <3>2, Zenon DEF Skipped
      <4>2. n.to \in Nat /\ n.open \in Seq(Nat)
        BY <2>2, <2>5, <4>1, MoveEnds
      <4>3. n.to <= q
        <5>1. CASE n.open = <<>>
          <6>1. q = n.to
            BY <2>6, <4>1, <5>1, Zenon DEF Skipped
          <6>2. QED
            BY <4>2, <6>1
        <5>2. CASE n.open # <<>>
          <6>1. q = SkipOf(t, longest)[<<n.to, n.open>>]
            BY <2>6, <4>1, <5>2, Zenon DEF Skipped
          <6>2. SkipsInside(t, n.to, q)
            BY <4>2, <6>1, SkipInside
          <6>3. q \in Nat /\ n.to < q
            BY <3>2, <6>2, Zenon DEF SkipsInside
          <6>4. QED
            BY <4>2, <6>3
        <5>3. QED
          BY <5>1, <5>2, Zenon
      <4>4. q \in Nat
        <5>1. SkipsInside(t, k + x, q)
          BY <2>4, <2>5, SkipInside
        <5>2. QED
          BY <3>2, <5>1, Zenon DEF SkipsInside
      <4>5. n.to <= k + Len(s)
        BY <1>3, <3>2, <4>2, <4>3, <4>4
      <4>6. QED
        BY <2>7, <2>8, <4>1, <4>5, Zenon
    <3>3. QED
      BY <2>3, <2>4, <3>1, <3>2, Zenon DEF SkipsAlike
  <2>9. CASE m.ok
    <3>1. n.ok /\ n.to = k + m.to /\ n.open = m.open
      BY <2>7, <2>9, Zenon
    <3>2. m.to \in Nat /\ x < m.to /\ m.to <= Len(s) /\ m.open \in Seq(Nat)
      BY <2>1, <2>9, MoveEnds
    <3>3. CASE m.open = <<>>
      <4>1. r = m.to /\ q = n.to
        BY <2>6, <2>9, <3>1, <3>3, Zenon DEF Skipped
      <4>2. r # Failed
        BY <3>2, <4>1 DEF Failed
      <4>3. QED
        BY <2>3, <2>4, <3>1, <4>1, <4>2, Zenon DEF SkipsAlike
    <3>4. CASE m.open # <<>>
      <4>1. r = SkipOf(s, longest)[<<m.to, m.open>>] /\ q = SkipOf(t, longest)[<<k + m.to, m.open>>]
        BY <2>6, <2>9, <3>1, <3>4, Zenon DEF Skipped
      <4>2. SkipsAlike(s, k, t, m.to, m.open, longest)
        BY <1>2, <1>4, <3>2, Zenon
      <4>3. QED
        BY <2>3, <2>4, <3>2, <4>1, <4>2, Zenon DEF SkipsAlike
    <3>5. QED
      BY <3>3, <3>4, Zenon
  <2>10. QED
    BY <2>8, <2>9, Zenon
<1>5. <<i, open>> \in G
  BY <1>4, SkipInduct, Zenon
<1>6. QED
  BY <1>2, <1>5, Zenon

Between(s, i, j) == SubSeq(s, i + 1, j)

LEMMA BetweenIs ==
    ASSUME NEW S, NEW s \in Seq(S), NEW i \in Nat, NEW j \in Nat, i <= j, j <= Len(s)
    PROVE  /\ Between(s, i, j) \in Seq(S)
           /\ Len(Between(s, i, j)) = j - i
           /\ \A x \in 1 .. j - i : Between(s, i, j)[x] = s[i + x]
<1>1. PICK m : m = i + 1
  OBVIOUS
<1>2. m \in Int /\ j \in Int /\ \A x \in m .. j : s[x] \in S
  <2>1. m \in Int
    BY <1>1
  <2>2. \A x \in m .. j : x \in 1 .. Len(s)
    BY <1>1
  <2>3. QED
    BY <2>1, <2>2, ElementOfSeq
<1>3. /\ SubSeq(s, m, j) \in Seq(S)
      /\ Len(SubSeq(s, m, j)) = IF m <= j THEN j - m + 1 ELSE 0
      /\ \A x \in 1 .. j - m + 1 : SubSeq(s, m, j)[x] = s[m + x - 1]
  BY <1>2, SubSeqProperties
<1>4. j - m + 1 = j - i /\ (m <= j <=> i < j)
  BY <1>1
<1>5. \A x \in 1 .. j - i : m + x - 1 = i + x
  BY <1>1
<1>6. QED
  BY <1>1, <1>3, <1>4, <1>5 DEF Between

LEMMA BetweenWindow ==
    ASSUME NEW s \in Seq(Byte), NEW i \in Nat, NEW j \in Nat, i <= j, j <= Len(s)
    PROVE  Window(Between(s, i, j), i, s)
<1>1. PICK f : f = Between(s, i, j)
  OBVIOUS
<1>2. Len(f) = j - i /\ \A x \in 1 .. j - i : f[x] = s[i + x]
  BY <1>1, BetweenIs
<1>3. i + Len(f) <= Len(s) /\ \A x \in 1 .. Len(f) : s[i + x] = f[x]
  BY <1>2
<1>4. QED
  BY <1>1, <1>3, Zenon DEF Window

-----------------------------------------------------------------------------
(* Where fields end *)

LEMMA FieldEndInside ==
    ASSUME NEW longest, NEW s \in Seq(Byte), NEW i \in Nat, FieldEndOf(s, i, longest) # Failed
    PROVE  /\ FieldEndOf(s, i, longest) \in Nat
           /\ i < FieldEndOf(s, i, longest) /\ FieldEndOf(s, i, longest) <= Len(s)
<1>1. <<>> \in Seq(Nat)
  OBVIOUS
<1>2. SkipsInside(s, i, FieldEndOf(s, i, longest))
  BY <1>1, FieldEndIs, SkipInside
<1>3. QED
  BY <1>2, Zenon DEF SkipsInside

\* An end x in the slice, of l bytes, and the end y in t, where it begins behind k.
EndsThere(k, l, x, y) ==
    /\ x # Failed => y = k + x
    /\ y # Failed /\ y <= k + l => x # Failed

LEMMA FieldEndShifts ==
    ASSUME NEW longest, NEW s \in Seq(Byte), NEW t \in Seq(Byte), NEW k, Window(s, k, t),
           NEW i \in Nat, i <= Len(s)
    PROVE  EndsThere(k, Len(s), FieldEndOf(s, i, longest), FieldEndOf(t, k + i, longest))
<1>1. PICK none : none = <<>>
  OBVIOUS
<1>2. none \in Seq(Nat)
  BY <1>1
<1>3. SkipsAlike(s, k, t, i, none, longest)
  BY <1>2, SkipShifts
<1>4. /\ FieldEndOf(s, i, longest) = SkipOf(s, longest)[<<i, none>>]
      /\ FieldEndOf(t, k + i, longest) = SkipOf(t, longest)[<<k + i, none>>]
  BY <1>1, FieldEndIs
<1>5. QED
  BY <1>3, <1>4, Zenon DEF SkipsAlike, EndsThere

\* What is cut out of the input as a field is one whole field, and a whole field
\* ends where it ends, wherever it lies.
LEMMA CutValid ==
    ASSUME NEW longest, NEW s \in Seq(Byte), NEW i \in Nat,
           NEW to, to = FieldEndOf(s, i, longest), to # Failed
    PROVE  Between(s, i, to) \in Seq(Byte) /\ WholeField(Between(s, i, to), longest)
<1>1. to \in Nat /\ i < to /\ to <= Len(s) /\ i <= to
  BY FieldEndInside
<1>2. PICK f : f = Between(s, i, to)
  OBVIOUS
<1>3. f \in Seq(Byte) /\ Len(f) = to - i
  BY <1>1, <1>2, BetweenIs
<1>4. Window(f, i, s)
  BY <1>1, <1>2, BetweenWindow
<1>5. 0 \in Nat /\ 0 <= Len(f) /\ i + 0 = i /\ i + Len(f) = to /\ to <= to
  BY <1>1, <1>3
<1>6. /\ FieldEndOf(f, 0, longest) # Failed
            => FieldEndOf(s, i, longest) = i + FieldEndOf(f, 0, longest)
      /\ FieldEndOf(s, i, longest) # Failed /\ FieldEndOf(s, i, longest) <= i + Len(f)
            => FieldEndOf(f, 0, longest) # Failed
  <2>1. PICK z \in Nat : z = 0
    OBVIOUS
  <2>2. z <= Len(f) /\ i + z = i
    BY <1>5, <2>1
  <2>3. EndsThere(i, Len(f), FieldEndOf(f, z, longest), FieldEndOf(s, i + z, longest))
    BY <1>3, <1>4, <2>2, FieldEndShifts
  <2>4. QED
    BY <2>1, <2>2, <2>3 DEF EndsThere
<1>7. FieldEndOf(f, 0, longest) # Failed
  BY <1>5, <1>6
<1>8. FieldEndOf(f, 0, longest) \in Nat
  BY <1>3, <1>7, FieldEndInside
<1>9. FieldEndOf(f, 0, longest) = Len(f)
  BY <1>1, <1>3, <1>6, <1>7, <1>8
<1>10. QED
  BY <1>2, <1>3, <1>9, Zenon DEF WholeField

LEMMA ValidEnds ==
    ASSUME NEW longest, NEW s \in Seq(Byte), WholeField(s, longest),
           NEW t \in Seq(Byte), NEW k, Window(s, k, t)
    PROVE  FieldEndOf(t, k, longest) = k + Len(s) /\ Len(s) # 0
<1>1. k \in Nat /\ Len(s) \in Nat
  BY DEF Window
<1>2. PICK z \in Nat : z = 0
  OBVIOUS
<1>3. FieldEndOf(s, z, longest) = Len(s) /\ FieldEndOf(s, z, longest) # Failed
  BY <1>1, <1>2 DEF WholeField, Failed
<1>4. z <= Len(s) /\ k + z = k
  BY <1>1, <1>2
<1>5. FieldEndOf(t, k + z, longest) = k + FieldEndOf(s, z, longest)
  <2>1. EndsThere(k, Len(s), FieldEndOf(s, z, longest), FieldEndOf(t, k + z, longest))
    BY <1>4, FieldEndShifts
  <2>2. QED
    BY <1>3, <2>1, Zenon DEF EndsThere
<1>6. z < FieldEndOf(s, z, longest)
  BY <1>3, FieldEndInside
<1>7. QED
  BY <1>2, <1>3, <1>4, <1>5, <1>6

-----------------------------------------------------------------------------
(* Reading fields *)

ReadsTo(s, i, to, Read, longest) ==
    IF to = Failed THEN [ok |-> FALSE, fields |-> <<>>]
    ELSE [Read[to] EXCEPT !.fields = <<SubSeq(s, i + 1, to)>> \o @]

Reads(s, i, Read, longest) ==
    IF i = Len(s) THEN [ok |-> TRUE, fields |-> <<>>]
    ELSE ReadsTo(s, i, FieldEndOf(s, i, longest), Read, longest)

ReadsBy(s, Read, longest) == Read = [i \in Nat |-> Reads(s, i, Read, longest)]

ReadOf(s, longest) == CHOOSE Read : ReadsBy(s, Read, longest)

LEMMA ReadFieldsIs ==
    ASSUME NEW longest, NEW s
    PROVE  ReadFieldsOf(s, longest) = ReadOf(s, longest)[0]
  BY Zenon DEF ReadFieldsOf, ReadOf, ReadsBy, Reads, ReadsTo

ReadResult == [ok : BOOLEAN, fields : Seq(Seq(Byte))]

LEMMA PrependIs ==
    ASSUME NEW r \in ReadResult, NEW f \in Seq(Byte)
    PROVE  /\ [r EXCEPT !.fields = <<f>> \o @] \in ReadResult
           /\ [r EXCEPT !.fields = <<f>> \o @].ok = r.ok
           /\ [r EXCEPT !.fields = <<f>> \o @].fields = <<f>> \o r.fields
<1>1. <<f>> \o r.fields \in Seq(Seq(Byte))
  BY DEF ReadResult
<1>2. PICK g \in Seq(Seq(Byte)) : g = <<f>> \o r.fields
  BY <1>1
<1>3. [r EXCEPT !.fields = g] \in ReadResult
      /\ [r EXCEPT !.fields = g].ok = r.ok /\ [r EXCEPT !.fields = g].fields = g
  BY DEF ReadResult
<1>4. [r EXCEPT !.fields = <<f>> \o @] = [r EXCEPT !.fields = g]
  BY <1>2
<1>5. QED
  BY <1>2, <1>3, <1>4

LEMMA ReadExists ==
    ASSUME NEW longest, NEW s \in Seq(Byte)
    PROVE  \E Read : ReadsBy(s, Read, longest)
<1> DEFINE C == {i \in Nat : i # Len(s) /\ FieldEndOf(s, i, longest) # Failed}
           next == [i \in Nat |-> FieldEndOf(s, i, longest)]
           step == [i \in Nat |-> [r \in ReadResult |->
                       [r EXCEPT !.fields = <<SubSeq(s, i + 1, FieldEndOf(s, i, longest))>> \o @]]]
           final == [i \in Nat |-> [ok |-> i = Len(s), fields |-> <<>>]]
           rank == [i \in Nat |-> IF i <= Len(s) THEN Len(s) - i ELSE 0]
<1>1. Len(s) \in Nat
  OBVIOUS
<1>2. rank \in [Nat -> 0 .. Len(s)]
  BY <1>1
<1>3. ASSUME NEW i \in Nat \cap C
      PROVE  next[i] \in Nat /\ rank[next[i]] < rank[i] /\ step[i] \in [ReadResult -> ReadResult]
  <2>1. PICK to : to = FieldEndOf(s, i, longest)
    OBVIOUS
  <2>2. to # Failed /\ next[i] = to /\ i \in Nat
    BY <1>3, <2>1
  <2>3. to \in Nat /\ i < to /\ to <= Len(s)
    BY <2>1, <2>2, FieldEndInside
  <2>4. rank[to] < rank[i]
    BY <1>1, <2>2, <2>3
  <2>5. Between(s, i, to) \in Seq(Byte)
    BY <2>1, <2>2, CutValid
  <2>6. PICK f \in Seq(Byte) : f = SubSeq(s, i + 1, to)
    BY <2>5 DEF Between
  <2>7. step[i] = [r \in ReadResult |-> [r EXCEPT !.fields = <<f>> \o @]]
    BY <2>1, <2>2, <2>6
  <2>8. \A r \in ReadResult : [r EXCEPT !.fields = <<f>> \o @] \in ReadResult
    BY PrependIs
  <2>9. step[i] \in [ReadResult -> ReadResult]
    <3> HIDE DEF step
    <3>1. QED
      BY <2>7, <2>8
  <2>10. QED
    BY <2>2, <2>3, <2>4, <2>9
<1>4. ASSUME NEW i \in Nat \ C PROVE final[i] \in ReadResult
  BY <1>4 DEF ReadResult
<1> HIDE DEF C, next, step, final, rank
<1>5. PICK f \in [Nat -> ReadResult] : Recursion(Nat, C, next, step, final, f)
  BY <1>1, <1>2, <1>3, <1>4, RecursionExists, Zenon
<1>6. ASSUME NEW i \in Nat PROVE f[i] = Reads(s, i, f, longest)
  <2>1. f[i] = IF i \in C THEN step[i][f[next[i]]] ELSE final[i]
    BY <1>5, <1>6, Zenon DEF Recursion
  <2>2. CASE i \in C
    <3>1. i # Len(s) /\ FieldEndOf(s, i, longest) # Failed /\ next[i] = FieldEndOf(s, i, longest)
      BY <2>2 DEF C, next
    <3>2. next[i] \in Nat
      BY <1>3, <2>2
    <3>3. f[next[i]] \in ReadResult
      BY <3>2
    <3>4. step[i][f[next[i]]] =
              [f[next[i]] EXCEPT !.fields = <<SubSeq(s, i + 1, FieldEndOf(s, i, longest))>> \o @]
      BY <3>3, Zenon DEF step
    <3>5. QED
      BY <2>1, <2>2, <3>1, <3>4, Zenon DEF Reads, ReadsTo
  <2>3. CASE i \notin C
    <3>1. f[i] = [ok |-> i = Len(s), fields |-> <<>>]
      BY <2>1, <2>3 DEF final
    <3>2. CASE i = Len(s)
      <4>1. f[i] = [ok |-> TRUE, fields |-> <<>>]
        BY <3>1, <3>2
      <4>2. QED
        BY <3>2, <4>1, Zenon DEF Reads
    <3>3. CASE i # Len(s)
      <4>1. FieldEndOf(s, i, longest) = Failed
        BY <2>3, <3>3 DEF C
      <4>2. f[i] = [ok |-> FALSE, fields |-> <<>>]
        BY <3>1, <3>3
      <4>3. QED
        BY <3>3, <4>1, <4>2, Zenon DEF Reads, ReadsTo
    <3>4. QED
      BY <3>2, <3>3
  <2>4. QED
    BY <2>2, <2>3
<1>7. f = [i \in Nat |-> Reads(s, i, f, longest)]
  <2> DEFINE P(i) == Reads(s, i, f, longest)
  <2>1. \A i \in Nat : f[i] = P(i)
    BY <1>6, Zenon
  <2> HIDE DEF P
  <2>2. f = [i \in Nat |-> P(i)]
    BY <1>5, <2>1
  <2>3. QED
    BY <2>2, Zenon DEF P
<1>8. QED
  BY <1>7, Zenon DEF ReadsBy

AllWhole(raws, longest) == \A i \in DOMAIN raws : WholeField(raws[i], longest)

LEMMA ReadIs ==
    ASSUME NEW longest, NEW s \in Seq(Byte), NEW i \in Nat
    PROVE  ReadOf(s, longest)[i] = Reads(s, i, ReadOf(s, longest), longest)
<1>1. PICK f : f = ReadOf(s, longest)
  OBVIOUS
<1>2. ReadsBy(s, f, longest)
  BY <1>1, ReadExists, Zenon DEF ReadOf
<1>3. QED
  BY <1>1, <1>2, Zenon DEF ReadsBy

\* What is read is whole fields.
ReadFormed(r, longest) == r \in ReadResult /\ AllWhole(r.fields, longest)

LEMMA NothingRead ==
    ASSUME NEW longest, NEW ok \in BOOLEAN
    PROVE  ReadFormed([ok |-> ok, fields |-> <<>>], longest)
<1>1. PICK r : r = [ok |-> ok, fields |-> <<>>]
  OBVIOUS
<1>2. r.fields = <<>> /\ r \in ReadResult
  BY <1>1 DEF ReadResult
<1>3. DOMAIN r.fields = {}
  BY <1>2
<1>4. QED
  BY <1>1, <1>2, <1>3, Zenon DEF ReadFormed, AllWhole

LEMMA PrependValid ==
    ASSUME NEW longest, NEW f \in Seq(Byte), WholeField(f, longest),
           NEW raws \in Seq(Seq(Byte)), AllWhole(raws, longest)
    PROVE  AllWhole(<<f>> \o raws, longest)
<1>1. ASSUME NEW i \in DOMAIN (<<f>> \o raws)
      PROVE  (<<f>> \o raws)[i] = f \/ \E j \in DOMAIN raws : (<<f>> \o raws)[i] = raws[j]
  <2>1. /\ \A k \in 1 .. 1 + Len(raws) :
              (<<f>> \o raws)[k] = IF k <= 1 THEN <<f>>[k] ELSE raws[k - 1]
        /\ DOMAIN (<<f>> \o raws) = 1 .. 1 + Len(raws)
    <3>1. <<f>> \in Seq(Seq(Byte)) /\ Len(<<f>>) = 1
      OBVIOUS
    <3>2. PICK g \in Seq(Seq(Byte)) : g = <<f>>
      BY <3>1
    <3>3. /\ g \o raws \in Seq(Seq(Byte)) /\ Len(g \o raws) = Len(g) + Len(raws)
          /\ \A k \in 1 .. Len(g) + Len(raws) :
                (g \o raws)[k] = IF k <= Len(g) THEN g[k] ELSE raws[k - Len(g)]
      BY ConcatProperties
    <3>4. QED
      BY <3>1, <3>2, <3>3
  <2>2. CASE i = 1
    BY <2>1, <2>2
  <2>3. CASE i # 1
    <3>1. i - 1 \in DOMAIN raws /\ (<<f>> \o raws)[i] = raws[i - 1]
      BY <2>1, <2>3
    <3>2. QED
      BY <3>1
  <2>4. QED
    BY <2>2, <2>3
<1>2. QED
  BY <1>1, Zenon DEF AllWhole

\* What is read from a field on, by what is read behind it.
ReadsOneMore(q, f, r) == q \in ReadResult /\ q.ok = r.ok /\ q.fields = <<f>> \o r.fields

LEMMA ReadStep ==
    ASSUME NEW longest, NEW s \in Seq(Byte), NEW i \in Nat, NEW to, to = FieldEndOf(s, i, longest),
           i # Len(s), to # Failed, ReadOf(s, longest)[to] \in ReadResult
    PROVE  ReadsOneMore(ReadOf(s, longest)[i], Between(s, i, to), ReadOf(s, longest)[to])
<1>1. PICK r \in ReadResult : r = ReadOf(s, longest)[to]
  OBVIOUS
<1>2. PICK f \in Seq(Byte) : f = Between(s, i, to)
  BY CutValid
<1>3. ReadOf(s, longest)[i] = [r EXCEPT !.fields = <<f>> \o @]
  BY <1>1, <1>2, ReadIs, Zenon DEF Reads, ReadsTo, Between
<1>4. PICK q : q = [r EXCEPT !.fields = <<f>> \o @]
  OBVIOUS
<1>5. q \in ReadResult /\ q.ok = r.ok /\ q.fields = <<f>> \o r.fields
  BY <1>4, PrependIs, Zenon
<1>6. QED
  BY <1>1, <1>2, <1>3, <1>4, <1>5 DEF ReadsOneMore

LEMMA ReadTyped ==
    ASSUME NEW longest, NEW s \in Seq(Byte), NEW i \in Nat
    PROVE  ReadFormed(ReadOf(s, longest)[i], longest)
<1> DEFINE G == {x \in Nat : ReadFormed(ReadOf(s, longest)[x], longest)}
           rank == [x \in Nat |-> IF x <= Len(s) THEN Len(s) - x ELSE 0]
<1>1. Len(s) \in Nat
  OBVIOUS
<1>2. rank \in [Nat -> Nat]
  BY <1>1
<1>3. ASSUME NEW x \in Nat, \A y \in Nat : rank[y] < rank[x] => y \in G
      PROVE  x \in G
  <2>1. PICK to : to = FieldEndOf(s, x, longest)
    OBVIOUS
  <2>2. CASE x = Len(s)
    <3>1. ReadOf(s, longest)[x] = [ok |-> TRUE, fields |-> <<>>]
      BY <2>2, ReadIs, Zenon DEF Reads
    <3>2. QED
      BY <3>1, NothingRead
  <2>3. CASE x # Len(s) /\ to = Failed
    <3>1. ReadOf(s, longest)[x] = [ok |-> FALSE, fields |-> <<>>]
      BY <2>1, <2>3, ReadIs, Zenon DEF Reads, ReadsTo
    <3>2. QED
      BY <3>1, NothingRead
  <2>4. CASE x # Len(s) /\ to # Failed
    <3>1. to \in Nat /\ x < to /\ to <= Len(s)
      BY <2>1, <2>4, FieldEndInside
    <3>2. rank[to] < rank[x]
      BY <1>1, <3>1
    <3>3. to \in G
      BY <1>3, <3>1, <3>2, Zenon
    <3>4. ReadFormed(ReadOf(s, longest)[to], longest)
      BY <3>3
    <3>5. PICK r, q, f : /\ r = ReadOf(s, longest)[to] /\ q = ReadOf(s, longest)[x]
                         /\ f = Between(s, x, to)
      OBVIOUS
    <3>6. r \in ReadResult /\ AllWhole(r.fields, longest) /\ r.fields \in Seq(Seq(Byte))
      BY <3>4, <3>5 DEF ReadFormed, ReadResult
    <3>7. q \in ReadResult /\ q.fields = <<f>> \o r.fields
      BY <2>1, <2>4, <3>5, <3>6, ReadStep DEF ReadsOneMore
    <3>8. f \in Seq(Byte) /\ WholeField(f, longest)
      BY <2>1, <2>4, <3>5, CutValid
    <3>9. AllWhole(q.fields, longest)
      BY <3>6, <3>7, <3>8, PrependValid
    <3>10. ReadFormed(q, longest)
      BY <3>7, <3>9, Zenon DEF ReadFormed
    <3>11. QED
      BY <3>5, <3>10
  <2>5. QED
    BY <2>2, <2>3, <2>4
<1> HIDE DEF G, rank
<1>4. Nat \subseteq G
  <2>1. PICK D : D = Nat
    OBVIOUS
  <2>2. rank \in [D -> Nat]
    BY <1>2, <2>1
  <2>3. \A x \in D : (\A y \in D : rank[y] < rank[x] => y \in G) => x \in G
    BY <1>3, <2>1, Zenon
  <2>4. D \subseteq G
    BY <2>2, <2>3, ByRank, Zenon
  <2>5. QED
    BY <2>1, <2>4
<1>5. QED
  BY <1>4 DEF G

\* A Reader stores whole fields.
LEMMA StreamValid ==
    ASSUME NEW longest, NEW s \in Seq(Byte)
    PROVE  /\ ReadFieldsOf(s, longest) \in ReadResult
           /\ AllWhole(ReadFieldsOf(s, longest).fields, longest)
  BY ReadFieldsIs, ReadTyped DEF ReadFormed

-----------------------------------------------------------------------------
(* What is written one behind the other is read again *)

FlattenBy(raws, f) ==
    f = [k \in 1 .. Len(raws) |-> IF k = 1 THEN raws[k] ELSE f[k - 1] \o raws[k]]

\* The first k fields, one behind the other.
Flattened(raws, k) ==
    IF k = 0 THEN <<>> ELSE (CHOOSE f : FlattenBy(raws, f))[k]

LEMMA FlattenSeqIs ==
    ASSUME NEW raws \in Seq(Seq(Byte))
    PROVE  FlattenSeq(raws) = Flattened(raws, Len(raws))
<1>1. CASE Len(raws) = 0
  <2>1. raws = <<>>
    BY <1>1
  <2>2. FlattenSeq(raws) = raws
    BY <1>1, Zenon DEF FlattenSeq
  <2>3. QED
    BY <1>1, <2>1, <2>2, Zenon DEF Flattened
<1>2. CASE Len(raws) # 0
  <2>1. FlattenSeq(raws) = (CHOOSE f : FlattenBy(raws, f))[Len(raws)]
    BY <1>2, Zenon DEF FlattenSeq, FlattenBy
  <2>2. QED
    BY <1>2, <2>1, Zenon DEF Flattened
<1>3. QED
  BY <1>1, <1>2

LEMMA FlattenExists == ASSUME NEW raws \in Seq(Seq(Byte)) PROVE \E f : FlattenBy(raws, f)
<1> DEFINE D == 1 .. Len(raws)
           C == {k \in D : k # 1}
           next == [k \in D |-> k - 1]
           step == [k \in D |-> [x \in Seq(Byte) |-> x \o raws[k]]]
           final == [k \in D |-> raws[k]]
           rank == [k \in D |-> k]
<1>1. Len(raws) \in Nat
  OBVIOUS
<1>2. rank \in [D -> 0 .. Len(raws)]
  BY <1>1
<1>3. ASSUME NEW k \in D \cap C
      PROVE  next[k] \in D /\ rank[next[k]] < rank[k] /\ step[k] \in [Seq(Byte) -> Seq(Byte)]
  <2>1. k \in D /\ k # 1
    BY <1>3
  <2>2. next[k] = k - 1 /\ k - 1 \in D /\ k - 1 < k
    BY <1>1, <2>1
  <2>3. raws[k] \in Seq(Byte)
    BY <2>1, ElementOfSeq
  <2>4. \A x \in Seq(Byte) : x \o raws[k] \in Seq(Byte)
    BY <2>3, ConcatProperties
  <2>5. step[k] = [x \in Seq(Byte) |-> x \o raws[k]]
    BY <2>1
  <2>6. step[k] \in [Seq(Byte) -> Seq(Byte)]
    <3> HIDE DEF step
    <3>1. QED
      BY <2>4, <2>5
  <2>7. QED
    BY <2>2, <2>6
<1>4. ASSUME NEW k \in D \ C PROVE final[k] \in Seq(Byte)
  BY <1>4, ElementOfSeq
<1> HIDE DEF D, C, next, step, final, rank
<1>5. PICK f \in [D -> Seq(Byte)] : Recursion(D, C, next, step, final, f)
  BY <1>1, <1>2, <1>3, <1>4, RecursionExists, Zenon
<1>6. ASSUME NEW k \in D
      PROVE  f[k] = IF k = 1 THEN raws[k] ELSE f[k - 1] \o raws[k]
  <2>1. f[k] = IF k \in C THEN step[k][f[next[k]]] ELSE final[k]
    BY <1>5, <1>6, Zenon DEF Recursion
  <2>2. CASE k = 1
    BY <2>1, <2>2 DEF C, final
  <2>3. CASE k # 1
    <3>1. k \in C /\ next[k] = k - 1
      BY <2>3 DEF C, next
    <3>2. next[k] \in D
      BY <1>3, <3>1
    <3>3. f[next[k]] \in Seq(Byte)
      BY <3>2
    <3>4. step[k][f[next[k]]] = f[next[k]] \o raws[k]
      BY <3>3, Zenon DEF step
    <3>5. QED
      BY <2>1, <2>3, <3>1, <3>4
  <2>4. QED
    BY <2>2, <2>3
<1>7. f = [k \in D |-> IF k = 1 THEN raws[k] ELSE f[k - 1] \o raws[k]]
  <2> DEFINE P(k) == IF k = 1 THEN raws[k] ELSE f[k - 1] \o raws[k]
  <2>1. \A k \in D : f[k] = P(k)
    BY <1>6, Zenon
  <2> HIDE DEF P
  <2>2. f = [k \in D |-> P(k)]
    BY <1>5, <2>1
  <2>3. QED
    BY <2>2, Zenon DEF P
<1>8. QED
  BY <1>7, Zenon DEF FlattenBy, D

LEMMA FlattenedGrows ==
    ASSUME NEW raws \in Seq(Seq(Byte)), NEW k \in 0 .. Len(raws) - 1,
           Flattened(raws, k) \in Seq(Byte)
    PROVE  Flattened(raws, k + 1) = Flattened(raws, k) \o raws[k + 1]
<1>1. PICK f : f = CHOOSE g : FlattenBy(raws, g)
  OBVIOUS
<1>2. FlattenBy(raws, f)
  BY <1>1, FlattenExists, Zenon
<1>3. k + 1 \in 1 .. Len(raws) /\ (k + 1) - 1 = k /\ k + 1 # 0
  OBVIOUS
<1>4. f[k + 1] = IF k + 1 = 1 THEN raws[k + 1] ELSE f[(k + 1) - 1] \o raws[k + 1]
  BY <1>2, <1>3, Zenon DEF FlattenBy
<1>5. Flattened(raws, k + 1) = f[k + 1]
  BY <1>1, <1>3, Zenon DEF Flattened
<1>6. CASE k = 0
  <2>1. Flattened(raws, k) = <<>>
    BY <1>6, Zenon DEF Flattened
  <2>2. PICK r \in Seq(Byte) : r = raws[k + 1]
    BY <1>3, ElementOfSeq
  <2>3. <<>> \o r = r
    BY <2>2, ConcatEmptySeq
  <2>4. f[k + 1] = r
    BY <1>4, <1>6, <2>2
  <2>5. QED
    BY <1>5, <2>1, <2>2, <2>3, <2>4
<1>7. CASE k # 0
  <2>1. Flattened(raws, k) = f[k]
    BY <1>1, <1>7, Zenon DEF Flattened
  <2>2. f[k + 1] = f[k] \o raws[k + 1]
    <3>1. k + 1 # 1
      BY <1>7
    <3>2. f[k + 1] = f[(k + 1) - 1] \o raws[k + 1]
      BY <1>4, <3>1, Zenon
    <3>3. QED
      BY <1>3, <3>2, Zenon
  <2>3. QED
    BY <1>5, <2>1, <2>2
<1>8. QED
  BY <1>6, <1>7

LEMMA FlattenedTyped ==
    ASSUME NEW raws \in Seq(Seq(Byte)), NEW k \in 0 .. Len(raws)
    PROVE  Flattened(raws, k) \in Seq(Byte)
<1> DEFINE G == {x \in Nat : Flattened(raws, x) \in Seq(Byte)}
<1>1. 0 \in G
  <2>1. Flattened(raws, 0) = <<>>
    BY Zenon DEF Flattened
  <2>2. <<>> \in Seq(Byte)
    OBVIOUS
  <2>3. Flattened(raws, 0) \in Seq(Byte)
    BY <2>1, <2>2, Zenon
  <2>4. QED
    BY <2>3
<1>2. ASSUME NEW x \in 0 .. Len(raws) - 1, x \in G PROVE x + 1 \in G
  <2>1. Flattened(raws, x) \in Seq(Byte)
    BY <1>2
  <2>2. raws[x + 1] \in Seq(Byte)
    BY <1>2, ElementOfSeq
  <2>3. Flattened(raws, x) \o raws[x + 1] \in Seq(Byte)
    BY <2>1, <2>2, ConcatProperties
  <2>4. Flattened(raws, x + 1) \in Seq(Byte)
    BY <2>1, <2>3, FlattenedGrows
  <2>5. x + 1 \in Nat
    OBVIOUS
  <2>6. QED
    BY <2>4, <2>5
<1> HIDE DEF G
<1>3. PICK n \in Nat : n = Len(raws)
  OBVIOUS
<1>4. \A x \in 0 .. n - 1 : x \in G => x + 1 \in G
  BY <1>2, <1>3
<1>5. \A x \in 0 .. n : x \in G
  BY <1>1, <1>4, Counting
<1>6. QED
  BY <1>3, <1>5 DEF G

LEMMA FlattenedIs ==
    ASSUME NEW raws \in Seq(Seq(Byte)), NEW k \in 0 .. Len(raws) - 1,
           NEW a, a = Flattened(raws, k), NEW b, b = Flattened(raws, k + 1),
           NEW r, r = raws[k + 1]
    PROVE  /\ a \in Seq(Byte) /\ b \in Seq(Byte) /\ r \in Seq(Byte)
           /\ Window(a, 0, b) /\ Window(r, Len(a), b) /\ Len(b) = Len(a) + Len(r)
<1>1. k \in 0 .. Len(raws) /\ k + 1 \in 1 .. Len(raws) /\ k + 1 \in 0 .. Len(raws)
  OBVIOUS
<1>2. a \in Seq(Byte)
  BY <1>1, FlattenedTyped
<1>3. r \in Seq(Byte)
  BY <1>1, ElementOfSeq
<1>4. b = a \o r
  BY <1>2, FlattenedGrows
<1>5. /\ b \in Seq(Byte) /\ Len(b) = Len(a) + Len(r)
      /\ \A i \in 1 .. Len(a) + Len(r) : b[i] = IF i <= Len(a) THEN a[i] ELSE r[i - Len(a)]
  <2>1. /\ a \o r \in Seq(Byte) /\ Len(a \o r) = Len(a) + Len(r)
        /\ \A i \in 1 .. Len(a) + Len(r) :
              (a \o r)[i] = IF i <= Len(a) THEN a[i] ELSE r[i - Len(a)]
    <3>1. QED
      BY <1>2, <1>3, ConcatProperties
  <2>2. QED
    BY <1>4, <2>1, Zenon
<1>6. Len(a) \in Nat /\ Len(r) \in Nat
  BY <1>2, <1>3
<1>7. Window(a, 0, b)
  <2>1. \A j \in 1 .. Len(a) : 0 + j = j /\ j \in 1 .. Len(a) + Len(r) /\ j <= Len(a)
    BY <1>6
  <2>2. \A j \in 1 .. Len(a) : b[0 + j] = a[j]
    BY <1>5, <2>1
  <2>3. 0 \in Nat /\ 0 + Len(a) <= Len(b)
    BY <1>5, <1>6
  <2>4. QED
    BY <2>2, <2>3, Zenon DEF Window
<1>8. Window(r, Len(a), b)
  <2>1. ASSUME NEW j \in 1 .. Len(r) PROVE b[Len(a) + j] = r[j]
    <3>1. /\ Len(a) + j \in 1 .. Len(a) + Len(r) /\ ~(Len(a) + j <= Len(a))
          /\ (Len(a) + j) - Len(a) = j
      BY <1>6
    <3>2. b[Len(a) + j] = r[(Len(a) + j) - Len(a)]
      BY <1>5, <3>1, Zenon
    <3>3. QED
      BY <3>1, <3>2, Zenon
  <2>2. Len(a) \in Nat /\ Len(a) + Len(r) <= Len(b)
    BY <1>5, <1>6
  <2>3. QED
    BY <2>1, <2>2, Zenon DEF Window
<1>9. QED
  BY <1>2, <1>3, <1>5, <1>7, <1>8

\* What is in a window of a window is in a window.
LEMMA WindowsNest ==
    ASSUME NEW s, NEW t, NEW u, NEW k, Window(s, k, t), Window(t, 0, u),
           Len(s) \in Nat, Len(t) \in Nat, Len(u) \in Nat
    PROVE  Window(s, k, u)
<1>1. /\ k \in Nat /\ k + Len(s) <= Len(t) /\ Len(t) <= Len(u)
      /\ \A j \in 1 .. Len(s) : t[k + j] = s[j]
      /\ \A j \in 1 .. Len(t) : u[0 + j] = t[j]
  BY DEF Window
<1>2. k + Len(s) <= Len(u)
  BY <1>1
<1>3. \A j \in 1 .. Len(s) : k + j \in 1 .. Len(t) /\ 0 + (k + j) = k + j
  BY <1>1
<1>4. \A j \in 1 .. Len(s) : u[k + j] = s[j]
  BY <1>1, <1>3
<1>5. QED
  BY <1>1, <1>2, <1>4, Zenon DEF Window

LEMMA FlattenedPrefix ==
    ASSUME NEW raws \in Seq(Seq(Byte)), NEW k \in 0 .. Len(raws)
    PROVE  Window(Flattened(raws, k), 0, Flattened(raws, Len(raws)))
<1> DEFINE n == Len(raws)
           t == Flattened(raws, n)
           G == {x \in Nat : Window(Flattened(raws, n - x), 0, t)}
<1>1. n \in Nat
  OBVIOUS
<1>2. t \in Seq(Byte) /\ Len(t) \in Nat
  <2>1. n \in 0 .. Len(raws)
    OBVIOUS
  <2>2. t \in Seq(Byte)
    BY <2>1, FlattenedTyped, Zenon
  <2>3. QED
    BY <2>2
<1>3. 0 \in G
  <2>1. n - 0 = n
    BY <1>1
  <2>2. Window(t, 0, t)
    BY <1>2 DEF Window
  <2>3. QED
    BY <2>1, <2>2
<1>4. ASSUME NEW x \in 0 .. n - 1, x \in G PROVE x + 1 \in G
  <2>1. PICK y : y = n - (x + 1)
    OBVIOUS
  <2>2. y \in 0 .. Len(raws) - 1 /\ n - x = y + 1 /\ y \in 0 .. Len(raws) /\ y + 1 \in 0 .. Len(raws)
    BY <1>1, <2>1
  <2>3. PICK a, b, r : a = Flattened(raws, y) /\ b = Flattened(raws, y + 1) /\ r = raws[y + 1]
    OBVIOUS
  <2>4. a \in Seq(Byte) /\ b \in Seq(Byte) /\ Window(a, 0, b)
    BY <2>2, <2>3, FlattenedIs
  <2>5. Window(b, 0, t)
    BY <1>4, <2>2, <2>3
  <2>6. Len(a) \in Nat /\ Len(b) \in Nat
    BY <2>4
  <2>7. Window(a, 0, t)
    BY <1>2, <2>4, <2>5, <2>6, WindowsNest, Zenon
  <2>8. x + 1 \in Nat
    BY <1>1
  <2>9. QED
    BY <2>1, <2>3, <2>7, <2>8
<1> HIDE DEF G
<1>5. \A x \in 0 .. n : x \in G
  <2> HIDE DEF n
  <2>1. QED
    BY <1>1, <1>3, <1>4, Counting, Zenon
<1>6. n - k \in 0 .. n /\ n - (n - k) = k
  BY <1>1
<1>7. n - k \in G
  BY <1>5, <1>6, Zenon
<1>8. Window(Flattened(raws, n - (n - k)), 0, t)
  BY <1>7 DEF G
<1>9. QED
  BY <1>6, <1>8

(* From where the first k of the fields end, the others are read.          *)
ReadsRest(raws, k, longest) ==
    LET t == Flattened(raws, Len(raws))
        r == ReadOf(t, longest)[Len(Flattened(raws, k))]
    IN  r \in ReadResult /\ r.ok /\ r.fields = Between(raws, k, Len(raws))

LEMMA ReadsMore ==
    ASSUME NEW longest, NEW raws \in Seq(Seq(Byte)), AllWhole(raws, longest),
           NEW k \in 0 .. Len(raws) - 1,
           ReadsRest(raws, k + 1, longest)
    PROVE  ReadsRest(raws, k, longest)
<1>1. PICK t : t = Flattened(raws, Len(raws))
  OBVIOUS
<1>2. PICK a, b, f : a = Flattened(raws, k) /\ b = Flattened(raws, k + 1) /\ f = raws[k + 1]
  OBVIOUS
<1>3. /\ k \in 0 .. Len(raws) /\ k + 1 \in 0 .. Len(raws) /\ k + 1 \in 1 .. Len(raws)
      /\ Len(raws) \in 0 .. Len(raws) /\ Len(raws) \in Nat
  OBVIOUS
<1>4. t \in Seq(Byte) /\ Len(t) \in Nat
  <2>1. t \in Seq(Byte)
    BY <1>1, <1>3, FlattenedTyped
  <2>2. QED
    BY <2>1
<1>5. /\ a \in Seq(Byte) /\ b \in Seq(Byte) /\ f \in Seq(Byte)
      /\ Window(f, Len(a), b) /\ Len(b) = Len(a) + Len(f)
  BY <1>2, FlattenedIs
<1>6. Window(b, 0, t)
  BY <1>1, <1>2, <1>3, FlattenedPrefix
<1>7. Len(a) \in Nat /\ Len(b) \in Nat /\ Len(f) \in Nat
  BY <1>5
<1>8. Window(f, Len(a), t)
  BY <1>4, <1>5, <1>6, <1>7, WindowsNest, Zenon
<1>9. WholeField(f, longest)
  BY <1>2, <1>3 DEF AllWhole
<1>10. PICK i, to : i = Len(a) /\ to = FieldEndOf(t, i, longest)
  OBVIOUS
<1>11. to = i + Len(f) /\ Len(f) # 0
  <2>1. Window(f, i, t)
    BY <1>8, <1>10
  <2>2. QED
    BY <1>4, <1>5, <1>9, <1>10, <2>1, ValidEnds
<1>12. to = Len(b) /\ to # Failed /\ i \in Nat /\ to \in Nat /\ i <= to /\ to <= Len(t)
  <2>1. Len(b) <= Len(t)
    BY <1>4, <1>6, <1>7 DEF Window
  <2>2. QED
    BY <1>5, <1>7, <1>10, <1>11, <2>1 DEF Failed
<1>13. i # Len(t)
  BY <1>4, <1>7, <1>10, <1>11, <1>12
<1>14. Between(t, i, to) = f
  <2>1. PICK g : g = Between(t, i, to)
    OBVIOUS
  <2>2. g \in Seq(Byte) /\ Len(g) = to - i /\ \A x \in 1 .. to - i : g[x] = t[i + x]
    <3>1. t \in Seq(Byte) /\ i \in Nat /\ to \in Nat /\ i <= to /\ to <= Len(t)
      BY <1>4, <1>12
    <3>2. /\ Between(t, i, to) \in Seq(Byte) /\ Len(Between(t, i, to)) = to - i
          /\ \A x \in 1 .. to - i : Between(t, i, to)[x] = t[i + x]
      BY <3>1, BetweenIs
    <3>3. QED
      BY <2>1, <3>2
  <2>3. to - i = Len(f)
    BY <1>7, <1>10, <1>11
  <2>4. \A x \in 1 .. Len(f) : t[i + x] = f[x]
    BY <1>8, <1>10, Zenon DEF Window
  <2>5. \A x \in 1 .. Len(f) : g[x] = f[x]
    BY <2>2, <2>3, <2>4
  <2>6. g = f
    BY <1>5, <2>2, <2>3, <2>5, SeqEqual
  <2>7. QED
    BY <2>1, <2>6
<1>15. PICK r : r = ReadOf(t, longest)[to]
  OBVIOUS
<1>16. r \in ReadResult /\ r.ok /\ r.fields = Between(raws, k + 1, Len(raws))
  BY <1>1, <1>2, <1>12, <1>15 DEF ReadsRest
<1>17. PICK q : q = ReadOf(t, longest)[i]
  OBVIOUS
<1>18. q \in ReadResult /\ q.ok = r.ok /\ q.fields = <<f>> \o r.fields
  <2>1. ReadsOneMore(ReadOf(t, longest)[i], Between(t, i, to), ReadOf(t, longest)[to])
    BY <1>4, <1>10, <1>12, <1>13, <1>15, <1>16, ReadStep
  <2>2. QED
    BY <1>14, <1>15, <1>17, <2>1 DEF ReadsOneMore
<1>19. Between(raws, k, Len(raws)) = <<f>> \o Between(raws, k + 1, Len(raws))
  <2>1. PICK m, n : m = k + 1 /\ n = Len(raws)
    OBVIOUS
  <2>2. m \in 1 .. Len(raws) /\ n \in m .. Len(raws)
    BY <1>3, <2>1
  <2>3. SubSeq(raws, m, n) = <<raws[m]>> \o SubSeq(raws, m + 1, n)
    BY <2>2, SubSeqRecursiveFirst
  <2>4. QED
    BY <1>2, <2>1, <2>3 DEF Between
<1>20. q \in ReadResult /\ q.ok /\ q.fields = Between(raws, k, Len(raws))
  BY <1>16, <1>18, <1>19
<1>21. QED
  BY <1>1, <1>2, <1>10, <1>17, <1>20 DEF ReadsRest

LEMMA ReadsBack ==
    ASSUME NEW longest, NEW raws \in Seq(Seq(Byte)), AllWhole(raws, longest)
    PROVE  ReadFieldsOf(FlattenSeq(raws), longest) = [ok |-> TRUE, fields |-> raws]
<1> DEFINE n == Len(raws)
           t == Flattened(raws, n)
           G == {x \in Nat : ReadsRest(raws, n - x, longest)}
<1>1. n \in Nat /\ n \in 0 .. Len(raws)
  OBVIOUS
<1>2. t \in Seq(Byte) /\ Len(t) \in Nat
  <2>1. t \in Seq(Byte)
    BY <1>1, FlattenedTyped, Zenon
  <2>2. QED
    BY <2>1
<1>3. 0 \in G
  <2>1. n - 0 = n
    BY <1>1
  <2>2. PICK r : r = ReadOf(t, longest)[Len(t)]
    OBVIOUS
  <2>3. r = [ok |-> TRUE, fields |-> <<>>]
    <3> HIDE DEF t
    <3>1. QED
      BY <1>2, <2>2, ReadIs, Zenon DEF Reads
  <2>4. Between(raws, n, n) = <<>>
    <3>1. n + 1 \in Int /\ n \in Int /\ n < n + 1
      BY <1>1
    <3>2. QED
      BY <3>1, SubSeqEmpty DEF Between
  <2>5. r \in ReadResult /\ r.ok /\ r.fields = Between(raws, n, n)
    BY <2>3, <2>4 DEF ReadResult
  <2>6. ReadsRest(raws, n, longest)
    BY <2>2, <2>5, Zenon DEF ReadsRest
  <2>7. QED
    BY <2>1, <2>6
<1>4. ASSUME NEW x \in 0 .. n - 1, x \in G PROVE x + 1 \in G
  <2>1. PICK y : y = n - (x + 1)
    OBVIOUS
  <2>2. y \in 0 .. Len(raws) - 1 /\ n - x = y + 1 /\ x + 1 \in Nat
    BY <1>1, <2>1
  <2>3. ReadsRest(raws, y + 1, longest)
    BY <1>4, <2>2
  <2>4. ReadsRest(raws, y, longest)
    BY <2>2, <2>3, ReadsMore
  <2>5. QED
    BY <2>1, <2>2, <2>4
<1> HIDE DEF G
<1>5. \A x \in 0 .. n : x \in G
  <2> HIDE DEF n
  <2>1. QED
    BY <1>1, <1>3, <1>4, Counting, Zenon
<1>6. n \in 0 .. n /\ n - n = 0
  BY <1>1
<1>7. ReadsRest(raws, 0, longest)
  <2>1. n \in G
    BY <1>5, <1>6, Zenon
  <2>2. ReadsRest(raws, n - n, longest)
    BY <2>1 DEF G
  <2>3. QED
    BY <1>6, <2>2
<1>8. Flattened(raws, 0) = <<>>
  BY Zenon DEF Flattened
<1>9. Between(raws, 0, Len(raws)) = raws
  <2>1. 0 + 1 = 1
    OBVIOUS
  <2>2. SubSeq(raws, 1, Len(raws)) = raws
    BY SubSeqFull
  <2>3. QED
    BY <2>1, <2>2 DEF Between
<1>10. PICK r : r = ReadOf(t, longest)[0]
  OBVIOUS
<1>11. r \in ReadResult /\ r.ok /\ r.fields = raws
  <2>1. Len(Flattened(raws, 0)) = 0
    BY <1>8
  <2>2. QED
    BY <1>7, <1>9, <1>10, <2>1 DEF ReadsRest
<1>12. r = [ok |-> TRUE, fields |-> raws]
  BY <1>11 DEF ReadResult
<1>13. ReadFieldsOf(FlattenSeq(raws), longest) = r
  <2>1. FlattenSeq(raws) = t
    BY FlattenSeqIs
  <2>2. ReadFieldsOf(t, longest) = r
    BY <1>10, ReadFieldsIs
  <2>3. QED
    BY <2>1, <2>2
<1>14. QED
  BY <1>12, <1>13
-----------------------------------------------------------------------------
(* Whole fields and valid ones *)

AllValid(raws) == \A i \in DOMAIN raws : validateRawField(raws[i])

LEMMA ValidWhole ==
    ASSUME NEW s
    PROVE  validateRawField(s) <=> WholeField(s, MaxTag)
  BY Zenon DEF validateRawField, WholeField, FieldEnd

\* Inside groups the loops do the same.
LEMMA InGroupsAlike ==
    ASSUME NEW a, NEW b, NEW s \in Seq(Byte), NEW i \in Nat, NEW open \in Seq(Nat), open # <<>>
    PROVE  SkipOf(s, a)[<<i, open>>] = SkipOf(s, b)[<<i, open>>]
<1> DEFINE Same(y, p) == y # <<>> => SkipOf(s, a)[p] = SkipOf(s, b)[p]
           G == {p \in Nat \X Seq(Nat) : Same(p[2], p)}
<1>1. \A x, y : <<x, y>>[2] = y
  OBVIOUS
<1>2. ASSUME NEW x \in Nat, NEW y \in Seq(Nat)
      PROVE  <<x, y>> \in G <=> Same(y, <<x, y>>)
  <2>1. <<x, y>> \in Nat \X Seq(Nat)
    OBVIOUS
  <2>2. QED
    BY <1>1, <2>1, Zenon
<1> HIDE DEF G
<1>3. ASSUME NEW x \in Nat, NEW y \in Seq(Nat),
             \A j \in Nat, o \in Seq(Nat) : x < j /\ j <= Len(s) => <<j, o>> \in G
      PROVE  <<x, y>> \in G
  <2>1. SUFFICES ASSUME y # <<>> PROVE SkipOf(s, a)[<<x, y>>] = SkipOf(s, b)[<<x, y>>]
    BY <1>2, Zenon
  <2>2. PICK m : m = Move(s, x, Len(s), y, a)
    OBVIOUS
  <2>3. m = Move(s, x, Len(s), y, b)
    <3>1. TagLimit(y, a) = TagLimit(y, b)
      BY <2>1, Zenon DEF TagLimit
    <3>2. QED
      BY <2>2, <3>1, Zenon DEF Move
  <2>4. SkipOf(s, a)[<<x, y>>] = Skipped(m, SkipOf(s, a))
    BY <2>2, SkipIs
  <2>5. SkipOf(s, b)[<<x, y>>] = Skipped(m, SkipOf(s, b))
    BY <2>3, SkipIs
  <2>6. Skipped(m, SkipOf(s, a)) = Skipped(m, SkipOf(s, b))
    <3>1. CASE ~m.ok \/ m.open = <<>>
      BY <3>1, Zenon DEF Skipped
    <3>2. CASE m.ok /\ m.open # <<>>
      <4>1. m.to \in Nat /\ x < m.to /\ m.to <= Len(s) /\ m.open \in Seq(Nat)
        BY <2>2, <3>2, MoveEnds
      <4>2. SkipOf(s, a)[<<m.to, m.open>>] = SkipOf(s, b)[<<m.to, m.open>>]
        BY <1>2, <1>3, <3>2, <4>1, Zenon
      <4>3. QED
        BY <3>2, <4>2, Zenon DEF Skipped
    <3>3. QED
      BY <3>1, <3>2, Zenon
  <2>7. QED
    BY <2>4, <2>5, <2>6, Zenon
<1>4. <<i, open>> \in G
  BY <1>3, SkipInduct, Zenon
<1>5. QED
  BY <1>2, <1>4, Zenon

\* A field with a tag that nextTag reads is a field to the loop of the type.
LEMMA ValidIsWhole ==
    ASSUME NEW s \in Seq(Byte), validateRawField(s)
    PROVE  WholeField(s, LongestTag)
<1>1. PICK a, b : a = MaxTag /\ b = MaxVarint
  OBVIOUS
<1>2. WholeField(s, a)
  BY <1>1, ValidWhole
<1>3. CASE ~RawTags
  BY <1>1, <1>2, <1>3, Zenon DEF LongestTag
<1>4. CASE RawTags
  <2>1. PICK i, e, none : i = 0 /\ e = Len(s) /\ none = <<>>
    OBVIOUS
  <2>2. i \in Nat /\ e \in Nat /\ e <= Len(s) /\ none \in Seq(Nat)
    BY <2>1
  <2>3. PICK m, n : m = Move(s, i, Len(s), none, a) /\ n = Move(s, i, Len(s), none, b)
    OBVIOUS
  <2>4. Skipped(m, SkipOf(s, a)) = e
    <3>1. SkipOf(s, a)[<<i, none>>] = e
      BY <1>2, <2>1, FieldEndIs DEF WholeField
    <3>2. QED
      BY <2>2, <2>3, <3>1, SkipIs
  <2>5. m.ok
    <3>1. e # Failed
      BY <2>2 DEF Failed
    <3>2. QED
      BY <2>4, <3>1, Zenon DEF Skipped
  <2>6. TagLimit(none, a) = a /\ TagLimit(none, b) = b
    BY <2>1 DEF TagLimit
  <2>7. readTag(s, i, e, a).ok
    BY <2>1, <2>3, <2>5, <2>6, Zenon DEF Move, Refused
  <2>8. readTag(s, i, e, b) = readTag(s, i, e, a)
    <3>1. i <= e
      BY <2>2, <2>7, TagInFront
    <3>2. PICK v : v = readVarint(s, i, e)
      OBVIOUS
    <3>3. v.ok /\ v.index - i <= a
      BY <2>7, <3>2 DEF readTag
    <3>4. v.index - i <= b
      BY <2>2, <3>1, <3>2, VarintInside, <1>1
    <3>5. QED
      BY <3>2, <3>3, <3>4, Zenon DEF readTag
  <2>9. n = m
    BY <2>1, <2>3, <2>6, <2>8, Zenon DEF Move
  <2>10. Skipped(m, SkipOf(s, b)) = e
    <3>1. CASE m.open = <<>>
      BY <2>4, <2>5, <3>1, Zenon DEF Skipped
    <3>2. CASE m.open # <<>>
      <4>1. m.to \in Nat /\ m.open \in Seq(Nat)
        BY <2>2, <2>3, <2>5, MoveEnds
      <4>2. SkipOf(s, a)[<<m.to, m.open>>] = SkipOf(s, b)[<<m.to, m.open>>]
        BY <3>2, <4>1, InGroupsAlike
      <4>3. QED
        BY <2>4, <2>5, <3>2, <4>2, Zenon DEF Skipped
    <3>3. QED
      BY <3>1, <3>2, Zenon
  <2>11. SkipOf(s, b)[<<i, none>>] = e
    BY <2>2, <2>3, <2>9, <2>10, SkipIs
  <2>12. WholeField(s, b)
    BY <2>1, <2>11, FieldEndIs DEF WholeField
  <2>13. QED
    BY <1>1, <1>4, <2>12, Zenon DEF LongestTag
<1>5. QED
  BY <1>3, <1>4, Zenon


-----------------------------------------------------------------------------
(* The binary search over the runs of numbers *)

Middle(low, high) == low + (high - low) \div 2

Searches(runs, number, low, high, Search) ==
    IF low >= high THEN 0
    ELSE IF runs[Middle(low, high) + 1].number < number
    THEN Search[<<Middle(low, high) + 1, high>>]
    ELSE IF runs[Middle(low, high) + 1].number > number
    THEN Search[<<low, Middle(low, high)>>]
    ELSE runs[Middle(low, high) + 1].count

SearchBy(runs, number, Search) ==
    Search = [span \in (0 .. Len(runs)) \X (0 .. Len(runs)) |->
                 Searches(runs, number, span[1], span[2], Search)]

SearchOf(runs, number) == CHOOSE Search : SearchBy(runs, number, Search)

LEMMA RunCountIs ==
    ASSUME NEW runs, NEW number
    PROVE  rawFieldNumberRunCount(runs, number) = SearchOf(runs, number)[<<0, Len(runs)>>]
  BY Zenon DEF rawFieldNumberRunCount, SearchOf, SearchBy, Searches, Middle

Run == [number : Int, count : Int]

LEMMA MiddleInside ==
    ASSUME NEW low \in Nat, NEW high \in Nat, low < high
    PROVE  Middle(low, high) \in Nat /\ low <= Middle(low, high) /\ Middle(low, high) < high
  BY DEF Middle

LEMMA SearchExists ==
    ASSUME NEW runs \in Seq(Run), NEW number \in Int
    PROVE  \E Search : SearchBy(runs, number, Search)
<1> DEFINE n == Len(runs)
           D == (0 .. n) \X (0 .. n)
           At(p) == runs[Middle(p[1], p[2]) + 1]
           Open(p) == p[1] < p[2]
           C == {p \in D : Open(p) /\ At(p).number # number}
           next == [p \in D |-> IF At(p).number < number THEN <<Middle(p[1], p[2]) + 1, p[2]>>
                                ELSE <<p[1], Middle(p[1], p[2])>>]
           step == [p \in D |-> [x \in Int |-> x]]
           final == [p \in D |-> IF Open(p) THEN At(p).count ELSE 0]
           rank == [p \in D |-> IF Open(p) THEN p[2] - p[1] ELSE 0]
<1>1. n \in Nat
  OBVIOUS
<1>2. ASSUME NEW p \in D PROVE p[1] \in 0 .. n /\ p[2] \in 0 .. n
  BY <1>2
<1>3. rank \in [D -> 0 .. n]
  BY <1>1, <1>2
<1>4. ASSUME NEW p \in D, Open(p)
      PROVE  /\ Middle(p[1], p[2]) \in 0 .. n /\ Middle(p[1], p[2]) + 1 \in 1 .. n
             /\ p[1] <= Middle(p[1], p[2]) /\ Middle(p[1], p[2]) < p[2]
             /\ At(p).number \in Int /\ At(p).count \in Int
  <2>1. PICK low, high : low = p[1] /\ high = p[2]
    OBVIOUS
  <2>2. low \in 0 .. n /\ high \in 0 .. n /\ low < high
    BY <1>2, <1>4, <2>1
  <2>3. PICK mid : mid = Middle(low, high)
    OBVIOUS
  <2>4. mid \in Nat /\ low <= mid /\ mid < high
    BY <1>1, <2>2, <2>3, MiddleInside
  <2>5. mid \in 0 .. n /\ mid + 1 \in 1 .. n
    BY <1>1, <2>2, <2>4
  <2>6. runs[mid + 1] \in Run
    BY <2>5, ElementOfSeq
  <2>7. runs[mid + 1].number \in Int /\ runs[mid + 1].count \in Int
    BY <2>6 DEF Run
  <2>8. QED
    BY <2>1, <2>3, <2>4, <2>5, <2>7
<1>5. ASSUME NEW p \in D \cap C
      PROVE  next[p] \in D /\ rank[next[p]] < rank[p] /\ step[p] \in [Int -> Int]
  <2>1. p \in D /\ Open(p) /\ At(p).number # number
    BY <1>5
  <2>2. PICK low, high, mid : low = p[1] /\ high = p[2] /\ mid = Middle(low, high)
    OBVIOUS
  <2>3. /\ mid \in 0 .. n /\ mid + 1 \in 1 .. n /\ low <= mid /\ mid < high
        /\ low \in 0 .. n /\ high \in 0 .. n /\ low < high
    BY <1>2, <1>4, <2>1, <2>2
  <2>4. next[p] = IF At(p).number < number THEN <<mid + 1, high>> ELSE <<low, mid>>
    BY <2>1, <2>2
  <2>5. rank[p] = high - low
    BY <2>1, <2>2
  <2>6. step[p] \in [Int -> Int]
    BY <2>1
  <2>7. ASSUME NEW x \in 0 .. n, NEW y \in 0 .. n, x <= y
        PROVE  <<x, y>> \in D /\ rank[<<x, y>>] = y - x
    <3>1. PICK q : q = <<x, y>>
      OBVIOUS
    <3>2. q \in D /\ q[1] = x /\ q[2] = y
      BY <3>1
    <3>3. rank[q] = IF x < y THEN y - x ELSE 0
      BY <3>2
    <3>4. rank[q] = y - x
      BY <1>1, <2>7, <3>3
    <3>5. QED
      BY <3>1, <3>2, <3>4
  <2> HIDE DEF D, rank, next, step
  <2>8. CASE At(p).number < number
    <3>1. next[p] = <<mid + 1, high>> /\ mid + 1 \in 0 .. n /\ mid + 1 <= high
      BY <1>1, <2>3, <2>4, <2>8
    <3>2. <<mid + 1, high>> \in D /\ rank[<<mid + 1, high>>] = high - (mid + 1)
      BY <2>3, <2>7, <3>1
    <3>3. rank[<<mid + 1, high>>] < rank[p]
      BY <1>1, <2>3, <2>5, <3>2
    <3>4. QED
      BY <2>6, <3>1, <3>2, <3>3
  <2>9. CASE ~(At(p).number < number)
    <3>1. next[p] = <<low, mid>>
      BY <2>4, <2>9
    <3>2. <<low, mid>> \in D /\ rank[<<low, mid>>] = mid - low
      BY <2>3, <2>7
    <3>3. rank[<<low, mid>>] < rank[p]
      BY <1>1, <2>3, <2>5, <3>2
    <3>4. QED
      BY <2>6, <3>1, <3>2, <3>3
  <2>10. QED
    BY <2>8, <2>9, Zenon
<1>6. ASSUME NEW p \in D \ C PROVE final[p] \in Int
  <2>1. final[p] = IF Open(p) THEN At(p).count ELSE 0
    BY <1>6
  <2>2. QED
    BY <1>4, <1>6, <2>1
<1> HIDE DEF D, C, next, step, final, rank
<1>7. PICK f \in [D -> Int] : Recursion(D, C, next, step, final, f)
  <2> HIDE DEF n, At, Open
  <2>1. QED
    BY <1>1, <1>3, <1>5, <1>6, RecursionExists, Zenon
<1>8. ASSUME NEW p \in D PROVE f[p] = Searches(runs, number, p[1], p[2], f)
  <2>1. f[p] = IF p \in C THEN step[p][f[next[p]]] ELSE final[p]
    BY <1>7, <1>8, Zenon DEF Recursion
  <2>2. PICK low, high, mid : low = p[1] /\ high = p[2] /\ mid = Middle(low, high)
    OBVIOUS
  <2>a. low \in 0 .. n /\ high \in 0 .. n
    BY <1>2, <1>8, <2>2
  <2>b. Open(p) <=> ~(low >= high)
    BY <1>1, <2>2, <2>a
  <2>c. final[p] = IF Open(p) THEN At(p).count ELSE 0
    BY <1>8, Zenon DEF final
  <2>d. At(p) = runs[mid + 1]
    BY <2>2
  <2>3. CASE p \in C
    <3>1. Open(p) /\ At(p).number # number
      BY <2>3 DEF C
    <3>2. next[p] \in D
      BY <1>5, <1>8, <2>3
    <3>3. f[next[p]] \in Int
      BY <3>2
    <3>4. step[p][f[next[p]]] = f[next[p]]
      BY <1>8, <3>3 DEF step
    <3>5. next[p] = IF At(p).number < number THEN <<mid + 1, high>> ELSE <<low, mid>>
      BY <1>8, <2>2, Zenon DEF next
    <3>6. At(p).number \in Int
      BY <1>4, <1>8, <3>1
    <3>7. ~(At(p).number < number) => At(p).number > number
      BY <3>1, <3>6
    <3>8. f[p] = IF At(p).number < number THEN f[<<mid + 1, high>>] ELSE f[<<low, mid>>]
      BY <2>1, <2>3, <3>4, <3>5
    <3> HIDE DEF At
    <3>9. QED
      BY <2>2, <2>b, <2>d, <3>1, <3>7, <3>8, Zenon DEF Searches
  <2>4. CASE p \notin C
    <3>1. CASE Open(p)
      <4>1. At(p).number = number
        BY <1>8, <2>4, <3>1 DEF C
      <4>2. ~(At(p).number < number) /\ ~(At(p).number > number)
        BY <4>1
      <4>3. f[p] = At(p).count
        BY <2>1, <2>4, <2>c, <3>1
      <4> HIDE DEF At
      <4>4. QED
        BY <2>2, <2>b, <2>d, <3>1, <4>2, <4>3, Zenon DEF Searches
    <3>2. CASE ~Open(p)
      <4>1. f[p] = 0
        BY <2>1, <2>4, <2>c, <3>2
      <4>2. low >= high
        BY <2>b, <3>2, Zenon
      <4>3. QED
        BY <2>2, <4>1, <4>2, Zenon DEF Searches
    <3>3. QED
      BY <3>1, <3>2
  <2>5. QED
    BY <2>3, <2>4
<1>9. f = [p \in D |-> Searches(runs, number, p[1], p[2], f)]
  <2> DEFINE P(p) == Searches(runs, number, p[1], p[2], f)
  <2>1. \A p \in D : f[p] = P(p)
    BY <1>8, Zenon
  <2> HIDE DEF P
  <2>2. f = [p \in D |-> P(p)]
    BY <1>7, <2>1
  <2>3. QED
    BY <2>2, Zenon DEF P
<1>10. QED
  BY <1>9, Zenon DEF SearchBy, D

LEMMA SearchIs ==
    ASSUME NEW runs \in Seq(Run), NEW number \in Int,
           NEW low \in 0 .. Len(runs), NEW high \in 0 .. Len(runs)
    PROVE  SearchOf(runs, number)[<<low, high>>]
               = Searches(runs, number, low, high, SearchOf(runs, number))
<1>1. PICK f : f = SearchOf(runs, number)
  OBVIOUS
<1>2. SearchBy(runs, number, f)
  BY <1>1, SearchExists, Zenon DEF SearchOf
<1>3. PICK p : p = <<low, high>>
  OBVIOUS
<1>4. p \in (0 .. Len(runs)) \X (0 .. Len(runs)) /\ p[1] = low /\ p[2] = high
  BY <1>3
<1>5. f[p] = Searches(runs, number, p[1], p[2], f)
  BY <1>2, <1>4, Zenon DEF SearchBy
<1>6. QED
  BY <1>1, <1>3, <1>4, <1>5

Increasing(runs) ==
    \A k, l \in 1 .. Len(runs) : k < l => runs[k].number < runs[l].number

\* r is the count of the run behind low and up to high, if there is one.
Finds(runs, number, low, high, r) ==
    /\ \A k \in low + 1 .. high : runs[k].number = number => r = runs[k].count
    /\ (\A k \in low + 1 .. high : runs[k].number # number) => r = 0

LEMMA SearchFinds ==
    ASSUME NEW runs \in Seq(Run), Increasing(runs), NEW number \in Int,
           NEW low \in 0 .. Len(runs), NEW high \in 0 .. Len(runs)
    PROVE  Finds(runs, number, low, high, SearchOf(runs, number)[<<low, high>>])
<1> DEFINE n == Len(runs)
           D == (0 .. n) \X (0 .. n)
           G == {p \in D : Finds(runs, number, p[1], p[2], SearchOf(runs, number)[p])}
           rank == [p \in D |-> IF p[1] < p[2] THEN p[2] - p[1] ELSE 0]
<1>1. n \in Nat
  OBVIOUS
<1>2. rank \in [D -> Nat]
  <2>1. \A p \in D : p[1] \in 0 .. n /\ p[2] \in 0 .. n
    OBVIOUS
  <2>2. QED
    BY <1>1, <2>1
<1>3. ASSUME NEW x \in 0 .. n, NEW y \in 0 .. n
      PROVE  /\ <<x, y>> \in D
             /\ rank[<<x, y>>] = IF x < y THEN y - x ELSE 0
             /\ <<x, y>> \in G <=> Finds(runs, number, x, y, SearchOf(runs, number)[<<x, y>>])
  <2>1. PICK q : q = <<x, y>>
    OBVIOUS
  <2>2. q \in D /\ q[1] = x /\ q[2] = y
    BY <2>1
  <2>3. rank[q] = IF x < y THEN y - x ELSE 0
    BY <2>2
  <2>4. q \in G <=> Finds(runs, number, x, y, SearchOf(runs, number)[q])
    BY <2>2
  <2>5. QED
    BY <2>1, <2>2, <2>3, <2>4
<1>4. \A k \in 1 .. n : runs[k].number \in Int /\ runs[k].count \in Int
  <2>1. \A k \in 1 .. n : runs[k] \in Run
    BY ElementOfSeq
  <2>2. QED
    BY <2>1 DEF Run
<1>5. ASSUME NEW p \in D PROVE \E x \in 0 .. n, y \in 0 .. n : p = <<x, y>>
  BY <1>5
<1> HIDE DEF D, G, rank
<1>6. ASSUME NEW p \in D, \A q \in D : rank[q] < rank[p] => q \in G
      PROVE  p \in G
  <2>1. PICK x \in 0 .. n, y \in 0 .. n : p = <<x, y>>
    BY <1>5, <1>6
  <2>2. PICK f : f = SearchOf(runs, number)
    OBVIOUS
  <2>3. PICK r, mid : r = f[<<x, y>>] /\ mid = Middle(x, y)
    OBVIOUS
  <2>4. r = Searches(runs, number, x, y, f)
    <3> HIDE DEF n
    <3>1. QED
      BY <2>1, <2>2, <2>3, SearchIs DEF n
  <2>5. CASE x >= y
    <3>1. r = 0
      BY <2>4, <2>5, Zenon DEF Searches
    <3>2. x + 1 .. y = {}
      BY <1>1, <2>5
    <3>3. Finds(runs, number, x, y, r)
      BY <3>1, <3>2, Zenon DEF Finds
    <3>4. QED
      BY <1>3, <2>1, <2>2, <2>3, <3>3, Zenon
  <2>6. CASE ~(x >= y)
    <3>1. /\ mid \in 0 .. n /\ mid + 1 \in 1 .. n /\ x <= mid /\ mid < y /\ x < y
          /\ mid + 1 \in 0 .. n
      <4>1. x < y /\ x \in Nat /\ y \in Nat
        BY <1>1, <2>6
      <4>2. mid \in Nat /\ x <= mid /\ mid < y
        BY <2>3, <4>1, MiddleInside
      <4>3. QED
        BY <1>1, <4>1, <4>2
    <3>2. PICK found : found = runs[mid + 1].number
      OBVIOUS
    <3>3. found \in Int
      BY <1>4, <3>1, <3>2
    <3>4. ASSUME NEW k \in 1 .. n
          PROVE  /\ k < mid + 1 => runs[k].number < found
                 /\ k > mid + 1 => runs[k].number > found
      <4>1. runs[k].number \in Int
        BY <1>4
      <4>2. k < mid + 1 => runs[k].number < found
        BY <3>1, <3>2, <3>4, Zenon DEF Increasing, n
      <4>3. mid + 1 < k => found < runs[k].number
        BY <3>1, <3>2, <3>4, Zenon DEF Increasing, n
      <4>4. QED
        BY <1>1, <3>1, <3>3, <4>1, <4>2, <4>3
    <3>5. \A k \in x + 1 .. y : k \in 1 .. n
      BY <1>1
    <3>6. CASE found < number
      <4>1. r = f[<<mid + 1, y>>]
        BY <2>3, <2>4, <2>6, <3>2, <3>6, Zenon DEF Searches
      <4>2. rank[<<mid + 1, y>>] < rank[p]
        <5>1. /\ rank[<<mid + 1, y>>] = IF mid + 1 < y THEN y - (mid + 1) ELSE 0
              /\ rank[<<x, y>>] = IF x < y THEN y - x ELSE 0
          BY <1>3, <3>1, Zenon
        <5>2. QED
          BY <1>1, <2>1, <3>1, <5>1
      <4>3. Finds(runs, number, mid + 1, y, r)
        <5>1. <<mid + 1, y>> \in D
          BY <1>3, <3>1, Zenon
        <5>2. <<mid + 1, y>> \in G
          BY <1>6, <4>2, <5>1, Zenon
        <5>3. Finds(runs, number, mid + 1, y, f[<<mid + 1, y>>])
          BY <1>3, <2>2, <3>1, <5>2, Zenon
        <5>4. QED
          BY <4>1, <5>3, Zenon
      <4>4. \A k \in x + 1 .. y : runs[k].number = number => k \in (mid + 1) + 1 .. y
        <5>1. TAKE k \in x + 1 .. y
        <5>2. k \in 1 .. n
          BY <3>5
        <5>3. runs[k].number = number => ~(k < mid + 1) /\ k # mid + 1
          BY <1>4, <3>2, <3>3, <3>4, <3>6, <5>2
        <5>4. QED
          BY <1>1, <3>1, <5>2, <5>3
      <4>5. \A k \in (mid + 1) + 1 .. y : k \in x + 1 .. y
        BY <1>1, <3>1
      <4>6. Finds(runs, number, x, y, r)
        BY <4>3, <4>4, <4>5, Zenon DEF Finds
      <4>7. QED
        BY <1>3, <2>1, <2>2, <2>3, <4>6, Zenon
    <3>7. CASE found > number
      <4>1. ~(found < number)
        BY <3>3, <3>7
      <4>2. r = f[<<x, mid>>]
        BY <2>3, <2>4, <2>6, <3>2, <3>7, <4>1, Zenon DEF Searches
      <4>3. rank[<<x, mid>>] < rank[p]
        <5>1. /\ rank[<<x, mid>>] = IF x < mid THEN mid - x ELSE 0
              /\ rank[<<x, y>>] = IF x < y THEN y - x ELSE 0
          BY <1>3, <3>1, Zenon
        <5>2. QED
          BY <1>1, <2>1, <3>1, <5>1
      <4>4. Finds(runs, number, x, mid, r)
        <5>1. <<x, mid>> \in D
          BY <1>3, <3>1, Zenon
        <5>2. <<x, mid>> \in G
          BY <1>6, <4>3, <5>1, Zenon
        <5>3. Finds(runs, number, x, mid, f[<<x, mid>>])
          BY <1>3, <2>2, <3>1, <5>2, Zenon
        <5>4. QED
          BY <4>2, <5>3, Zenon
      <4>5. \A k \in x + 1 .. y : runs[k].number = number => k \in x + 1 .. mid
        <5>1. TAKE k \in x + 1 .. y
        <5>2. k \in 1 .. n
          BY <3>5
        <5>3. runs[k].number = number => ~(k > mid + 1) /\ k # mid + 1
          BY <1>4, <3>2, <3>3, <3>4, <3>7, <5>2
        <5>4. QED
          BY <1>1, <3>1, <5>2, <5>3
      <4>6. \A k \in x + 1 .. mid : k \in x + 1 .. y
        BY <1>1, <3>1
      <4>7. Finds(runs, number, x, y, r)
        BY <4>4, <4>5, <4>6, Zenon DEF Finds
      <4>8. QED
        BY <1>3, <2>1, <2>2, <2>3, <4>7, Zenon
    <3>8. CASE found = number
      <4>1. ~(found < number) /\ ~(found > number)
        BY <3>3, <3>8
      <4>2. r = runs[mid + 1].count
        BY <2>3, <2>4, <2>6, <3>2, <4>1, Zenon DEF Searches
      <4>3. \A k \in x + 1 .. y : runs[k].number = number => k = mid + 1
        <5>1. TAKE k \in x + 1 .. y
        <5>2. k \in 1 .. n
          BY <3>5
        <5>3. runs[k].number = number => ~(k > mid + 1) /\ ~(k < mid + 1)
          BY <1>4, <3>3, <3>4, <3>8, <5>2
        <5>4. QED
          BY <1>1, <3>1, <5>2, <5>3
      <4>4. mid + 1 \in x + 1 .. y
        BY <1>1, <3>1
      <4>5. Finds(runs, number, x, y, r)
        BY <3>2, <3>8, <4>2, <4>3, <4>4, Zenon DEF Finds
      <4>6. QED
        BY <1>3, <2>1, <2>2, <2>3, <4>5, Zenon
    <3>9. QED
      BY <3>3, <3>6, <3>7, <3>8
  <2>7. QED
    BY <2>5, <2>6, Zenon
<1>7. D \subseteq G
  BY <1>2, <1>6, ByRank, Zenon
<1>8. QED
  <2>1. low \in 0 .. n /\ high \in 0 .. n
    OBVIOUS
  <2> HIDE DEF n
  <2>2. <<low, high>> \in G
    BY <1>3, <1>7, <2>1
  <2>3. QED
    BY <1>3, <2>1, <2>2, Zenon

-----------------------------------------------------------------------------
(* Counting by runs *)

NumberAt(raws) == [i \in DOMAIN raws |-> rawFieldNumber(raws[i])]

Present(raws) == ToSet(NumberAt(raws)) \ {0}

WithNumber(raws, number) == {i \in DOMAIN raws : rawFieldNumber(raws[i]) = number}

RunOf(raws, k) ==
    [number |-> Nth(Present(raws), k), count |-> Cardinality(WithNumber(raws, Nth(Present(raws), k)))]

Numbered(raws) == raws \in Seq(Seq(Byte)) /\ \A i \in DOMAIN raws : rawFieldNumber(raws[i]) \in Int

LEMMA NumberRunsAre ==
    ASSUME NEW raws
    PROVE  NumberRuns(raws) = [k \in 1 .. Cardinality(Present(raws)) |-> RunOf(raws, k)]
<1> DEFINE numbers == NumberAt(raws)
<1>1. \A i \in DOMAIN raws : numbers[i] = rawFieldNumber(raws[i])
  BY DEF NumberAt
<1>2. \A n : {i \in DOMAIN raws : numbers[i] = n} = WithNumber(raws, n)
  BY <1>1, Zenon DEF WithNumber
<1>3. NumberRuns(raws) = [k \in 1 .. Cardinality(Present(raws)) |->
          [number |-> Nth(Present(raws), k),
           count  |-> Cardinality({i \in DOMAIN raws : numbers[i] = Nth(Present(raws), k)})]]
  BY Zenon DEF NumberRuns, NumberAt, Present
<1>4. QED
  BY <1>2, <1>3, Zenon DEF RunOf

LEMMA PresentIs ==
    ASSUME NEW raws, Numbered(raws)
    PROVE  /\ Positions(Present(raws))
           /\ \A number : number \in Present(raws) <=>
                  number # 0 /\ \E i \in DOMAIN raws : rawFieldNumber(raws[i]) = number
<1> DEFINE numbers == NumberAt(raws)
<1>1. DOMAIN numbers = DOMAIN raws /\ \A i \in DOMAIN raws : numbers[i] = rawFieldNumber(raws[i])
  BY DEF NumberAt
<1>2. ToSet(numbers) = {numbers[i] : i \in DOMAIN raws}
  BY <1>1, Zenon DEF ToSet
<1>3. \A number : number \in Present(raws) <=>
          number # 0 /\ \E i \in DOMAIN raws : rawFieldNumber(raws[i]) = number
  <2> HIDE DEF numbers
  <2>1. \A number : number \in ToSet(numbers) <=> \E i \in DOMAIN raws : numbers[i] = number
    BY <1>2
  <2>2. QED
    BY <1>1, <2>1, Zenon DEF Present, numbers
<1>4. Present(raws) \subseteq Int
  BY <1>3 DEF Numbered
<1>5. IsFiniteSet(DOMAIN raws)
  <2>1. DOMAIN raws = 1 .. Len(raws) /\ Len(raws) \in Nat
    BY DEF Numbered
  <2>2. IsFiniteSet(1 .. Len(raws))
    BY <2>1, FS_Interval
  <2>3. QED
    BY <2>1, <2>2, Zenon
<1>6. IsFiniteSet(ToSet(numbers))
  <2>1. PICK T : T = ToSet(numbers)
    OBVIOUS
  <2>2. numbers \in Surjection(DOMAIN raws, T)
    <3>1. numbers \in [DOMAIN raws -> T]
      BY <1>1, <1>2, <2>1 DEF NumberAt
    <3>2. \A t \in T : \E i \in DOMAIN raws : numbers[i] = t
      BY <1>2, <2>1
    <3>3. QED
      BY <3>1, <3>2, Zenon DEF Surjection
  <2>3. IsFiniteSet(T)
    BY <1>5, <2>2, FS_Surjection
  <2>4. QED
    BY <2>1, <2>3
<1>7. IsFiniteSet(Present(raws))
  BY <1>6, FS_Difference, Zenon DEF Present
<1>8. QED
  BY <1>3, <1>4, <1>7 DEF Positions

LEMMA CountOfNumber ==
    ASSUME NEW raws, Numbered(raws), NEW number
    PROVE  IsFiniteSet(WithNumber(raws, number)) /\ Cardinality(WithNumber(raws, number)) \in Nat
<1>1. DOMAIN raws = 1 .. Len(raws) /\ Len(raws) \in Nat
  BY DEF Numbered
<1>2. IsFiniteSet(1 .. Len(raws))
  BY <1>1, FS_Interval
<1>3. WithNumber(raws, number) \in SUBSET (1 .. Len(raws))
  BY <1>1 DEF WithNumber
<1>4. QED
  BY <1>2, <1>3, FS_Subset, FS_CardinalityType

LEMMA RunsIncrease ==
    ASSUME NEW raws, Numbered(raws)
    PROVE  /\ NumberRuns(raws) \in Seq(Run)
           /\ Len(NumberRuns(raws)) = Cardinality(Present(raws))
           /\ Increasing(NumberRuns(raws))
           /\ \A k \in 1 .. Cardinality(Present(raws)) :
                  /\ NumberRuns(raws)[k].number = Nth(Present(raws), k)
                  /\ NumberRuns(raws)[k].count
                         = Cardinality(WithNumber(raws, Nth(Present(raws), k)))
<1> DEFINE I == Present(raws)
           n == Cardinality(I)
           runs == NumberRuns(raws)
<1>1. Positions(I)
  BY PresentIs
<1>2. n \in Nat
  BY <1>1, FS_CardinalityType DEF Positions
<1>3. runs = [k \in 1 .. n |-> RunOf(raws, k)]
  BY NumberRunsAre, Zenon
<1>4. \A k \in 1 .. n : Nth(I, k) \in I /\ Rank(I, Nth(I, k)) = k
  <2> HIDE DEF I
  <2>1. QED
    BY <1>1, NthExists
<1>5. \A k \in 1 .. n : Nth(I, k) \in Int
  BY <1>1, <1>4 DEF Positions
<1>6. \A k \in 1 .. n : /\ RunOf(raws, k) \in Run
                        /\ RunOf(raws, k).number = Nth(I, k)
                        /\ RunOf(raws, k).count = Cardinality(WithNumber(raws, Nth(I, k)))
  <2>1. TAKE k \in 1 .. n
  <2>2. Cardinality(WithNumber(raws, Nth(I, k))) \in Nat
    BY CountOfNumber, Zenon
  <2>3. QED
    BY <1>5, <2>2 DEF RunOf, Run
<1> HIDE DEF I
<1>7. runs \in [1 .. n -> Run]
  <2> HIDE DEF n, runs
  <2>1. QED
    BY <1>3, <1>6
<1>8. \A k \in 1 .. n : runs[k] = RunOf(raws, k)
  BY <1>3, Zenon
<1> HIDE DEF n, runs
<1>9. runs \in Seq(Run) /\ Len(runs) = n
  BY <1>2, <1>7
<1>10. ASSUME NEW k \in 1 .. n, NEW l \in 1 .. n, k < l
       PROVE  runs[k].number < runs[l].number
  <2>1. PICK a, b : a = Nth(I, k) /\ b = Nth(I, l)
    OBVIOUS
  <2>2. a \in I /\ b \in I /\ a \in Int /\ b \in Int /\ Rank(I, a) = k /\ Rank(I, b) = l
    BY <1>4, <1>5, <2>1, Zenon
  <2>3. b < a => Rank(I, b) < Rank(I, a)
    BY <1>1, <2>2, RankGrows
  <2>4. a < b
    BY <1>10, <2>2, <2>3
  <2>5. runs[k].number = a /\ runs[l].number = b
    BY <1>6, <1>8, <2>1, Zenon
  <2>6. QED
    BY <2>4, <2>5
<1>11. Increasing(runs)
  BY <1>9, <1>10, Zenon DEF Increasing
<1>12. QED
  BY <1>6, <1>8, <1>9, <1>11, Zenon DEF I, n, runs

LEMMA RunCounts ==
    ASSUME NEW raws, Numbered(raws), NEW number \in Int, number # 0
    PROVE  rawFieldNumberRunCount(NumberRuns(raws), number) = Cardinality(WithNumber(raws, number))
<1>1. PICK runs, n : runs = NumberRuns(raws) /\ n = Cardinality(Present(raws))
  OBVIOUS
<1>2. /\ runs \in Seq(Run) /\ Len(runs) = n /\ n \in Nat /\ Increasing(runs)
      /\ \A k \in 1 .. n :
             /\ runs[k].number = Nth(Present(raws), k)
             /\ runs[k].count = Cardinality(WithNumber(raws, Nth(Present(raws), k)))
  <2>1. n \in Nat
    BY <1>1, PresentIs, FS_CardinalityType DEF Positions
  <2>2. QED
    BY <1>1, <2>1, RunsIncrease
<1>3. PICK r : r = SearchOf(runs, number)[<<0, n>>]
  OBVIOUS
<1>4. Finds(runs, number, 0, n, r)
  <2>1. 0 \in 0 .. Len(runs) /\ n \in 0 .. Len(runs)
    BY <1>2
  <2>2. PICK z : z = 0
    OBVIOUS
  <2>3. Finds(runs, number, z, n, SearchOf(runs, number)[<<z, n>>])
    BY <1>2, <2>1, <2>2, SearchFinds, Zenon
  <2>4. QED
    BY <1>3, <2>2, <2>3
<1>5. /\ \A k \in 1 .. n : runs[k].number = number => r = runs[k].count
      /\ (\A k \in 1 .. n : runs[k].number # number) => r = 0
  <2>1. 0 + 1 = 1
    OBVIOUS
  <2>2. QED
    BY <1>4, <2>1 DEF Finds
<1>6. r = Cardinality(WithNumber(raws, number))
  <2>1. CASE \E i \in DOMAIN raws : rawFieldNumber(raws[i]) = number
    <3>1. number \in Present(raws) /\ Positions(Present(raws))
      BY <2>1, PresentIs
    <3>2. PICK k : k = Rank(Present(raws), number)
      OBVIOUS
    <3>3. k \in 1 .. n /\ Nth(Present(raws), k) = number
      BY <1>1, <3>1, <3>2, RankGrows, NthIs
    <3>4. QED
      BY <1>2, <1>5, <3>3
  <2>2. CASE ~ \E i \in DOMAIN raws : rawFieldNumber(raws[i]) = number
    <3>1. WithNumber(raws, number) = {}
      BY <2>2 DEF WithNumber
    <3>2. Cardinality(WithNumber(raws, number)) = 0
      BY <3>1, FS_EmptySet
    <3>3. number \notin Present(raws) /\ Positions(Present(raws))
      BY <2>2, PresentIs
    <3>4. \A k \in 1 .. n : Nth(Present(raws), k) \in Present(raws)
      BY <1>1, <3>3, NthExists
    <3>5. \A k \in 1 .. n : runs[k].number # number
      BY <1>2, <3>3, <3>4
    <3>6. QED
      BY <1>5, <3>2, <3>5
  <2>3. QED
    BY <2>1, <2>2
<1>7. QED
  BY <1>1, <1>2, <1>3, <1>6, RunCountIs

-----------------------------------------------------------------------------
(* The first tag of a valid field *)

(* The tag takes k bytes, d are its groups of seven bits and n is the      *)
(* number in them.                                                         *)
TagBytes(s, k, d, n) ==
    /\ k \in 1 .. 5 /\ k <= Len(s)
    /\ d \in [1 .. 5 -> 0 .. 127] /\ d[5] <= 15
    /\ \A j \in 1 .. 5 : /\ j < k => s[j] = d[j] + 128
                         /\ j = k => s[j] = d[j]
                         /\ j > k => d[j] = 0
    /\ n = Combined(d[1], d[2], d[3], d[4], d[5]) /\ n # 0
    /\ d[1] % 8 \in 0 .. 5

LEMMA SevenBitsOf ==
    \A x \in 0 .. 255 : x = (x % 128) + (IF x < 128 THEN 0 ELSE 128)
  BY SMT

LEMMA VarintRead ==
    ASSUME NEW s, NEW i, NEW e, readVarint(s, i, e).ok
    PROVE  \E k \in VarintSizes(s, i, e) : readVarint(s, i, e).index = i + k
<1> DEFINE Index == CHOOSE k \in VarintSizes(s, i, e) : TRUE
           Read(k) == [ok |-> k < MaxVarint \/ s[i + k] <= 1, index |-> i + k]
<1>1. VarintSizes(s, i, e) # {}
  <2> SUFFICES ASSUME VarintSizes(s, i, e) = {} PROVE FALSE
    OBVIOUS
  <2>1. readVarint(s, i, e) =
            [ok |-> FALSE, index |-> IF e - i < MaxVarint THEN e ELSE i + MaxVarint]
    BY Zenon DEF readVarint, VarintSizes
  <2>2. QED
    BY <2>1
<1>2. readVarint(s, i, e) = Read(Index) /\ Index \in VarintSizes(s, i, e)
  BY <1>1, Zenon DEF readVarint, VarintSizes
<1>3. readVarint(s, i, e).index = i + Index
  <2>1. Read(Index).index = i + Index
    OBVIOUS
  <2>2. QED
    BY <1>2, <2>1, Zenon
<1>4. QED
  BY <1>2, <1>3, Zenon

LEMMA TagOfBytes ==
    ASSUME NEW s \in Seq(Byte), FirstTag(s).ok
    PROVE  \E k, d : TagBytes(s, k, d, FirstTag(s).number)
<1> DEFINE v == readVarint(s, 0, Len(s))
           n == FirstTag(s).number
           D(j) == Digit(s, 0, v.index, j)
<1>1. /\ v.ok /\ v.index - 0 <= MaxTag /\ n = Number(s, 0, v.index) /\ n # 0
      /\ D(1) % 8 \in WireType
  BY DEF FirstTag, readTag
<1>2. PICK k \in VarintSizes(s, 0, Len(s)) : v.index = 0 + k
  <2>1. readVarint(s, 0, Len(s)).ok
    BY <1>1
  <2>2. QED
    BY <2>1, VarintRead, Zenon
<1>3. /\ k \in 1 .. MaxVarint /\ 0 + k <= Len(s) /\ s[0 + k] < 128
      /\ \A j \in 1 .. k - 1 : s[0 + j] >= 128
  BY <1>2, Zenon DEF VarintSizes
<1>4. v.index = k /\ k \in 1 .. 5 /\ k <= Len(s) /\ k \in Nat
  BY <1>1, <1>2, <1>3 DEF MaxVarint, MaxTag
<1> HIDE DEF v
<1>5. \A j \in 1 .. MaxVarint : D(j) \in 0 .. 127 /\ (j > k - 0 => D(j) = 0)
  BY <1>4, DigitBound, Zenon
<1> DEFINE d == [j \in 1 .. 5 |-> D(j)]
<1>6. \A j \in 1 .. 5 : j \in 1 .. MaxVarint
  BY DEF MaxVarint
<1>7. d \in [1 .. 5 -> 0 .. 127] /\ \A j \in 1 .. 5 : d[j] = D(j)
  BY <1>5, <1>6, Zenon
<1>8. ~(D(5) > 15 \/ \E j \in 6 .. MaxVarint : D(j) # 0)
  BY <1>1, Zenon DEF Number
<1>9. n = Combined(D(1), D(2), D(3), D(4), D(5))
  BY <1>1, <1>8, Zenon DEF Number, Combined
<1>10. 1 \in 1 .. 5 /\ 2 \in 1 .. 5 /\ 3 \in 1 .. 5 /\ 4 \in 1 .. 5 /\ 5 \in 1 .. 5
  BY SMT
<1>11. ASSUME NEW j \in 1 .. 5
       PROVE  /\ j < k => s[j] = d[j] + 128
              /\ j = k => s[j] = d[j]
              /\ j > k => d[j] = 0
  <2>1. d[j] = D(j) /\ j \in 1 .. MaxVarint
    BY <1>6, <1>7
  <2>2. j > k => D(j) = 0
    BY <1>4, <1>5, <2>1
  <2>3. j <= k => D(j) = s[j] % 128 /\ s[j] \in 0 .. 255
    <3>1. 0 + j = j
      OBVIOUS
    <3>2. j <= k => D(j) = s[j] % 128
      BY <1>4, <3>1 DEF Digit
    <3>3. j <= k => j \in 1 .. Len(s)
      BY <1>4
    <3>4. j <= k => s[j] \in Byte
      BY <3>3, ElementOfSeq
    <3>5. QED
      BY <3>2, <3>4 DEF Byte
  <2>4. /\ j < k => s[j] >= 128
        /\ j = k => s[j] < 128
    BY <1>3, <1>4
  <2> HIDE DEF D, d
  <2>5. j <= k => s[j] = D(j) + (IF s[j] < 128 THEN 0 ELSE 128)
    BY <2>3, SevenBitsOf
  <2>6. PICK x, y, z : x = s[j] /\ y = d[j] /\ z = D(j)
    OBVIOUS
  <2>7. y = z /\ k \in Nat /\ j \in Nat
    BY <1>4, <2>1, <2>6
  <2>9. j > k => z = 0
    BY <2>2, <2>6
  <2>10. j <= k => x \in 0 .. 255 /\ x = z + (IF x < 128 THEN 0 ELSE 128)
    BY <2>3, <2>5, <2>6, Zenon
  <2>11. (j < k => x >= 128) /\ (j = k => x < 128)
    BY <2>4, <2>6
  <2>12. z \in 0 .. 127
    BY <1>5, <2>1, <2>6
  <2>13. j < k => x = y + 128
    BY <2>7, <2>10, <2>11, <2>12
  <2>14. j = k => x = y
    BY <2>7, <2>10, <2>11, <2>12
  <2>15. j > k => y = 0
    BY <2>7, <2>9
  <2>8. QED
    BY <2>6, <2>13, <2>14, <2>15, Zenon
<1> HIDE DEF D, d, n
<1>12. d[5] <= 15
  <2>1. d[5] \in 0 .. 127 /\ ~(d[5] > 15)
    BY <1>7, <1>8, <1>10
  <2>2. \A x \in 0 .. 127 : ~(x > 15) => x <= 15
    OBVIOUS
  <2>3. QED
    BY <2>1, <2>2, Zenon
<1>13. n = Combined(d[1], d[2], d[3], d[4], d[5])
  BY <1>7, <1>9, <1>10, Zenon
<1>14. d[1] % 8 \in 0 .. 5
  BY <1>1, <1>7, <1>10 DEF WireType, Varint, Fixed32
<1>15. n # 0
  BY <1>1, Zenon DEF n
<1>16. TagBytes(s, k, d, n)
  BY <1>4, <1>7, <1>11, <1>12, <1>13, <1>14, <1>15, Zenon DEF TagBytes
<1>17. QED
  BY <1>16, Zenon DEF n

\* Big numbers are kept out of intervals.
LEMMA FieldNumberIs ==
    \A n : n \in FieldNumber <=> n \in Nat /\ n # 0 /\ n <= 536870911
<1>1. \A n : n \in FieldNumber <=> n \in Nat /\ n # 0 /\ n <= MaxFieldNumber
  <2>1. MaxFieldNumber \in Nat
    BY SMT DEF MaxFieldNumber
  <2>2. QED
    BY <2>1, SMT DEF FieldNumber
<1>2. \A n \in Nat : n <= MaxFieldNumber <=> n <= 536870911
  BY SMT DEF MaxFieldNumber
<1>3. QED
  BY <1>1, <1>2, SMT

Numbers(n, a, b, c, e, f) ==
    /\ n # 0 => n \in FieldNumber
    /\ n % 16 = a \div 8
    /\ b = 0 /\ c = 0 /\ e = 0 /\ f = 0 => n = a \div 8

LEMMA CombinedIs ==
    ASSUME NEW a \in 0 .. 127, NEW b \in 0 .. 127, NEW c \in 0 .. 127, NEW e \in 0 .. 127,
           NEW f \in 0 .. 15, NEW n, n = Combined(a, b, c, e, f)
    PROVE  Numbers(n, a, b, c, e, f)
<1>1. PICK h : h = a \div 8
  OBVIOUS
<1>2. h \in 0 .. 15
  BY <1>1, SMT
<1>3. PICK x : x = e + 128 * f
  OBVIOUS
<1>4. x \in Nat /\ x <= 2047
  BY <1>3, SMT
<1>5. PICK y : y = c + 128 * x
  OBVIOUS
<1>6. y \in Nat /\ y <= 262143
  BY <1>4, <1>5, SMT
<1>7. PICK z : z = b + 128 * y
  OBVIOUS
<1>8. z \in Nat /\ z <= 33554431
  BY <1>6, <1>7, SMT
<1>9. n = h + 16 * z
  BY <1>1, <1>3, <1>5, <1>7, Zenon DEF Combined
<1>10. n \in Nat /\ n <= 536870911 /\ n % 16 = h
  BY <1>2, <1>8, <1>9, SMT
<1>11. n # 0 => n \in FieldNumber
  BY <1>10, FieldNumberIs, SMT
<1>12. b = 0 /\ c = 0 /\ e = 0 /\ f = 0 => z = 0
  BY <1>3, <1>5, <1>7, SMT
<1>13. b = 0 /\ c = 0 /\ e = 0 /\ f = 0 => n = h
  BY <1>2, <1>9, <1>12, SMT
<1>14. n % 16 = h
  BY <1>10, SMT
<1>15. QED
  BY <1>1, <1>11, <1>13, <1>14, Zenon DEF Numbers

FromFirst(k, d, n) ==
    n \in FieldNumber /\ n % 16 = d[1] \div 8 /\ (k = 1 => n = d[1] \div 8)

LEMMA TagNumber ==
    ASSUME NEW s, NEW k, NEW d, NEW n, TagBytes(s, k, d, n)
    PROVE  FromFirst(k, d, n)
<1>1. /\ d[1] \in 0 .. 127 /\ d[2] \in 0 .. 127 /\ d[3] \in 0 .. 127 /\ d[4] \in 0 .. 127
      /\ d[5] \in 0 .. 15 /\ n # 0 /\ k \in 1 .. 5
  <2>1. d \in [1 .. 5 -> 0 .. 127] /\ d[5] <= 15 /\ n # 0 /\ k \in 1 .. 5
    BY Zenon DEF TagBytes
  <2>2. /\ d[1] \in 0 .. 127 /\ d[2] \in 0 .. 127 /\ d[3] \in 0 .. 127 /\ d[4] \in 0 .. 127
        /\ d[5] \in 0 .. 127
    BY <2>1
  <2>3. PICK f : f = d[5]
    OBVIOUS
  <2>4. f \in 0 .. 15
    BY <2>1, <2>2, <2>3
  <2>5. QED
    BY <2>1, <2>2, <2>3, <2>4, Zenon
<1>2. n = Combined(d[1], d[2], d[3], d[4], d[5])
  BY DEF TagBytes
<1>3. /\ n # 0 => n \in FieldNumber
      /\ n % 16 = d[1] \div 8
      /\ d[2] = 0 /\ d[3] = 0 /\ d[4] = 0 /\ d[5] = 0 => n = d[1] \div 8
  <2>1. PICK a, b, c, e, f : a = d[1] /\ b = d[2] /\ c = d[3] /\ e = d[4] /\ f = d[5]
    OBVIOUS
  <2>2. /\ a \in 0 .. 127 /\ b \in 0 .. 127 /\ c \in 0 .. 127 /\ e \in 0 .. 127 /\ f \in 0 .. 15
        /\ n = Combined(a, b, c, e, f)
    BY <1>1, <1>2, <2>1, Zenon
  <2>3. Numbers(n, a, b, c, e, f)
    BY <2>2, CombinedIs, Zenon
  <2>4. QED
    BY <2>1, <2>3, Zenon DEF Numbers
<1>4. k = 1 => d[2] = 0 /\ d[3] = 0 /\ d[4] = 0 /\ d[5] = 0
  BY DEF TagBytes
<1>5. QED
  BY <1>1, <1>3, <1>4, Zenon DEF FromFirst

(* A valid field has a tag, whose number is a field number.                *)
LEMMA ValidTag ==
    ASSUME NEW s \in Seq(Byte), validateRawField(s)
    PROVE  /\ s # <<>> /\ FirstTag(s).ok /\ FirstTag(s).number \in FieldNumber
           /\ rawFieldNumber(s) = FirstTag(s).number
<1>1. FieldEndOf(s, 0, MaxTag) = Len(s) /\ FieldEndOf(s, 0, MaxTag) # Failed
  BY DEF validateRawField, FieldEnd, Failed
<1>2. <<>> \in Seq(Nat) /\ 0 \in Nat
  OBVIOUS
<1>3. Move(s, 0, Len(s), <<>>, MaxTag).ok
  <2>1. SkipOf(s, MaxTag)[<<0, <<>>>>] = Skipped(Move(s, 0, Len(s), <<>>, MaxTag), SkipOf(s, MaxTag))
    BY <1>2, SkipIs
  <2>2. Skipped(Move(s, 0, Len(s), <<>>, MaxTag), SkipOf(s, MaxTag)) # Failed
    BY <1>1, <2>1, FieldEndIs
  <2>3. QED
    BY <2>2, Zenon DEF Skipped
<1>4. FirstTag(s).ok
  <2> SUFFICES ASSUME ~FirstTag(s).ok PROVE FALSE
    OBVIOUS
  <2>1. Move(s, 0, Len(s), <<>>, MaxTag) = Refused
    BY Zenon DEF Move, TagLimit, FirstTag
  <2>2. QED
    BY <1>3, <2>1 DEF Refused
<1>5. \E k, d : TagBytes(s, k, d, FirstTag(s).number)
  BY <1>4, TagOfBytes, Zenon
<1>6. FirstTag(s).number \in FieldNumber
  BY <1>5, TagNumber, Zenon DEF FromFirst
<1>7. s # <<>>
  BY <1>5 DEF TagBytes
<1>8. QED
  BY <1>4, <1>6, <1>7, Zenon DEF rawFieldNumber

-----------------------------------------------------------------------------
(* The matcher finds the fields of a number *)

LEMMA BitsAre ==
    ASSUME NEW number \in Nat
    PROVE  /\ CanonicalBits(number, 2) = (number \div 16) % 128
           /\ CanonicalBits(number, 3) = (number \div 2048) % 128
           /\ CanonicalBits(number, 4) = (number \div 262144) % 128
           /\ CanonicalBits(number, 5) = (number \div 33554432) % 128
<1>1. 2^(7 * 2 - 10) = 16 /\ 2^(7 * 3 - 10) = 2048 /\ 2^(7 * 4 - 10) = 262144 /\ 2^(7 * 5 - 10) = 33554432
  BY SMT
<1>2. QED
  BY <1>1, SMT DEF CanonicalBits

Split(number, c2, c3, c4, c5) ==
    /\ c2 \in 0 .. 127 /\ c3 \in 0 .. 127 /\ c4 \in 0 .. 127 /\ c5 \in 0 .. 127
    /\ number = (number % 16) + 16 * (c2 + 128 * (c3 + 128 * (c4 + 128 * c5)))
    /\ number < 2048 => c3 = 0
    /\ number < 262144 => c4 = 0
    /\ number < 33554432 => c5 = 0

LEMMA SplitIs ==
    ASSUME NEW number \in FieldNumber
    PROVE  Split(number, CanonicalBits(number, 2), CanonicalBits(number, 3),
                         CanonicalBits(number, 4), CanonicalBits(number, 5))
<1>1. number \in Nat /\ number <= 536870911
  BY FieldNumberIs, SMT
<1>2. PICK q2, q3, q4, q5 : /\ q2 = number \div 16 /\ q3 = number \div 2048
                            /\ q4 = number \div 262144 /\ q5 = number \div 33554432
  OBVIOUS
<1>3. q2 \in Nat /\ number = 16 * q2 + (number % 16)
  BY <1>1, <1>2, SMT
<1>4. q3 \in Nat /\ q2 = 128 * q3 + (q2 % 128)
  BY <1>1, <1>2, SMT
<1>5. q4 \in Nat /\ q3 = 128 * q4 + (q3 % 128)
  BY <1>1, <1>2, SMT
<1>6. q5 \in Nat /\ q4 = 128 * q5 + (q4 % 128)
  BY <1>1, <1>2, SMT
<1>7. q5 <= 15
  BY <1>1, <1>2, SMT
<1>8. PICK c2, c3, c4, c5 : c2 = q2 % 128 /\ c3 = q3 % 128 /\ c4 = q4 % 128 /\ c5 = q5 % 128
  OBVIOUS
<1>9. c2 \in 0 .. 127 /\ c3 \in 0 .. 127 /\ c4 \in 0 .. 127 /\ c5 \in 0 .. 127 /\ c5 = q5
  BY <1>3, <1>4, <1>5, <1>6, <1>7, <1>8, SMT
<1>10. number = (number % 16) + 16 * (c2 + 128 * (c3 + 128 * (c4 + 128 * c5)))
  BY <1>1, <1>3, <1>4, <1>5, <1>6, <1>8, <1>9, SMT
<1>11. number < 2048 => c3 = 0
  BY <1>1, <1>2, <1>8, SMT
<1>12. number < 262144 => c4 = 0
  BY <1>1, <1>2, <1>8, SMT
<1>13. number < 33554432 => c5 = 0
  BY <1>1, <1>2, <1>8, SMT
<1>14. /\ c2 = CanonicalBits(number, 2) /\ c3 = CanonicalBits(number, 3)
       /\ c4 = CanonicalBits(number, 4) /\ c5 = CanonicalBits(number, 5)
  BY <1>1, <1>2, <1>8, BitsAre
<1>15. Split(number, c2, c3, c4, c5)
  BY <1>9, <1>10, <1>11, <1>12, <1>13, SMT DEF Split
<1>16. QED
  BY <1>14, <1>15, Zenon

(* The canonical tag of a number: its size, and its groups but the first,  *)
(* which holds the number's lowest bits.                                   *)
Canonical(number, size, c) ==
    /\ size \in 1 .. 5 /\ (size = 1 <=> number < 16)
    /\ c \in [2 .. 5 -> 0 .. 127]
    /\ \A j \in 2 .. 5 : j > size => c[j] = 0
    /\ number = (number % 16) + 16 * (c[2] + 128 * (c[3] + 128 * (c[4] + 128 * c[5])))

LEMMA SizeIs ==
    ASSUME NEW number \in Nat, NEW size, size = tagSize(number),
           NEW c2, NEW c3, NEW c4, NEW c5, Split(number, c2, c3, c4, c5)
    PROVE  /\ size \in 1 .. 5 /\ (size = 1 <=> number < 16)
           /\ 2 > size => c2 = 0
           /\ 3 > size => c3 = 0
           /\ 4 > size => c4 = 0
           /\ 5 > size => c5 = 0
<1>1. /\ c2 \in 0 .. 127 /\ c3 \in 0 .. 127 /\ c4 \in 0 .. 127 /\ c5 \in 0 .. 127
      /\ number = (number % 16) + 16 * (c2 + 128 * (c3 + 128 * (c4 + 128 * c5)))
      /\ number < 2048 => c3 = 0
      /\ number < 262144 => c4 = 0
      /\ number < 33554432 => c5 = 0
  BY SMT DEF Split
<1>2. /\ size = 1 <=> number < 16
      /\ size \in 1 .. 5
      /\ 3 > size => number < 2048
      /\ 4 > size => number < 262144
      /\ 5 > size => number < 33554432
  BY SMT DEF tagSize
<1>3. 2 > size => c2 = 0
  <2> SUFFICES ASSUME 2 > size PROVE c2 = 0
    OBVIOUS
  <2>1. size = 1 /\ number < 16 /\ 3 > size /\ 4 > size /\ 5 > size
    BY <1>2, SMT
  <2>2. c3 = 0 /\ c4 = 0 /\ c5 = 0
    BY <1>1, <1>2, <2>1, SMT
  <2>3. QED
    BY <1>1, <2>1, <2>2, SMT
<1>4. QED
  BY <1>1, <1>2, <1>3, SMT

LEMMA CanonicalIs ==
    ASSUME NEW number \in FieldNumber
    PROVE  Canonical(number, tagSize(number), [j \in 2 .. 5 |-> CanonicalBits(number, j)])
<1>1. number \in Nat
  BY FieldNumberIs, SMT
<1>2. PICK c2, c3, c4, c5 : /\ c2 = CanonicalBits(number, 2) /\ c3 = CanonicalBits(number, 3)
                            /\ c4 = CanonicalBits(number, 4) /\ c5 = CanonicalBits(number, 5)
  OBVIOUS
<1>3. Split(number, c2, c3, c4, c5)
  BY <1>2, SplitIs, Zenon
<1>4. PICK size : size = tagSize(number)
  OBVIOUS
<1>5. /\ size \in 1 .. 5 /\ (size = 1 <=> number < 16)
      /\ 2 > size => c2 = 0
      /\ 3 > size => c3 = 0
      /\ 4 > size => c4 = 0
      /\ 5 > size => c5 = 0
  BY <1>1, <1>3, <1>4, SizeIs, SMT
<1>6. PICK c : c = [j \in 2 .. 5 |-> CanonicalBits(number, j)]
  OBVIOUS
<1>7. \A j \in 2 .. 5 : j = 2 \/ j = 3 \/ j = 4 \/ j = 5
  BY SMT
<1>8. 2 \in 2 .. 5 /\ 3 \in 2 .. 5 /\ 4 \in 2 .. 5 /\ 5 \in 2 .. 5
  BY SMT
<1>9. c[2] = c2 /\ c[3] = c3 /\ c[4] = c4 /\ c[5] = c5
  BY <1>2, <1>6, <1>8, Zenon
<1>10. c2 \in 0 .. 127 /\ c3 \in 0 .. 127 /\ c4 \in 0 .. 127 /\ c5 \in 0 .. 127
  BY <1>3, SMT DEF Split
<1>11. \A j \in 2 .. 5 : c[j] \in 0 .. 127
  BY <1>7, <1>9, <1>10, Zenon
<1>12. c \in [2 .. 5 -> 0 .. 127]
  <2>1. c = [j \in 2 .. 5 |-> c[j]]
    BY <1>6, Zenon
  <2>2. QED
    BY <1>11, <2>1, Zenon
<1>13. \A j \in 2 .. 5 : j > size => c[j] = 0
  <2>1. TAKE j \in 2 .. 5
  <2>2. CASE j = 2
    BY <1>5, <1>9, <2>2, Zenon
  <2>3. CASE j = 3
    BY <1>5, <1>9, <2>3, Zenon
  <2>4. CASE j = 4
    BY <1>5, <1>9, <2>4, Zenon
  <2>5. CASE j = 5
    BY <1>5, <1>9, <2>5, Zenon
  <2>6. QED
    BY <1>7, <2>2, <2>3, <2>4, <2>5, Zenon
<1>14. number = (number % 16) + 16 * (c2 + 128 * (c3 + 128 * (c4 + 128 * c5)))
  BY <1>3, SMT DEF Split
<1>15. number = (number % 16) + 16 * (c[2] + 128 * (c[3] + 128 * (c[4] + 128 * c[5])))
  BY <1>9, <1>14, Zenon
<1>16. Canonical(number, size, c)
  BY <1>5, <1>12, <1>13, <1>15, Zenon DEF Canonical
<1>17. QED
  BY <1>4, <1>6, <1>16, Zenon

(* The two fast tests and the decoding of the matcher agree.               *)
LEMMA CanonicalMatch ==
    ASSUME NEW s, NEW k, NEW d, NEW n, TagBytes(s, k, d, n), NEW number \in FieldNumber,
           firstByteMayMatch(number, s[1]), startsWithCanonicalNumberTag(number, s)
    PROVE  n = number
<1>1. PICK size, c : size = tagSize(number) /\ c = [j \in 2 .. 5 |-> CanonicalBits(number, j)]
  OBVIOUS
<1>2. Canonical(number, size, c)
  BY <1>1, CanonicalIs, Zenon
<1>3. /\ size \in 1 .. 5 /\ (size = 1 <=> number < 16)
      /\ c \in [2 .. 5 -> 0 .. 127]
      /\ \A j \in 2 .. 5 : j > size => c[j] = 0
      /\ number = (number % 16) + 16 * (c[2] + 128 * (c[3] + 128 * (c[4] + 128 * c[5])))
      /\ number \in Nat
  BY <1>2, FieldNumberIs, SMT DEF Canonical
<1>4. /\ k \in 1 .. 5 /\ d \in [1 .. 5 -> 0 .. 127]
      /\ \A j \in 1 .. 5 : /\ j < k => s[j] = d[j] + 128
                           /\ j = k => s[j] = d[j]
                           /\ j > k => d[j] = 0
      /\ n = Combined(d[1], d[2], d[3], d[4], d[5])
      /\ n % 16 = d[1] \div 8 /\ (k = 1 => n = d[1] \div 8)
  <2>1. FromFirst(k, d, n)
    BY TagNumber, Zenon
  <2>2. QED
    BY <2>1, Zenon DEF TagBytes, FromFirst
<1>5. s[1] % 128 = d[1] /\ (s[1] < 128 <=> k = 1) /\ d[1] \in 0 .. 127
  <2>1. d[1] \in 0 .. 127 /\ 1 \in 1 .. 5
    BY <1>4
  <2>2. PICK x, y : x = s[1] /\ y = d[1]
    OBVIOUS
  <2>3. (1 < k => x = y + 128) /\ (1 = k => x = y)
    BY <1>4, <2>1, <2>2, Zenon
  <2>4. x % 128 = y /\ (x < 128 <=> k = 1) /\ y \in 0 .. 127
    BY <1>4, <2>1, <2>2, <2>3
  <2>5. QED
    BY <2>2, <2>4, Zenon
<1>6. d[1] \div 8 = number % 16
  <2>1. d[1] \in (number % 16) * 8 .. (number % 16) * 8 + 5
    BY <1>5, Zenon DEF firstByteMayMatch
  <2>2. PICK y, m : y = d[1] /\ m = number % 16
    OBVIOUS
  <2>3. m \in 0 .. 15
    BY <1>3, <2>2
  <2>4. y \in m * 8 .. m * 8 + 5
    BY <2>1, <2>2, Zenon
  <2>5. y \div 8 = m
    BY <2>3, <2>4
  <2>6. QED
    BY <2>2, <2>5, Zenon
<1>7. CASE size = 1
  <2>1. k = 1
    BY <1>1, <1>5, <1>7, Zenon DEF startsWithCanonicalNumberTag
  <2>2. number % 16 = number
    BY <1>3, <1>7
  <2>3. QED
    BY <1>4, <1>6, <2>1, <2>2, Zenon
<1>8. CASE size # 1
  <2>1. /\ s[1] >= 128
        /\ \A j \in 2 .. size :
              s[j] = CanonicalBits(number, j) + (IF j < size THEN 128 ELSE 0)
    BY <1>1, <1>8, Zenon DEF startsWithCanonicalNumberTag
  <2>2. \A j \in 2 .. size : j \in 2 .. 5 /\ j \in 1 .. 5 /\ c[j] \in 0 .. 127
    BY <1>3
  <2>3. \A j \in 2 .. size : c[j] = CanonicalBits(number, j)
    BY <1>1, <2>2, Zenon
  <2>4. \A j \in 2 .. size : s[j] = c[j] + (IF j < size THEN 128 ELSE 0)
    BY <2>1, <2>3, Zenon
  <2>5. \A j \in 1 .. 5 : d[j] \in 0 .. 127
    BY <1>4
  <2>6. k = size
    <3>1. k # 1
      <4>1. PICK x : x = s[1]
        OBVIOUS
      <4>2. x \in Int
        <5>1. 1 \in 1 .. 5 /\ d[1] \in 0 .. 127
          BY <2>5
        <5>2. s[1] = d[1] + 128 \/ s[1] = d[1]
          <6>1. 1 < k \/ 1 = k
            BY <1>4
          <6>2. QED
            BY <1>4, <5>1, <6>1, Zenon
        <5>3. QED
          BY <4>1, <5>1, <5>2
      <4>3. x >= 128
        BY <2>1, <4>1, Zenon
      <4>4. ~(x < 128)
        BY <4>2, <4>3
      <4>5. QED
        BY <1>5, <4>1, <4>4, Zenon
    <3>2. ~(k < size)
      <4> SUFFICES ASSUME k < size PROVE FALSE
        OBVIOUS
      <4>1. k \in 2 .. size /\ k \in 1 .. 5
        BY <1>3, <1>4, <3>1
      <4>2. PICK x, y, z : x = s[k] /\ y = d[k] /\ z = c[k]
        OBVIOUS
      <4>3. x = y /\ x = z + 128 /\ y \in 0 .. 127 /\ z \in 0 .. 127
        BY <1>4, <2>2, <2>4, <2>5, <4>1, <4>2, Zenon
      <4>4. QED
        BY <4>3
    <3>3. ~(size < k)
      <4> SUFFICES ASSUME size < k PROVE FALSE
        OBVIOUS
      <4>1. size \in 2 .. size /\ size \in 1 .. 5 /\ ~(size < size)
        BY <1>3, <1>8
      <4>2. PICK x, y, z : x = s[size] /\ y = d[size] /\ z = c[size]
        OBVIOUS
      <4>3. x = y + 128 /\ x = z + 0 /\ y \in 0 .. 127 /\ z \in 0 .. 127
        BY <1>4, <2>2, <2>4, <2>5, <4>1, <4>2, Zenon
      <4>4. QED
        BY <4>3
    <3>4. QED
      BY <1>3, <1>4, <3>2, <3>3
  <2>7. \A j \in 2 .. 5 : d[j] = c[j]
    <3>1. TAKE j \in 2 .. 5
    <3>2. j \in 1 .. 5
      OBVIOUS
    <3>3. PICK x, y, z : x = s[j] /\ y = d[j] /\ z = c[j]
      OBVIOUS
    <3>4. y \in 0 .. 127 /\ z \in 0 .. 127
      BY <1>3, <2>5, <3>2, <3>3
    <3>5. CASE j <= size
      <4>1. j \in 2 .. size
        BY <1>3, <3>5
      <4>2. x = z + (IF j < size THEN 128 ELSE 0)
        BY <2>4, <3>3, <4>1, Zenon
      <4>3. (j < size => x = y + 128) /\ (j = size => x = y)
        BY <1>4, <2>6, <3>2, <3>3, Zenon
      <4>4. y = z
        BY <1>3, <3>4, <3>5, <4>2, <4>3
      <4>5. QED
        BY <3>3, <4>4
    <3>6. CASE ~(j <= size)
      <4>1. j > size
        BY <1>3, <3>6
      <4>2. y = 0 /\ z = 0
        BY <1>3, <1>4, <2>6, <3>2, <3>3, <4>1, Zenon
      <4>3. QED
        BY <3>3, <4>2
    <3>7. QED
      BY <3>5, <3>6
  <2>8. 2 \in 2 .. 5 /\ 3 \in 2 .. 5 /\ 4 \in 2 .. 5 /\ 5 \in 2 .. 5
    BY SMT
  <2>9. d[2] = c[2] /\ d[3] = c[3] /\ d[4] = c[4] /\ d[5] = c[5]
    BY <2>7, <2>8, Zenon
  <2>10. n = (d[1] \div 8) + 16 * (d[2] + 128 * (d[3] + 128 * (d[4] + 128 * d[5])))
    BY <1>4, Zenon DEF Combined
  <2>11. QED
    BY <1>3, <1>6, <2>9, <2>10, Zenon
<1>9. QED
  BY <1>7, <1>8

LEMMA FirstByteMatches ==
    ASSUME NEW s, NEW k, NEW d, NEW n, TagBytes(s, k, d, n)
    PROVE  firstByteMayMatch(n, s[1])
<1>1. /\ k \in 1 .. 5 /\ d \in [1 .. 5 -> 0 .. 127]
      /\ \A j \in 1 .. 5 : /\ j < k => s[j] = d[j] + 128
                           /\ j = k => s[j] = d[j]
                           /\ j > k => d[j] = 0
      /\ d[1] % 8 \in 0 .. 5
  BY Zenon DEF TagBytes
<1>2. n % 16 = d[1] \div 8 /\ (k = 1 => n = d[1] \div 8)
  <2>1. FromFirst(k, d, n)
    BY TagNumber, Zenon
  <2>2. QED
    BY <2>1, Zenon DEF FromFirst
<1>3. d[1] \in 0 .. 127 /\ 1 \in 1 .. 5
  BY <1>1
<1>4. PICK x, y : x = s[1] /\ y = d[1]
  OBVIOUS
<1>5. (1 < k => x = y + 128) /\ (1 = k => x = y)
  BY <1>1, <1>3, <1>4, Zenon
<1>6. PICK h : h = y \div 8
  OBVIOUS
<1>7. y \in 0 .. 127 /\ y % 8 \in 0 .. 5
  BY <1>1, <1>3, <1>4, Zenon
<1>8. h \in 0 .. 15 /\ x % 128 = y /\ y \in h * 8 .. h * 8 + 5 /\ (k = 1 \/ x >= 128)
  BY <1>1, <1>5, <1>6, <1>7
<1>9. k = 1 => n < 16
  <2>1. k = 1 => n = h
    BY <1>2, <1>4, <1>6, Zenon
  <2>2. QED
    BY <1>8, <2>1
<1>10. n % 16 = h
  BY <1>2, <1>4, <1>6, Zenon
<1>11. QED
  BY <1>4, <1>8, <1>9, <1>10, Zenon DEF firstByteMayMatch

(* The matcher takes the valid fields of its number.                       *)
LEMMA MatchesNumber ==
    ASSUME NEW s \in Seq(Byte), validateRawField(s), NEW number \in FieldNumber
    PROVE  matches(number, s) <=> rawFieldNumber(s) = number
<1>1. PICK n : n = FirstTag(s).number
  OBVIOUS
<1>2. s # <<>> /\ FirstTag(s).ok /\ rawFieldNumber(s) = n
  BY <1>1, ValidTag
<1>3. PICK k, d : TagBytes(s, k, d, n)
  BY <1>1, <1>2, TagOfBytes, Zenon
<1>4. number # 0
  BY FieldNumberIs, SMT
<1>5. ASSUME matches(number, s) PROVE n = number
  <2>1. /\ firstByteMayMatch(number, s[1])
        /\ startsWithCanonicalNumberTag(number, s) \/ n = number
    BY <1>1, <1>5, Zenon DEF matches
  <2>2. QED
    BY <1>3, <2>1, CanonicalMatch, Zenon
<1>6. ASSUME n = number PROVE matches(number, s)
  <2>1. firstByteMayMatch(number, s[1])
    BY <1>3, <1>6, FirstByteMatches, Zenon
  <2>2. QED
    BY <1>1, <1>2, <1>4, <1>6, <2>1, Zenon DEF matches
<1>7. QED
  BY <1>2, <1>5, <1>6, Zenon

(* However the fields of a number are counted, the counts are the same.    *)
LEMMA QueriesCount ==
    ASSUME NEW raws \in Seq(Seq(Byte)), AllValid(raws), NEW number \in FieldNumber
    PROVE  rawFieldNumberRunCount(NumberRuns(raws), number) = Len(FieldsByNumber(raws, number))
<1> DEFINE I == {i \in DOMAIN raws : matches(number, raws[i])}
<1>1. \A i \in DOMAIN raws : raws[i] \in Seq(Byte) /\ validateRawField(raws[i])
  <2>1. \A i \in DOMAIN raws : raws[i] \in Seq(Byte)
    OBVIOUS
  <2>2. QED
    BY <2>1 DEF AllValid
<1>2. I = WithNumber(raws, number)
  <2>1. \A i \in DOMAIN raws : matches(number, raws[i]) <=> rawFieldNumber(raws[i]) = number
    BY <1>1, MatchesNumber, Zenon
  <2>2. QED
    BY <2>1, Zenon DEF WithNumber
<1>3. Numbered(raws)
  <2>1. \A i \in DOMAIN raws : rawFieldNumber(raws[i]) \in FieldNumber
    BY <1>1, ValidTag, Zenon
  <2>2. \A n \in FieldNumber : n \in Int
    BY FieldNumberIs, SMT
  <2>3. QED
    BY <2>1, <2>2, Zenon DEF Numbered
<1>4. number \in Int /\ number # 0
  BY FieldNumberIs, SMT
<1>5. rawFieldNumberRunCount(NumberRuns(raws), number) = Cardinality(I)
  BY <1>2, <1>3, <1>4, RunCounts, Zenon
<1>6. Positions(I)
  <2>1. IsFiniteSet(I)
    BY <1>2, <1>3, CountOfNumber, Zenon
  <2>2. I \subseteq Int
    OBVIOUS
  <2>3. QED
    BY <2>1, <2>2, Zenon DEF Positions
<1>7. \A i \in I : raws[i] \in Seq(Byte)
  BY <1>1
<1>8. FieldsByNumber(raws, number) = AtPositions(raws, I)
  BY Zenon DEF FieldsByNumber
<1> HIDE DEF I
<1>9. Len(AtPositions(raws, I)) = Cardinality(I)
  BY <1>6, <1>7, AtPositionsIs
<1>10. QED
  BY <1>5, <1>8, <1>9

-----------------------------------------------------------------------------
(* The order of deterministic encoding is a total order *)

\* s and t have the same first k bytes, and there s ends or has the lower byte.
LessAt(s, t, k) ==
    /\ k <= Len(s) /\ k < Len(t)
    /\ \A j \in 1 .. k : s[j] = t[j]
    /\ k = Len(s) \/ (k < Len(s) /\ s[k + 1] < t[k + 1])

LEMMA PrefixIs ==
    ASSUME NEW s \in Seq(Byte), NEW t \in Seq(Byte), NEW k \in Nat, k <= Len(s), k <= Len(t)
    PROVE  IsPrefix(SubSeq(s, 1, k), t) <=> \A j \in 1 .. k : s[j] = t[j]
<1>1. PICK a, b : a = SubSeq(s, 1, k) /\ b = SubSeq(t, 1, k)
  OBVIOUS
<1>2. a \in Seq(Byte) /\ Len(a) = k /\ \A j \in 1 .. k : a[j] = s[j]
  BY <1>1
<1>3. b \in Seq(Byte) /\ Len(b) = k /\ \A j \in 1 .. k : b[j] = t[j]
  BY <1>1
<1>4. SubSeq(a, 1, Len(a)) = a
  BY <1>2
<1>5. IsPrefix(a, t) <=> a = b
  BY <1>1, <1>2, <1>4 DEF IsPrefix
<1>6. a = b <=> \A j \in 1 .. k : a[j] = b[j]
  BY <1>2, <1>3
<1>7. (\A j \in 1 .. k : a[j] = b[j]) <=> \A j \in 1 .. k : s[j] = t[j]
  BY <1>2, <1>3
<1>8. QED
  BY <1>1, <1>5, <1>6, <1>7

LEMMA BytesLessAt ==
    ASSUME NEW s \in Seq(Byte), NEW t \in Seq(Byte)
    PROVE  BytesLess(s, t) <=> \E k \in Nat : LessAt(s, t, k)
<1>1. Len(s) \in Nat /\ Len(t) \in Nat
  OBVIOUS
<1>2. ASSUME BytesLess(s, t) PROVE \E k \in Nat : LessAt(s, t, k)
  <2>1. PICK k \in 0 .. Len(s) :
            /\ IsPrefix(SubSeq(s, 1, k), t)
            /\ k < Len(t)
            /\ k = Len(s) \/ (k < Len(s) /\ s[k + 1] < t[k + 1])
    BY <1>2, Zenon DEF BytesLess
  <2>2. k \in Nat /\ k <= Len(s) /\ k <= Len(t)
    BY <1>1, <2>1
  <2>3. \A j \in 1 .. k : s[j] = t[j]
    BY <2>1, <2>2, PrefixIs, Zenon
  <2>4. QED
    BY <2>1, <2>2, <2>3, Zenon DEF LessAt
<1>3. ASSUME NEW k \in Nat, LessAt(s, t, k) PROVE BytesLess(s, t)
  <2>1. /\ k <= Len(s) /\ k < Len(t)
        /\ \A j \in 1 .. k : s[j] = t[j]
        /\ k = Len(s) \/ (k < Len(s) /\ s[k + 1] < t[k + 1])
    BY <1>3, Zenon DEF LessAt
  <2>2. k \in 0 .. Len(s) /\ k <= Len(t)
    BY <1>1, <2>1
  <2>3. IsPrefix(SubSeq(s, 1, k), t)
    BY <2>1, <2>2, PrefixIs, Zenon
  <2>4. QED
    BY <2>1, <2>2, <2>3, Zenon DEF BytesLess
<1>4. QED
  BY <1>2, <1>3, Zenon

LEMMA ByteAt == ASSUME NEW s \in Seq(Byte), NEW k \in 1 .. Len(s) PROVE s[k] \in 0 .. 255
<1>1. s[k] \in Byte
  BY ElementOfSeq
<1>2. QED
  BY <1>1 DEF Byte

LEMMA BytesLessTransitive ==
    ASSUME NEW s \in Seq(Byte), NEW t \in Seq(Byte), NEW u \in Seq(Byte),
           BytesLess(s, t), BytesLess(t, u)
    PROVE  BytesLess(s, u)
<1>1. PICK k \in Nat : LessAt(s, t, k)
  BY BytesLessAt, Zenon
<1>2. PICK l \in Nat : LessAt(t, u, l)
  BY BytesLessAt, Zenon
<1>3. /\ Len(s) \in Nat /\ Len(t) \in Nat /\ Len(u) \in Nat
      /\ \A j \in 1 .. Len(s) : s[j] \in 0 .. 255
      /\ \A j \in 1 .. Len(t) : t[j] \in 0 .. 255
      /\ \A j \in 1 .. Len(u) : u[j] \in 0 .. 255
  BY ByteAt
<1>4. /\ k <= Len(s) /\ k < Len(t)
      /\ \A j \in 1 .. k : s[j] = t[j]
      /\ k = Len(s) \/ (k < Len(s) /\ s[k + 1] < t[k + 1])
  BY <1>1, Zenon DEF LessAt
<1>5. /\ l <= Len(t) /\ l < Len(u)
      /\ \A j \in 1 .. l : t[j] = u[j]
      /\ l = Len(t) \/ (l < Len(t) /\ t[l + 1] < u[l + 1])
  BY <1>2, Zenon DEF LessAt
<1>6. CASE k < l
  <2>1. k + 1 \in 1 .. l /\ k + 1 \in 1 .. Len(t)
    BY <1>3, <1>4, <1>5, <1>6
  <2>2. t[k + 1] = u[k + 1]
    BY <1>5, <2>1
  <2>3. \A j \in 1 .. k : j \in 1 .. l
    BY <1>6
  <2>4. \A j \in 1 .. k : s[j] = u[j]
    BY <1>4, <1>5, <2>3, Zenon
  <2>5. k < Len(u)
    BY <1>3, <1>5, <1>6
  <2>6. LessAt(s, u, k)
    BY <1>4, <2>2, <2>4, <2>5, Zenon DEF LessAt
  <2>7. QED
    BY <2>6, BytesLessAt, Zenon
<1>7. CASE k = l
  <2>1. \A j \in 1 .. k : s[j] = u[j]
    BY <1>4, <1>5, <1>7, Zenon
  <2>2. k < Len(u) /\ l < Len(t) /\ t[l + 1] < u[l + 1]
    BY <1>3, <1>4, <1>5, <1>7
  <2>3. k = Len(s) \/ (k < Len(s) /\ s[k + 1] < u[k + 1])
    <3> SUFFICES ASSUME k # Len(s) PROVE k < Len(s) /\ s[k + 1] < u[k + 1]
      OBVIOUS
    <3>1. k < Len(s) /\ s[k + 1] < t[k + 1] /\ t[k + 1] < u[k + 1]
      BY <1>4, <1>7, <2>2
    <3>2. k + 1 \in 1 .. Len(s) /\ k + 1 \in 1 .. Len(t) /\ k + 1 \in 1 .. Len(u)
      BY <1>3, <1>4, <2>2, <3>1
    <3>3. PICK x, y, z : x = s[k + 1] /\ y = t[k + 1] /\ z = u[k + 1]
      OBVIOUS
    <3>4. x \in 0 .. 255 /\ y \in 0 .. 255 /\ z \in 0 .. 255
      BY <1>3, <3>2, <3>3, Zenon
    <3>5. x < z
      BY <3>1, <3>3, <3>4
    <3>6. QED
      BY <3>1, <3>3, <3>5
  <2>4. k <= Len(s)
    BY <1>4
  <2>5. LessAt(s, u, k)
    BY <2>1, <2>2, <2>3, <2>4, Zenon DEF LessAt
  <2>6. QED
    BY <2>5, BytesLessAt, Zenon
<1>8. CASE l < k
  <2>1. l + 1 \in 1 .. k /\ l + 1 \in 1 .. Len(s) /\ l + 1 \in 1 .. Len(u)
    BY <1>3, <1>4, <1>5, <1>8
  <2>2. s[l + 1] = t[l + 1]
    BY <1>4, <2>1
  <2>3. \A j \in 1 .. l : j \in 1 .. k
    BY <1>8
  <2>4. \A j \in 1 .. l : s[j] = u[j]
    BY <1>4, <1>5, <2>3, Zenon
  <2>5. l < Len(s) /\ l <= Len(s) /\ l # Len(t)
    BY <1>3, <1>4, <1>8
  <2>6. s[l + 1] < u[l + 1]
    BY <1>5, <2>2, <2>5, Zenon
  <2>7. LessAt(s, u, l)
    BY <1>5, <2>4, <2>5, <2>6, Zenon DEF LessAt
  <2>8. QED
    BY <2>7, BytesLessAt, Zenon
<1>9. QED
  BY <1>6, <1>7, <1>8

LEMMA BytesLessIrreflexive == ASSUME NEW s \in Seq(Byte) PROVE ~BytesLess(s, s)
<1> SUFFICES ASSUME BytesLess(s, s) PROVE FALSE
  OBVIOUS
<1>1. PICK k \in Nat : LessAt(s, s, k)
  BY BytesLessAt, Zenon
<1>2. k < Len(s) /\ (k = Len(s) \/ s[k + 1] < s[k + 1])
  BY <1>1, Zenon DEF LessAt
<1>3. k + 1 \in 1 .. Len(s) /\ k # Len(s)
  BY <1>2
<1>4. PICK x : x = s[k + 1]
  OBVIOUS
<1>5. x \in 0 .. 255 /\ x < x
  BY <1>2, <1>3, <1>4, ByteAt
<1>6. QED
  BY <1>5

LEMMA BytesLessTotal ==
    ASSUME NEW s \in Seq(Byte), NEW t \in Seq(Byte), ~BytesLess(s, t), ~BytesLess(t, s)
    PROVE  s = t
<1>1. /\ Len(s) \in Nat /\ Len(t) \in Nat
      /\ \A j \in 1 .. Len(s) : s[j] \in 0 .. 255
      /\ \A j \in 1 .. Len(t) : t[j] \in 0 .. 255
  BY ByteAt
<1> DEFINE Same(k) == k < Len(s) /\ k < Len(t) /\ s[k + 1] = t[k + 1]
           T == {k \in Nat : ~Same(k)}
<1>2. T \subseteq Nat /\ T # {}
  <2>1. Len(s) \in T
    BY <1>1
  <2>2. QED
    BY <2>1
<1>3. PICK k \in T : \A j \in T : ~(j < k)
  BY <1>2, LeastPosition, Zenon
<1>4. k \in Nat /\ ~Same(k)
  OBVIOUS
<1>5. \A j \in 0 .. k - 1 : Same(j)
  BY <1>3, <1>4
<1>6. \A j \in 1 .. k : s[j] = t[j] /\ j <= Len(s) /\ j <= Len(t)
  <2>1. TAKE j \in 1 .. k
  <2>2. j - 1 \in 0 .. k - 1 /\ (j - 1) + 1 = j
    BY <1>4
  <2>3. Same(j - 1)
    BY <1>5, <2>2, Zenon
  <2>4. QED
    BY <1>1, <2>2, <2>3
<1>7. k <= Len(s) /\ k <= Len(t)
  <2>1. CASE k = 0
    BY <1>1, <2>1
  <2>2. CASE k # 0
    <3>1. k \in 1 .. k
      BY <1>4, <2>2
    <3>2. QED
      BY <1>6, <3>1
  <2>3. QED
    BY <2>1, <2>2
<1>8. ~(k < Len(s) /\ k < Len(t))
  <2> SUFFICES ASSUME k < Len(s), k < Len(t) PROVE FALSE
    OBVIOUS
  <2>1. k + 1 \in 1 .. Len(s) /\ k + 1 \in 1 .. Len(t)
    BY <1>1, <1>4
  <2>2. PICK x, y : x = s[k + 1] /\ y = t[k + 1]
    OBVIOUS
  <2>3. x \in 0 .. 255 /\ y \in 0 .. 255 /\ x # y
    BY <1>1, <1>4, <2>1, <2>2
  <2>4. CASE x < y
    <3>1. LessAt(s, t, k)
      BY <1>6, <1>7, <2>2, <2>4, Zenon DEF LessAt
    <3>2. QED
      BY <1>4, <3>1, BytesLessAt, Zenon
  <2>5. CASE y < x
    <3>1. \A j \in 1 .. k : t[j] = s[j]
      BY <1>6
    <3>2. LessAt(t, s, k)
      BY <1>7, <2>2, <2>5, <3>1, Zenon DEF LessAt
    <3>3. QED
      BY <1>4, <3>2, BytesLessAt, Zenon
  <2>6. QED
    BY <2>3, <2>4, <2>5
<1>9. ~(k = Len(s) /\ k < Len(t))
  <2> SUFFICES ASSUME k = Len(s), k < Len(t) PROVE FALSE
    OBVIOUS
  <2>1. LessAt(s, t, k)
    BY <1>6, <1>7, Zenon DEF LessAt
  <2>2. QED
    BY <1>4, <2>1, BytesLessAt, Zenon
<1>10. ~(k = Len(t) /\ k < Len(s))
  <2> SUFFICES ASSUME k = Len(t), k < Len(s) PROVE FALSE
    OBVIOUS
  <2>1. \A j \in 1 .. k : t[j] = s[j]
    BY <1>6
  <2>2. LessAt(t, s, k)
    BY <1>7, <2>1, Zenon DEF LessAt
  <2>3. QED
    BY <1>4, <2>2, BytesLessAt, Zenon
<1>11. k = Len(s) /\ k = Len(t)
  BY <1>1, <1>4, <1>7, <1>8, <1>9, <1>10
<1>12. \A j \in 1 .. Len(s) : s[j] = t[j]
  BY <1>6, <1>11
<1>13. Len(s) = Len(t)
  BY <1>11
<1> HIDE DEF T, Same
<1>14. QED
  BY <1>12, <1>13

\* What precedes another field in the order; a valid field has a tag.
Tagged(s) == s \in Seq(Byte) /\ FirstTag(s).ok

FirstTyped(s) == FirstTag(s).number \in Nat /\ FirstTag(s).wire_type \in Nat

LEMMA FirstTagTyped == ASSUME NEW s, Tagged(s) PROVE FirstTyped(s)
<1>1. s \in Seq(Byte) /\ Len(s) \in Nat /\ 0 \in Nat /\ 0 <= Len(s) /\ Len(s) <= Len(s)
  BY DEF Tagged
<1>2. PICK e : e = Len(s)
  OBVIOUS
<1>3. PICK z : z = 0
  OBVIOUS
<1>4. readTag(s, z, e, MaxTag).ok
  BY <1>2, <1>3, Zenon DEF Tagged, FirstTag
<1>5. readTag(s, z, e, MaxTag).number \in Nat /\ readTag(s, z, e, MaxTag).wire_type \in WireType
  BY <1>1, <1>2, <1>3, <1>4, TagInside
<1>6. QED
  BY <1>2, <1>3, <1>5 DEF FirstTyped, FirstTag, WireType, Varint, Fixed32

\* In front of b, by the number, the wire type and the bytes.
Precedes(a, b) ==
    \/ FirstTag(a).number < FirstTag(b).number
    \/ /\ FirstTag(a).number = FirstTag(b).number
       /\ \/ FirstTag(a).wire_type < FirstTag(b).wire_type
          \/ FirstTag(a).wire_type = FirstTag(b).wire_type /\ BytesLess(a, b)

LEMMA LessIs ==
    ASSUME NEW a, NEW b, Tagged(a), Tagged(b)
    PROVE  RawFieldLess(a, b) <=> Precedes(a, b)
<1>1. PICK m, n, v, w : /\ m = FirstTag(a).number /\ n = FirstTag(b).number
                        /\ v = FirstTag(a).wire_type /\ w = FirstTag(b).wire_type
  OBVIOUS
<1>2. m \in Nat /\ n \in Nat /\ v \in Nat /\ w \in Nat
  BY <1>1, FirstTagTyped, Zenon DEF FirstTyped
<1>3. RawFieldLess(a, b) <=> IF m # n THEN m < n ELSE IF v # w THEN v < w ELSE BytesLess(a, b)
  BY <1>1, Zenon DEF RawFieldLess, Tagged
<1>4. (m < n => m # n) /\ (v < w => v # w)
  BY <1>2
<1>5. QED
  BY <1>1, <1>3, <1>4, Zenon DEF Precedes

LEMMA LessIrreflexive == ASSUME NEW a, Tagged(a) PROVE ~RawFieldLess(a, a)
<1>1. a \in Seq(Byte)
  BY DEF Tagged
<1>2. ~BytesLess(a, a)
  BY <1>1, BytesLessIrreflexive
<1>3. FirstTag(a).number \in Nat /\ FirstTag(a).wire_type \in Nat
  BY FirstTagTyped, Zenon DEF FirstTyped
<1>4. PICK m, v : m = FirstTag(a).number /\ v = FirstTag(a).wire_type
  OBVIOUS
<1>5. ~(m < m) /\ ~(v < v)
  BY <1>3, <1>4
<1>6. QED
  BY <1>2, <1>4, <1>5, LessIs, Zenon DEF Precedes

LEMMA LessTransitive ==
    ASSUME NEW a, NEW b, NEW c, Tagged(a), Tagged(b), Tagged(c),
           RawFieldLess(a, b), RawFieldLess(b, c)
    PROVE  RawFieldLess(a, c)
<1>1. PICK m, n, k, u, v, w :
          /\ m = FirstTag(a).number /\ n = FirstTag(b).number /\ k = FirstTag(c).number
          /\ u = FirstTag(a).wire_type /\ v = FirstTag(b).wire_type /\ w = FirstTag(c).wire_type
  OBVIOUS
<1>2. m \in Nat /\ n \in Nat /\ k \in Nat /\ u \in Nat /\ v \in Nat /\ w \in Nat
  BY <1>1, FirstTagTyped, Zenon DEF FirstTyped
<1>3. Precedes(a, b) /\ Precedes(b, c)
  BY LessIs, Zenon
<1>4. m < n \/ (m = n /\ (u < v \/ (u = v /\ BytesLess(a, b))))
  BY <1>1, <1>3, Zenon DEF Precedes
<1>5. n < k \/ (n = k /\ (v < w \/ (v = w /\ BytesLess(b, c))))
  BY <1>1, <1>3, Zenon DEF Precedes
<1>6. BytesLess(a, b) /\ BytesLess(b, c) => BytesLess(a, c)
  BY BytesLessTransitive, Zenon DEF Tagged
<1>7. m < k \/ (m = k /\ (u < w \/ (u = w /\ BytesLess(a, c))))
  BY <1>2, <1>4, <1>5, <1>6, SMT
<1>8. Precedes(a, c)
  BY <1>1, <1>7, Zenon DEF Precedes
<1>9. QED
  BY <1>8, LessIs, Zenon

LEMMA LessTotal ==
    ASSUME NEW a, NEW b, Tagged(a), Tagged(b), ~RawFieldLess(a, b), ~RawFieldLess(b, a)
    PROVE  a = b
<1>1. PICK m, n, v, w : /\ m = FirstTag(a).number /\ n = FirstTag(b).number
                        /\ v = FirstTag(a).wire_type /\ w = FirstTag(b).wire_type
  OBVIOUS
<1>2. m \in Nat /\ n \in Nat /\ v \in Nat /\ w \in Nat
  BY <1>1, FirstTagTyped, Zenon DEF FirstTyped
<1>3. ~Precedes(a, b) /\ ~Precedes(b, a)
  BY LessIs, Zenon
<1>4. ~(m < n) /\ ~(n < m)
  BY <1>1, <1>3, Zenon DEF Precedes
<1>5. m = n
  BY <1>2, <1>4
<1>6. ~(v < w) /\ ~(w < v)
  BY <1>1, <1>3, <1>5, Zenon DEF Precedes
<1>7. v = w
  BY <1>2, <1>6
<1>8. ~BytesLess(a, b) /\ ~BytesLess(b, a)
  BY <1>1, <1>3, <1>5, <1>7, Zenon DEF Precedes
<1>9. a \in Seq(Byte) /\ b \in Seq(Byte)
  BY DEF Tagged
<1>10. QED
  BY <1>8, <1>9, BytesLessTotal

\* Not behind b.
Upto(a, b) == ~RawFieldLess(b, a)

LEMMA UptoTransitive ==
    ASSUME NEW a, NEW b, NEW c, Tagged(a), Tagged(b), Tagged(c), Upto(a, b), Upto(b, c)
    PROVE  Upto(a, c)
<1> SUFFICES ASSUME RawFieldLess(c, a) PROVE FALSE
  BY DEF Upto
<1>1. CASE a = b
  BY <1>1 DEF Upto
<1>2. CASE a # b
  <2>1. RawFieldLess(a, b)
    BY <1>2, LessTotal, Zenon DEF Upto
  <2>2. RawFieldLess(c, b)
    BY <2>1, LessTransitive, Zenon
  <2>3. QED
    BY <2>2 DEF Upto
<1>3. QED
  BY <1>1, <1>2

LEMMA LessUpto ==
    ASSUME NEW a, NEW b, Tagged(a), Tagged(b), RawFieldLess(a, b)
    PROVE  Upto(a, b)
<1> SUFFICES ASSUME RawFieldLess(b, a) PROVE FALSE
  BY DEF Upto
<1>1. RawFieldLess(a, a)
  BY LessTransitive, Zenon
<1>2. QED
  BY <1>1, LessIrreflexive, Zenon

-----------------------------------------------------------------------------
(* Insertion *)

LEMMA MaxIs ==
    ASSUME NEW n \in Nat, NEW T, T \subseteq 0 .. n, T # {}
    PROVE  Max(T) \in T /\ \A y \in T : y <= Max(T)
<1> DEFINE U == {k \in Nat : n - k \in T}
<1>1. U # {} /\ U \subseteq Nat
  <2>1. PICK x \in T : TRUE
    OBVIOUS
  <2>2. x \in 0 .. n /\ n - x \in Nat /\ n - (n - x) = x
    OBVIOUS
  <2>3. QED
    BY <2>2
<1>2. PICK k \in U : \A j \in U : ~(j < k)
  BY <1>1, LeastPosition, Zenon
<1>3. n - k \in T /\ k \in Nat
  OBVIOUS
<1>4. \A y \in T : n - k >= y
  <2>1. TAKE y \in T
  <2>2. y \in 0 .. n /\ n - y \in Nat /\ n - (n - y) = y
    OBVIOUS
  <2>3. n - y \in U
    BY <2>2
  <2>4. ~(n - y < k)
    BY <1>2, <2>3
  <2>5. QED
    BY <1>3, <2>2, <2>4
<1> HIDE DEF U
<1>5. Max(T) \in T /\ \A y \in T : Max(T) >= y
  <2>1. \E x \in T : \A y \in T : x >= y
    BY <1>3, <1>4
  <2>2. QED
    BY <2>1, Zenon DEF Max
<1>6. \A y \in T : y \in Int
  OBVIOUS
<1>7. QED
  BY <1>5, <1>6

Joined(S, a, b, c) ==
    /\ c \in Seq(S) /\ Len(c) = Len(a) + Len(b)
    /\ \A i \in 1 .. Len(a) : c[i] = a[i]
    /\ \A i \in 1 .. Len(b) : c[Len(a) + i] = b[i]

LEMMA JoinedIs ==
    ASSUME NEW S, NEW a \in Seq(S), NEW b \in Seq(S)
    PROVE  Joined(S, a, b, a \o b)
<1>1. PICK c : c = a \o b
  OBVIOUS
<1>2. /\ c \in Seq(S) /\ Len(c) = Len(a) + Len(b)
      /\ \A i \in 1 .. Len(a) : c[i] = a[i]
      /\ \A i \in 1 .. Len(b) : c[Len(a) + i] = b[i]
  BY <1>1
<1>3. QED
  BY <1>1, <1>2, Zenon DEF Joined

\* u is t with v behind its first m elements.
Inserted(t, v, m, u) ==
    /\ u \in Seq(Seq(Byte)) /\ Len(u) = Len(t) + 1 /\ m \in 0 .. Len(t)
    /\ \A i \in 1 .. m : u[i] = t[i]
    /\ u[m + 1] = v
    /\ \A i \in m + 1 .. Len(t) : u[i + 1] = t[i]

LEMMA InsertAtIs ==
    ASSUME NEW t \in Seq(Seq(Byte)), NEW v \in Seq(Byte), NEW m \in 0 .. Len(t)
    PROVE  Inserted(t, v, m, InsertAt(t, 1 + m, v))
<1>1. Len(t) \in Nat /\ m \in Nat /\ (1 + m) - 1 = m
  OBVIOUS
<1>2. PICK a, b, c : a = SubSeq(t, 1, m) /\ b = SubSeq(t, 1 + m, Len(t)) /\ c = <<v>>
  OBVIOUS
<1>3. InsertAt(t, 1 + m, v) = a \o c \o b
  BY <1>1, <1>2, Zenon DEF InsertAt
<1>4. a \in Seq(Seq(Byte)) /\ Len(a) = m /\ \A i \in 1 .. m : a[i] = t[i]
  BY <1>1, <1>2
<1>5. /\ b \in Seq(Seq(Byte)) /\ Len(b) = Len(t) - m
      /\ \A i \in 1 .. Len(t) - m : b[i] = t[m + i]
  <2>1. 1 + m \in Nat /\ Len(t) \in Nat
    BY <1>1
  <2>2. b = [i \in 1 .. Len(t) - m |-> t[m + i]]
    BY <1>1, <1>2
  <2>3. \A i \in 1 .. Len(t) - m : t[m + i] \in Seq(Byte)
    BY <1>1, ElementOfSeq
  <2>4. b \in [1 .. Len(t) - m -> Seq(Byte)] /\ Len(t) - m \in Nat
    BY <1>1, <2>2, <2>3
  <2>5. QED
    BY <2>2, <2>4
<1>6. c \in Seq(Seq(Byte)) /\ Len(c) = 1 /\ c[1] = v
  BY <1>2
<1>7. PICK d : d = a \o c
  OBVIOUS
<1>8. Joined(Seq(Byte), a, c, d)
  BY <1>4, <1>6, <1>7, JoinedIs
<1>9. /\ d \in Seq(Seq(Byte)) /\ Len(d) = m + 1
      /\ \A i \in 1 .. m : d[i] = a[i]
      /\ \A i \in 1 .. 1 : d[m + i] = c[i]
  BY <1>4, <1>6, <1>8, Zenon DEF Joined
<1>10. d[m + 1] = v
  BY <1>6, <1>9
<1>11. PICK u : u = d \o b
  OBVIOUS
<1>12. Joined(Seq(Byte), d, b, u)
  BY <1>5, <1>9, <1>11, JoinedIs
<1>13. /\ u \in Seq(Seq(Byte)) /\ Len(u) = (m + 1) + (Len(t) - m)
       /\ \A i \in 1 .. m + 1 : u[i] = d[i]
       /\ \A i \in 1 .. Len(t) - m : u[(m + 1) + i] = b[i]
  BY <1>5, <1>9, <1>12, Zenon DEF Joined
<1>14. Len(u) = Len(t) + 1
  BY <1>1, <1>13
<1>16. \A i \in 1 .. m : u[i] = t[i]
  <2>1. TAKE i \in 1 .. m
  <2>2. i \in 1 .. m + 1
    BY <1>1
  <2>3. QED
    BY <1>4, <1>9, <1>13, <2>2, Zenon
<1>17. u[m + 1] = v
  <2>1. m + 1 \in 1 .. m + 1
    BY <1>1
  <2>2. QED
    BY <1>10, <1>13, <2>1, Zenon
<1>18. \A i \in m + 1 .. Len(t) : u[i + 1] = t[i]
  <2>1. TAKE i \in m + 1 .. Len(t)
  <2>2. i - m \in 1 .. Len(t) - m /\ i + 1 = (m + 1) + (i - m) /\ m + (i - m) = i
    BY <1>1
  <2>3. u[(m + 1) + (i - m)] = b[i - m]
    BY <1>13, <2>2, Zenon
  <2>4. b[i - m] = t[m + (i - m)]
    BY <1>5, <2>2, Zenon
  <2>5. QED
    BY <2>2, <2>3, <2>4
<1>19. InsertAt(t, 1 + m, v) = u
  BY <1>3, <1>7, <1>11
<1>20. m \in 0 .. Len(t)
  OBVIOUS
<1>15. QED
  BY <1>13, <1>14, <1>16, <1>17, <1>18, <1>19, <1>20, Zenon DEF Inserted

LEMMA InsertIs ==
    ASSUME NEW t \in Seq(Seq(Byte)), NEW v \in Seq(Byte)
    PROVE  \E m \in 0 .. Len(t) :
               /\ Inserted(t, v, m, Insert(t, v))
               /\ m = 0 \/ ~RawFieldLess(v, t[m])
               /\ \A i \in m + 1 .. Len(t) : RawFieldLess(v, t[i])
<1> DEFINE P == {i \in DOMAIN t : ~RawFieldLess(v, t[i])}
           T == {0} \cup P
           m == Max(T)
<1>1. Len(t) \in Nat /\ DOMAIN t = 1 .. Len(t)
  OBVIOUS
<1>2. T \subseteq 0 .. Len(t) /\ T # {}
  BY <1>1
<1>3. m \in T /\ \A y \in T : y <= m
  <2> HIDE DEF T
  <2>1. QED
    BY <1>1, <1>2, MaxIs
<1>4. m \in 0 .. Len(t)
  BY <1>2, <1>3
<1>5. m = 0 \/ ~RawFieldLess(v, t[m])
  BY <1>3
<1>6. \A i \in m + 1 .. Len(t) : RawFieldLess(v, t[i])
  <2> SUFFICES ASSUME NEW i \in m + 1 .. Len(t), ~RawFieldLess(v, t[i]) PROVE FALSE
    OBVIOUS
  <2> HIDE DEF m
  <2>1. i \in 1 .. Len(t) /\ ~(i <= m)
    BY <1>1, <1>4
  <2>2. i \in T
    BY <1>1, <2>1
  <2>3. QED
    BY <1>3, <2>1, <2>2
<1>7. Insert(t, v) = InsertAt(t, 1 + m, v)
  BY Zenon DEF Insert
<1> HIDE DEF m
<1>8. Inserted(t, v, m, InsertAt(t, 1 + m, v))
  BY <1>4, InsertAtIs
<1>9. QED
  BY <1>4, <1>5, <1>6, <1>7, <1>8, Zenon

Sorted(t) == \A i, j \in 1 .. Len(t) : i < j => Upto(t[i], t[j])

\* A place among n for each element of D.
Places(f, D, n) ==
    /\ f \in [D -> 1 .. n]
    /\ \A x, y \in D : f[x] = f[y] => x = y
    /\ \A k \in 1 .. n : \E x \in D : f[x] = k

\* t are the elements of raws at D, in order.
ArrangedBy(t, raws, D, f) == Places(f, D, Len(t)) /\ \A x \in D : t[f[x]] = raws[x]

Arranges(t, raws, D) ==
    /\ t \in Seq(Seq(Byte)) /\ Sorted(t)
    /\ IsFiniteSet(D) /\ Len(t) = Cardinality(D)
    /\ \E f : ArrangedBy(t, raws, D, f)

AllTagged(raws) == raws \in Seq(Seq(Byte)) /\ \A i \in DOMAIN raws : Tagged(raws[i])

\* Everything arranged is one of the elements.
LEMMA ArrangedFrom ==
    ASSUME NEW t, NEW raws, AllTagged(raws), NEW D, D \subseteq DOMAIN raws, Arranges(t, raws, D)
    PROVE  \A k \in 1 .. Len(t) : Tagged(t[k])
<1>1. PICK f : ArrangedBy(t, raws, D, f)
  BY DEF Arranges
<1>2. ASSUME NEW k \in 1 .. Len(t) PROVE Tagged(t[k])
  <2>1. PICK x \in D : f[x] = k
    BY <1>1, Zenon DEF ArrangedBy, Places
  <2>2. t[k] = raws[x] /\ x \in DOMAIN raws
    BY <1>1, <2>1 DEF ArrangedBy
  <2>3. QED
    BY <2>2, Zenon DEF AllTagged
<1>3. QED
  BY <1>2

LEMMA InsertSorted ==
    ASSUME NEW t \in Seq(Seq(Byte)), NEW v, Tagged(v), \A k \in 1 .. Len(t) : Tagged(t[k]),
           Sorted(t), NEW m \in 0 .. Len(t), NEW u, Inserted(t, v, m, u),
           m = 0 \/ ~RawFieldLess(v, t[m]), \A i \in m + 1 .. Len(t) : RawFieldLess(v, t[i])
    PROVE  Sorted(u)
<1>1. /\ Len(t) \in Nat /\ m \in Nat /\ Len(u) = Len(t) + 1
      /\ \A i \in 1 .. m : u[i] = t[i]
      /\ u[m + 1] = v
      /\ \A i \in m + 1 .. Len(t) : u[i + 1] = t[i]
  BY DEF Inserted
<1>2. ASSUME NEW i \in 1 .. m PROVE Upto(t[i], v)
  <2>1. m \in 1 .. Len(t) /\ i \in 1 .. Len(t)
    BY <1>1
  <2>2. Upto(t[m], v)
    BY <1>1, <2>1 DEF Upto
  <2>3. i = m \/ i < m
    BY <1>1
  <2>4. i < m => Upto(t[i], t[m])
    BY <2>1, Zenon DEF Sorted
  <2>5. QED
    BY <2>1, <2>2, <2>3, <2>4, UptoTransitive, Zenon
<1>3. ASSUME NEW i \in m + 1 .. Len(t) PROVE Upto(v, t[i])
  <2>1. i \in 1 .. Len(t)
    BY <1>1
  <2>2. QED
    BY <2>1, LessUpto, Zenon
<1>4. ASSUME NEW i \in 1 .. Len(u), NEW j \in 1 .. Len(u), i < j
      PROVE  Upto(u[i], u[j])
  <2>1. i \in Nat /\ j \in Nat
    OBVIOUS
  <2>2. CASE j <= m
    <3>1. i \in 1 .. m /\ j \in 1 .. m /\ i \in 1 .. Len(t) /\ j \in 1 .. Len(t)
      BY <1>1, <1>4, <2>2
    <3>2. Upto(t[i], t[j])
      BY <1>4, <3>1, Zenon DEF Sorted
    <3>3. QED
      BY <1>1, <3>1, <3>2
  <2>3. CASE j = m + 1
    <3>1. i \in 1 .. m
      BY <1>1, <1>4, <2>3
    <3>2. QED
      BY <1>1, <1>2, <2>3, <3>1
  <2>4. CASE j > m + 1
    <3>1. j - 1 \in m + 1 .. Len(t) /\ (j - 1) + 1 = j /\ j - 1 \in 1 .. Len(t)
      BY <1>1, <2>4
    <3>2. u[j] = t[j - 1]
      BY <1>1, <3>1, Zenon
    <3>3. Upto(v, t[j - 1])
      BY <1>3, <3>1, Zenon
    <3>4. CASE i = m + 1
      BY <1>1, <3>2, <3>3, <3>4
    <3>5. CASE i <= m
      <4>1. i \in 1 .. m /\ i \in 1 .. Len(t) /\ i < j - 1
        BY <1>1, <2>4, <3>5
      <4>2. Upto(t[i], t[j - 1])
        BY <3>1, <4>1, Zenon DEF Sorted
      <4>3. QED
        BY <1>1, <3>2, <4>1, <4>2
    <3>6. CASE i > m + 1
      <4>1. /\ i - 1 \in m + 1 .. Len(t) /\ (i - 1) + 1 = i
            /\ i - 1 \in 1 .. Len(t) /\ i - 1 < j - 1
        BY <1>1, <1>4, <3>6
      <4>2. Upto(t[i - 1], t[j - 1])
        BY <3>1, <4>1, Zenon DEF Sorted
      <4>3. u[i] = t[i - 1]
        BY <1>1, <4>1, Zenon
      <4>4. QED
        BY <3>2, <4>2, <4>3
    <3>7. QED
      BY <1>1, <2>1, <3>4, <3>5, <3>6
  <2>5. QED
    BY <1>1, <2>1, <2>2, <2>3, <2>4
<1>5. QED
  BY <1>4, Zenon DEF Sorted

LEMMA InsertPlaces ==
    ASSUME NEW t \in Seq(Seq(Byte)), NEW raws, NEW D, NEW x, x \notin D,
           NEW f, ArrangedBy(t, raws, D, f),
           NEW m \in 0 .. Len(t), NEW u, Inserted(t, raws[x], m, u)
    PROVE  \E g : ArrangedBy(u, raws, D \cup {x}, g)
<1>1. /\ Len(t) \in Nat /\ m \in Nat /\ Len(u) = Len(t) + 1
      /\ \A i \in 1 .. m : u[i] = t[i]
      /\ u[m + 1] = raws[x]
      /\ \A i \in m + 1 .. Len(t) : u[i + 1] = t[i]
  BY DEF Inserted
<1>2. /\ f \in [D -> 1 .. Len(t)]
      /\ \A y, z \in D : f[y] = f[z] => y = z
      /\ \A k \in 1 .. Len(t) : \E y \in D : f[y] = k
      /\ \A y \in D : t[f[y]] = raws[y]
  BY Zenon DEF ArrangedBy, Places
<1> DEFINE E == D \cup {x}
           g == [y \in E |-> IF y = x THEN m + 1 ELSE IF f[y] <= m THEN f[y] ELSE f[y] + 1]
<1>3. g[x] = m + 1
  OBVIOUS
<1>4. \A y \in D : g[y] = IF f[y] <= m THEN f[y] ELSE f[y] + 1
  OBVIOUS
<1>5. \A y \in D : f[y] \in 1 .. Len(t)
  BY <1>2
<1>6. \A y \in D : g[y] \in 1 .. Len(u) /\ g[y] # m + 1
  <2>1. TAKE y \in D
  <2>2. PICK k, l : k = f[y] /\ l = g[y]
    OBVIOUS
  <2>3. k \in 1 .. Len(t) /\ l = IF k <= m THEN k ELSE k + 1
    BY <1>4, <1>5, <2>2, Zenon
  <2>4. l \in 1 .. Len(u) /\ l # m + 1
    BY <1>1, <2>3
  <2>5. QED
    BY <2>2, <2>4
<1>7. g \in [E -> 1 .. Len(u)]
  <2>1. m + 1 \in 1 .. Len(u)
    BY <1>1
  <2>2. \A y \in E : g[y] \in 1 .. Len(u)
    BY <1>3, <1>6, <2>1
  <2>3. g = [y \in E |-> g[y]]
    BY Zenon
  <2> HIDE DEF g
  <2>4. QED
    BY <2>2, <2>3
<1> HIDE DEF g
<1>8. ASSUME NEW y \in E, NEW z \in E, g[y] = g[z] PROVE y = z
  <2>1. CASE y \in D /\ z \in D
    <3>1. PICK k, l : k = f[y] /\ l = f[z]
      OBVIOUS
    <3>2. k \in 1 .. Len(t) /\ l \in 1 .. Len(t)
      BY <1>5, <2>1, <3>1
    <3>3. (IF k <= m THEN k ELSE k + 1) = (IF l <= m THEN l ELSE l + 1)
      BY <1>4, <1>8, <2>1, <3>1, Zenon
    <3>6. m \in Nat
      BY <1>1
    <3>4. k = l
      <4>1. k \in Nat /\ l \in Nat
        BY <1>1, <3>2
      <4>2. CASE k <= m /\ l <= m
        BY <3>3, <4>2, Zenon
      <4>3. CASE ~(k <= m) /\ ~(l <= m)
        <5>1. k + 1 = l + 1
          BY <3>3, <4>3, Zenon
        <5>2. QED
          BY <4>1, <5>1
      <4>4. CASE k <= m /\ ~(l <= m)
        <5>1. k = l + 1
          BY <3>3, <4>4, Zenon
        <5>2. QED
          BY <3>6, <4>1, <4>4, <5>1
      <4>5. CASE ~(k <= m) /\ l <= m
        <5>1. k + 1 = l
          BY <3>3, <4>5, Zenon
        <5>2. QED
          BY <3>6, <4>1, <4>5, <5>1
      <4>6. QED
        BY <4>2, <4>3, <4>4, <4>5, Zenon
    <3>5. QED
      BY <1>2, <2>1, <3>1, <3>4, Zenon
  <2>2. CASE y = x
    BY <1>3, <1>6, <1>8, <2>2
  <2>3. CASE z = x
    BY <1>3, <1>6, <1>8, <2>3
  <2>4. QED
    BY <2>1, <2>2, <2>3
<1>9. ASSUME NEW k \in 1 .. Len(u) PROVE \E y \in E : g[y] = k
  <2>1. CASE k = m + 1
    BY <1>3, <2>1
  <2>2. CASE k <= m
    <3>1. k \in 1 .. Len(t)
      BY <1>1, <2>2
    <3>2. PICK y \in D : f[y] = k
      BY <1>2, <3>1, Zenon
    <3>3. g[y] = k
      BY <1>4, <2>2, <3>2
    <3>4. QED
      BY <3>3
  <2>3. CASE k > m + 1
    <3>1. k - 1 \in 1 .. Len(t) /\ ~(k - 1 <= m) /\ (k - 1) + 1 = k
      BY <1>1, <2>3
    <3>2. PICK y \in D : f[y] = k - 1
      BY <1>2, <3>1, Zenon
    <3>3. g[y] = k
      BY <1>4, <3>1, <3>2
    <3>4. QED
      BY <3>3
  <2>4. QED
    BY <1>1, <2>1, <2>2, <2>3
<1>10. \A y \in E : u[g[y]] = raws[y]
  <2>1. u[g[x]] = raws[x]
    BY <1>1, <1>3
  <2>2. ASSUME NEW y \in D PROVE u[g[y]] = raws[y]
    <3>1. PICK k : k = f[y]
      OBVIOUS
    <3>2. k \in 1 .. Len(t) /\ t[k] = raws[y]
      BY <1>2, <1>5, <3>1, Zenon
    <3>3. CASE k <= m
      <4>1. k \in 1 .. m /\ g[y] = k
        BY <1>1, <1>4, <3>1, <3>2, <3>3
      <4>2. QED
        BY <1>1, <3>2, <4>1
    <3>4. CASE ~(k <= m)
      <4>1. k \in m + 1 .. Len(t) /\ g[y] = k + 1
        BY <1>1, <1>4, <3>1, <3>2, <3>4
      <4>2. QED
        BY <1>1, <3>2, <4>1
    <3>5. QED
      BY <3>3, <3>4
  <2>3. QED
    BY <2>1, <2>2
<1>11. ArrangedBy(u, raws, E, g)
  BY <1>7, <1>8, <1>9, <1>10, Zenon DEF ArrangedBy, Places
<1>12. QED
  BY <1>11, Zenon DEF E

LEMMA InsertArranges ==
    ASSUME NEW raws, AllTagged(raws), NEW D, D \subseteq DOMAIN raws,
           NEW x \in DOMAIN raws, x \notin D, NEW t, Arranges(t, raws, D)
    PROVE  Arranges(Insert(t, raws[x]), raws, D \cup {x})
<1>1. PICK v, u : v = raws[x] /\ u = Insert(t, v)
  OBVIOUS
<1>2. Tagged(v) /\ v \in Seq(Byte)
  BY <1>1 DEF AllTagged, Tagged
<1>3. t \in Seq(Seq(Byte)) /\ Sorted(t) /\ IsFiniteSet(D) /\ Len(t) = Cardinality(D)
  BY DEF Arranges
<1>4. PICK m \in 0 .. Len(t) :
          /\ Inserted(t, v, m, u)
          /\ m = 0 \/ ~RawFieldLess(v, t[m])
          /\ \A i \in m + 1 .. Len(t) : RawFieldLess(v, t[i])
  BY <1>1, <1>2, <1>3, InsertIs, Zenon
<1>5. \A k \in 1 .. Len(t) : Tagged(t[k])
  BY ArrangedFrom, Zenon
<1>6. Sorted(u)
  BY <1>2, <1>3, <1>4, <1>5, InsertSorted, Zenon
<1>7. PICK f : ArrangedBy(t, raws, D, f)
  BY DEF Arranges
<1>8. \E g : ArrangedBy(u, raws, D \cup {x}, g)
  BY <1>1, <1>3, <1>4, <1>7, InsertPlaces, Zenon
<1>9. IsFiniteSet(D \cup {x}) /\ Cardinality(D \cup {x}) = Cardinality(D) + 1
  BY <1>3, FS_AddElement
<1>10. u \in Seq(Seq(Byte)) /\ Len(u) = Len(t) + 1
  BY <1>4, Zenon DEF Inserted
<1>11. Len(u) = Cardinality(D \cup {x})
  BY <1>3, <1>9, <1>10
<1>12. Arranges(u, raws, D \cup {x})
  BY <1>6, <1>8, <1>9, <1>10, <1>11, Zenon DEF Arranges
<1>13. QED
  BY <1>1, <1>12

-----------------------------------------------------------------------------
(* Insertion sort *)

SortsBy(raws, f) ==
    f = [D \in SUBSET DOMAIN raws |->
            IF D = {} THEN <<>> ELSE Insert(f[D \ {Max(D)}], raws[Max(D)])]

SortOf(raws) == CHOOSE f : SortsBy(raws, f)

LEMMA DeterministicIs ==
    ASSUME NEW raws
    PROVE  Deterministic(raws) = SortOf(raws)[DOMAIN raws]
  BY Zenon DEF Deterministic, FoldLeft, MapThenFoldSet, SortOf, SortsBy

\* Taking the greatest of a set of positions away.
LEMMA WithoutMax ==
    ASSUME NEW raws \in Seq(Seq(Byte)), NEW D \in SUBSET DOMAIN raws, D # {}
    PROVE  /\ Max(D) \in D
           /\ D \ {Max(D)} \in SUBSET DOMAIN raws
           /\ IsFiniteSet(D) /\ Cardinality(D) \in Nat /\ Cardinality(D) <= Len(raws)
           /\ Cardinality(D \ {Max(D)}) = Cardinality(D) - 1
<1>1. Len(raws) \in Nat /\ DOMAIN raws = 1 .. Len(raws)
  OBVIOUS
<1>2. IsFiniteSet(1 .. Len(raws)) /\ Cardinality(1 .. Len(raws)) = Len(raws)
  <2>1. 1 \in Int /\ Len(raws) \in Int
    BY <1>1
  <2>2. /\ IsFiniteSet(1 .. Len(raws))
        /\ Cardinality(1 .. Len(raws)) = IF 1 > Len(raws) THEN 0 ELSE Len(raws) - 1 + 1
    BY <2>1, FS_Interval
  <2>3. QED
    BY <1>1, <2>2
<1>3. IsFiniteSet(D) /\ Cardinality(D) <= Len(raws)
  BY <1>1, <1>2, FS_Subset
<1>4. Cardinality(D) \in Nat
  BY <1>3, FS_CardinalityType
<1>5. Max(D) \in D
  <2>1. D \subseteq 0 .. Len(raws)
    BY <1>1
  <2>2. QED
    BY <1>1, <2>1, MaxIs
<1>6. Cardinality(D \ {Max(D)}) = Cardinality(D) - 1
  <2>1. PICK x : x = Max(D)
    OBVIOUS
  <2>2. Cardinality(D \ {x}) = Cardinality(D) - 1
    BY <1>3, <1>5, <2>1, FS_RemoveElement
  <2>3. QED
    BY <2>1, <2>2
<1>7. QED
  BY <1>3, <1>4, <1>5, <1>6

LEMMA InsertTyped ==
    ASSUME NEW t \in Seq(Seq(Byte)), NEW v \in Seq(Byte)
    PROVE  Insert(t, v) \in Seq(Seq(Byte))
<1>1. PICK u : u = Insert(t, v)
  OBVIOUS
<1>2. PICK m \in 0 .. Len(t) : Inserted(t, v, m, u)
  BY <1>1, InsertIs, Zenon
<1>3. u \in Seq(Seq(Byte))
  BY <1>2, Zenon DEF Inserted
<1>4. QED
  BY <1>1, <1>3

LEMMA SortExists == ASSUME NEW raws \in Seq(Seq(Byte)) PROVE \E f : SortsBy(raws, f)
<1> DEFINE All == SUBSET DOMAIN raws
           R == Seq(Seq(Byte))
           C == {D \in All : D # {}}
           next == [D \in All |-> D \ {Max(D)}]
           step == [D \in All |-> [t \in R |-> Insert(t, raws[Max(D)])]]
           final == [D \in All |-> <<>>]
           rank == [D \in All |-> Cardinality(D)]
           n == Len(raws)
<1>1. n \in Nat
  OBVIOUS
<1>2. rank \in [All -> 0 .. n]
  <2>1. ASSUME NEW D \in All PROVE Cardinality(D) \in 0 .. n
    <3>1. CASE D = {}
      <4>1. Cardinality(D) = 0
        BY <3>1, FS_EmptySet
      <4>2. QED
        BY <1>1, <4>1
    <3>2. CASE D # {}
      <4>1. PICK c : c = Cardinality(D)
        OBVIOUS
      <4>2. c \in Nat /\ c <= n
        BY <3>2, <4>1, WithoutMax
      <4>3. QED
        BY <1>1, <4>1, <4>2
    <3>3. QED
      BY <3>1, <3>2
  <2>2. QED
    BY <2>1
<1>3. ASSUME NEW D \in All \cap C
      PROVE  next[D] \in All /\ rank[next[D]] < rank[D] /\ step[D] \in [R -> R]
  <2>1. D \in All /\ D # {}
    BY <1>3
  <2>2. PICK E, x : x = Max(D) /\ E = D \ {x}
    OBVIOUS
  <2>3. /\ E \in All /\ x \in D /\ Cardinality(D) \in Nat /\ Cardinality(E) = Cardinality(D) - 1
    BY <2>1, <2>2, WithoutMax
  <2>4. next[D] = E
    BY <2>1, <2>2
  <2>5. rank[E] = Cardinality(E) /\ rank[D] = Cardinality(D)
    BY <2>1, <2>3
  <2>6. rank[next[D]] < rank[D]
    <3>1. PICK c, d : c = Cardinality(D) /\ d = Cardinality(E)
      OBVIOUS
    <3>2. c \in Nat /\ d = c - 1
      BY <2>3, <3>1
    <3>3. d < c
      BY <3>2
    <3>4. rank[next[D]] = d /\ rank[D] = c
      BY <2>4, <2>5, <3>1, Zenon
    <3>5. QED
      BY <3>3, <3>4
  <2>7. raws[x] \in Seq(Byte)
    BY <2>1, <2>3
  <2>8. \A t \in R : Insert(t, raws[x]) \in R
    BY <2>7, InsertTyped
  <2>9. step[D] = [t \in R |-> Insert(t, raws[x])]
    BY <2>1, <2>2, Zenon
  <2>10. step[D] \in [R -> R]
    BY <2>8, <2>9
  <2>11. QED
    BY <2>3, <2>4, <2>6, <2>10
<1>4. ASSUME NEW D \in All \ C PROVE final[D] \in R
  <2>1. final[D] = <<>>
    BY <1>4
  <2>2. <<>> \in R
    OBVIOUS
  <2>3. QED
    BY <2>1, <2>2
<1> HIDE DEF All, R, C, next, step, final, rank, n
<1>5. PICK f \in [All -> R] : Recursion(All, C, next, step, final, f)
  BY <1>1, <1>2, <1>3, <1>4, RecursionExists, Zenon
<1>6. ASSUME NEW D \in All
      PROVE  f[D] = IF D = {} THEN <<>> ELSE Insert(f[D \ {Max(D)}], raws[Max(D)])
  <2>1. f[D] = IF D \in C THEN step[D][f[next[D]]] ELSE final[D]
    BY <1>5, Zenon DEF Recursion
  <2>2. CASE D = {}
    <3>1. D \notin C
      BY <2>2 DEF C
    <3>2. final[D] = <<>>
      BY Zenon DEF final
    <3>3. QED
      BY <2>1, <2>2, <3>1, <3>2
  <2>3. CASE D # {}
    <3>1. D \in All \cap C
      BY <2>3 DEF C
    <3>2. next[D] \in All /\ next[D] = D \ {Max(D)}
      BY <1>3, <3>1, Zenon DEF next
    <3>3. f[next[D]] \in R
      BY <1>5, <3>2
    <3>4. step[D] = [t \in R |-> Insert(t, raws[Max(D)])]
      BY Zenon DEF step
    <3>5. step[D][f[next[D]]] = Insert(f[next[D]], raws[Max(D)])
      BY <3>3, <3>4, Zenon
    <3>6. QED
      BY <2>1, <2>3, <3>1, <3>2, <3>5, Zenon
  <2>4. QED
    BY <2>2, <2>3
<1>7. f = [D \in All |-> IF D = {} THEN <<>> ELSE Insert(f[D \ {Max(D)}], raws[Max(D)])]
  <2> DEFINE P(D) == IF D = {} THEN <<>> ELSE Insert(f[D \ {Max(D)}], raws[Max(D)])
  <2>1. \A D \in All : f[D] = P(D)
    BY <1>6, Zenon
  <2> HIDE DEF P
  <2>2. f = [D \in All |-> P(D)]
    BY <1>5, <2>1
  <2>3. QED
    BY <2>2, Zenon DEF P
<1>8. SortsBy(raws, f)
  BY <1>7, Zenon DEF SortsBy, All
<1>9. QED
  BY <1>8, Zenon

LEMMA SortArranges ==
    ASSUME NEW raws, AllTagged(raws)
    PROVE  Arranges(Deterministic(raws), raws, DOMAIN raws)
<1>1. PICK f : f = SortOf(raws)
  OBVIOUS
<1>2. raws \in Seq(Seq(Byte)) /\ Len(raws) \in Nat
  BY DEF AllTagged
<1>3. SortsBy(raws, f)
  BY <1>1, <1>2, SortExists, Zenon DEF SortOf
<1>4. \A D \in SUBSET DOMAIN raws :
          f[D] = IF D = {} THEN <<>> ELSE Insert(f[D \ {Max(D)}], raws[Max(D)])
  BY <1>3, Zenon DEF SortsBy
<1> DEFINE All == SUBSET DOMAIN raws
           G == {D \in All : Arranges(f[D], raws, D)}
           rank == [D \in All |-> Cardinality(D)]
<1>5. rank \in [All -> Nat]
  <2>1. ASSUME NEW D \in All PROVE Cardinality(D) \in Nat
    <3>1. CASE D = {}
      BY <3>1, FS_EmptySet
    <3>2. CASE D # {}
      BY <1>2, <3>2, WithoutMax
    <3>3. QED
      BY <3>1, <3>2
  <2>2. QED
    BY <2>1
<1>6. ASSUME NEW D \in All, \A E \in All : rank[E] < rank[D] => E \in G
      PROVE  D \in G
  <2>1. CASE D = {}
    <3>1. PICK t : t = <<>>
      OBVIOUS
    <3>2. t \in Seq(Seq(Byte)) /\ Len(t) = 0 /\ 1 .. 0 = {}
      BY <3>1
    <3>3. f[D] = t
      BY <1>4, <2>1, <3>1, Zenon
    <3>4. Sorted(t)
      BY <3>2 DEF Sorted
    <3>5. IsFiniteSet(D) /\ Cardinality(D) = 0
      BY <2>1, FS_EmptySet
    <3>6. PICK g : g = [x \in {} |-> x]
      OBVIOUS
    <3>7. Places(g, D, 0)
      <4>1. g \in [D -> 1 .. 0]
        BY <2>1, <3>6
      <4>2. QED
        BY <2>1, <3>2, <4>1 DEF Places
    <3>8. ArrangedBy(t, raws, D, g)
      BY <2>1, <3>2, <3>7 DEF ArrangedBy
    <3>9. Arranges(t, raws, D)
      BY <3>2, <3>4, <3>5, <3>8 DEF Arranges
    <3>10. QED
      BY <3>3, <3>9
  <2>2. CASE D # {}
    <3>1. PICK x, E : x = Max(D) /\ E = D \ {x}
      OBVIOUS
    <3>2. /\ x \in D /\ E \in All /\ Cardinality(D) \in Nat
          /\ Cardinality(E) = Cardinality(D) - 1
      BY <1>2, <2>2, <3>1, WithoutMax
    <3>3. rank[E] = Cardinality(E) /\ rank[D] = Cardinality(D)
      BY <3>2
    <3>4. rank[E] < rank[D]
      BY <3>2, <3>3
    <3>5. E \in G
      BY <1>6, <3>2, <3>4
    <3>6. PICK t : t = f[E]
      OBVIOUS
    <3>7. Arranges(t, raws, E)
      BY <3>5, <3>6
    <3>8. E \subseteq DOMAIN raws /\ x \in DOMAIN raws /\ x \notin E /\ E \cup {x} = D
      BY <3>1, <3>2
    <3>9. Arranges(Insert(t, raws[x]), raws, E \cup {x})
      BY <3>7, <3>8, InsertArranges, Zenon
    <3>10. f[D] = Insert(t, raws[x])
      BY <1>4, <2>2, <3>1, <3>6, Zenon
    <3>11. Arranges(f[D], raws, D)
      BY <3>8, <3>9, <3>10
    <3>12. QED
      BY <3>11
  <2>3. QED
    BY <2>1, <2>2
<1>7. All \subseteq G
  <2> HIDE DEF All, G, rank
  <2>1. QED
    BY <1>5, <1>6, ByRank, Zenon
<1>8. DOMAIN raws \in G
  <2>1. DOMAIN raws \in All
    OBVIOUS
  <2> HIDE DEF All
  <2>2. QED
    BY <1>7, <2>1
<1>9. Arranges(f[DOMAIN raws], raws, DOMAIN raws)
  BY <1>8
<1>10. QED
  BY <1>1, <1>9, DeterministicIs

-----------------------------------------------------------------------------
(* One order *)

\* Two orders of the same elements have places for them that match.
Matched(t, u, f, g, D) ==
    /\ t \in Seq(Seq(Byte)) /\ u \in Seq(Seq(Byte))
    /\ Sorted(t) /\ Sorted(u)
    /\ (\A k \in 1 .. Len(t) : Tagged(t[k])) /\ (\A k \in 1 .. Len(t) : Tagged(u[k]))
    /\ Len(u) = Len(t)
    /\ Places(f, D, Len(t)) /\ Places(g, D, Len(t))
    /\ \A x \in D : t[f[x]] = u[g[x]]

\* The first k of t would be among the k - 1 of u in front of its k-th.
LEMMA NotBehind ==
    ASSUME NEW t, NEW u, NEW f, NEW g, NEW D, Matched(t, u, f, g, D), NEW k \in 1 .. Len(t)
    PROVE  ~RawFieldLess(t[k], u[k])
<1> SUFFICES ASSUME RawFieldLess(t[k], u[k]) PROVE FALSE
  OBVIOUS
<1>1. Len(t) \in Nat /\ k \in Nat /\ 1 <= k /\ k <= Len(t) /\ Len(u) = Len(t)
  BY DEF Matched
<1>2. \A i \in 1 .. k : \E x \in D : f[x] = i
  <2>1. \A i \in 1 .. k : i \in 1 .. Len(t)
    BY <1>1
  <2>2. QED
    BY <2>1, Zenon DEF Matched, Places
<1> DEFINE At(i) == CHOOSE x \in D : f[x] = i
           h == [i \in 1 .. k |-> g[At(i)]]
<1>3. ASSUME NEW i \in 1 .. k PROVE At(i) \in D /\ f[At(i)] = i
  BY <1>2, Zenon
<1> HIDE DEF At
<1>4. ASSUME NEW i \in 1 .. k PROVE g[At(i)] \in 1 .. k - 1
  <2>1. PICK x, j : x = At(i) /\ j = g[x]
    OBVIOUS
  <2>2. x \in D /\ f[x] = i /\ j \in 1 .. Len(t) /\ t[i] = u[j]
    BY <1>3, <2>1 DEF Matched, Places
  <2>3. i \in 1 .. Len(t) /\ (i = k \/ i < k)
    BY <1>1
  <2>4. Tagged(t[i]) /\ Tagged(t[k]) /\ Tagged(u[k]) /\ Tagged(u[j])
    BY <2>2, <2>3, Zenon DEF Matched
  <2>5. Upto(t[i], t[k])
    <3>1. CASE i = k
      BY <2>4, <3>1, LessIrreflexive, Zenon DEF Upto
    <3>2. CASE i < k
      BY <2>3, <3>2, Zenon DEF Matched, Sorted
    <3>3. QED
      BY <2>3, <3>1, <3>2
  <2>6. ~Upto(u[k], u[j])
    <3>1. SUFFICES ASSUME Upto(u[k], u[j]) PROVE FALSE
      OBVIOUS
    <3>2. Upto(u[k], t[k])
      BY <2>2, <2>4, <2>5, <3>1, UptoTransitive, Zenon
    <3>3. QED
      BY <3>2 DEF Upto
  <2>7. j < k
    <3>1. SUFFICES ASSUME k <= j PROVE FALSE
      BY <1>1, <2>2
    <3>2. CASE j = k
      BY <2>4, <2>6, <3>2, LessIrreflexive, Zenon DEF Upto
    <3>3. CASE k < j
      <4>1. k \in 1 .. Len(u) /\ j \in 1 .. Len(u)
        BY <1>1, <2>2
      <4>2. Upto(u[k], u[j])
        BY <3>3, <4>1, Zenon DEF Matched, Sorted
      <4>3. QED
        BY <2>6, <4>2
    <3>4. QED
      BY <1>1, <2>2, <3>1, <3>2, <3>3
  <2>8. QED
    BY <1>1, <2>1, <2>2, <2>7
<1>5. h \in [1 .. k -> 1 .. k - 1]
  BY <1>4
<1>6. \A i, j \in 1 .. k : h[i] = h[j] => i = j
  <2>1. ASSUME NEW i \in 1 .. k, NEW j \in 1 .. k, h[i] = h[j] PROVE i = j
    <3>1. g[At(i)] = g[At(j)]
      BY <2>1
    <3>2. At(i) = At(j)
      BY <1>3, <3>1, Zenon DEF Matched, Places
    <3>3. QED
      BY <1>3, <3>2, Zenon
  <2>2. QED
    BY <2>1
<1>7. /\ IsFiniteSet(1 .. k) /\ Cardinality(1 .. k) = k
      /\ IsFiniteSet(1 .. k - 1) /\ Cardinality(1 .. k - 1) = k - 1
  <2>1. PICK l : l = k - 1
    OBVIOUS
  <2>2. l \in Int /\ k \in Int /\ 1 \in Int
    BY <1>1, <2>1
  <2>3. /\ IsFiniteSet(1 .. k) /\ Cardinality(1 .. k) = IF 1 > k THEN 0 ELSE k - 1 + 1
        /\ IsFiniteSet(1 .. l) /\ Cardinality(1 .. l) = IF 1 > l THEN 0 ELSE l - 1 + 1
    BY <2>2, FS_Interval
  <2>4. QED
    BY <1>1, <2>1, <2>3
<1>8. PICK S, T : S = 1 .. k /\ T = 1 .. k - 1
  OBVIOUS
<1>9. Cardinality(T) < Cardinality(S)
  BY <1>1, <1>7, <1>8
<1> HIDE DEF h
<1>10. \E i, j \in S : i # j /\ h[i] = h[j]
  BY <1>5, <1>7, <1>8, <1>9, FS_PigeonHole
<1>11. QED
  BY <1>6, <1>8, <1>10

LEMMA OneOrder ==
    ASSUME NEW t, NEW u, NEW f, NEW g, NEW D, Matched(t, u, f, g, D)
    PROVE  t = u
<1>1. Matched(u, t, g, f, D)
  BY DEF Matched
<1>2. ASSUME NEW k \in 1 .. Len(t) PROVE t[k] = u[k]
  <2>1. ~RawFieldLess(t[k], u[k])
    BY NotBehind, Zenon
  <2>2. k \in 1 .. Len(u)
    BY DEF Matched
  <2>3. ~RawFieldLess(u[k], t[k])
    BY <1>1, <2>2, NotBehind, Zenon
  <2>4. Tagged(t[k]) /\ Tagged(u[k])
    BY Zenon DEF Matched
  <2>5. QED
    BY <2>1, <2>3, <2>4, LessTotal, Zenon
<1>3. t \in Seq(Seq(Byte)) /\ u \in Seq(Seq(Byte)) /\ Len(u) = Len(t)
  BY DEF Matched
<1>4. t = [k \in 1 .. Len(t) |-> t[k]] /\ u = [k \in 1 .. Len(u) |-> u[k]]
  BY <1>3
<1>5. QED
  BY <1>2, <1>3, <1>4

\* Fields in another order.
LEMMA OrderIrrelevant ==
    ASSUME NEW raws, AllTagged(raws), NEW p \in Bijection(DOMAIN raws, DOMAIN raws)
    PROVE  Deterministic([i \in DOMAIN raws |-> raws[p[i]]]) = Deterministic(raws)
<1> DEFINE D == DOMAIN raws
<1>1. /\ p \in [D -> D]
      /\ \A i, j \in D : p[i] = p[j] => i = j
      /\ \A i \in D : \E j \in D : p[j] = i
  BY Zenon DEF Bijection, Injection, Surjection, IsInjective
<1>2. PICK other : other = [i \in D |-> raws[p[i]]]
  OBVIOUS
<1>3. raws \in Seq(Seq(Byte)) /\ Len(raws) \in Nat /\ D = 1 .. Len(raws)
  BY DEF AllTagged
<1>4. DOMAIN other = D /\ \A i \in D : other[i] = raws[p[i]]
  BY <1>2
<1>5. AllTagged(other)
  <2>1. \A i \in D : Tagged(other[i]) /\ other[i] \in Seq(Byte)
    <3>1. ASSUME NEW i \in D PROVE Tagged(other[i]) /\ other[i] \in Seq(Byte)
      <4>1. p[i] \in DOMAIN raws /\ other[i] = raws[p[i]]
        BY <1>1, <1>4
      <4>2. Tagged(raws[p[i]])
        BY <4>1 DEF AllTagged
      <4>3. QED
        BY <4>1, <4>2 DEF Tagged
    <3>2. QED
      BY <3>1
  <2>2. other = [i \in 1 .. Len(raws) |-> other[i]]
    BY <1>2, <1>3
  <2>3. other \in Seq(Seq(Byte))
    BY <1>3, <2>1, <2>2
  <2>4. QED
    BY <1>4, <2>1, <2>3, Zenon DEF AllTagged
<1>6. PICK t, u : t = Deterministic(raws) /\ u = Deterministic(other)
  OBVIOUS
<1>7. Arranges(t, raws, D)
  BY <1>6, SortArranges
<1>8. Arranges(u, other, D)
  BY <1>4, <1>5, <1>6, SortArranges
<1>9. PICK f : ArrangedBy(t, raws, D, f)
  BY <1>7, Zenon DEF Arranges
<1>10. PICK g : ArrangedBy(u, other, D, g)
  BY <1>8, Zenon DEF Arranges
<1>11. PICK e : e = [i \in D |-> f[p[i]]]
  OBVIOUS
<1>12. Len(u) = Len(t) /\ t \in Seq(Seq(Byte)) /\ u \in Seq(Seq(Byte)) /\ Sorted(t) /\ Sorted(u)
  BY <1>7, <1>8, Zenon DEF Arranges
<1>13. \A k \in 1 .. Len(t) : Tagged(t[k])
  BY <1>7, ArrangedFrom
<1>14. \A k \in 1 .. Len(u) : Tagged(u[k])
  BY <1>4, <1>5, <1>8, ArrangedFrom
<1> HIDE DEF D
<1>15. Places(f, D, Len(t)) /\ Places(g, D, Len(t))
  BY <1>9, <1>10, <1>12, Zenon DEF ArrangedBy
<1>16. Places(e, D, Len(t))
  <2>1. /\ f \in [D -> 1 .. Len(t)]
        /\ \A x, y \in D : f[x] = f[y] => x = y
        /\ \A k \in 1 .. Len(t) : \E x \in D : f[x] = k
    BY <1>15, Zenon DEF Places
  <2>2. \A i \in D : e[i] = f[p[i]] /\ p[i] \in D
    BY <1>1, <1>11
  <2>3. e \in [D -> 1 .. Len(t)]
    BY <1>1, <1>11, <2>1
  <2>4. \A x, y \in D : e[x] = e[y] => x = y
    <3>1. ASSUME NEW x \in D, NEW y \in D, e[x] = e[y] PROVE x = y
      <4>1. f[p[x]] = f[p[y]] /\ p[x] \in D /\ p[y] \in D
        BY <2>2, <3>1
      <4>2. p[x] = p[y]
        BY <2>1, <4>1
      <4>3. QED
        BY <1>1, <4>2
    <3>2. QED
      BY <3>1
  <2>5. ASSUME NEW k \in 1 .. Len(t) PROVE \E x \in D : e[x] = k
    <3>1. PICK y \in D : f[y] = k
      BY <2>1
    <3>2. PICK x \in D : p[x] = y
      BY <1>1
    <3>3. e[x] = k
      BY <2>2, <3>1, <3>2
    <3>4. QED
      BY <3>3
  <2>6. QED
    BY <2>3, <2>4, <2>5, Zenon DEF Places
<1>17. \A x \in D : t[e[x]] = u[g[x]]
  <2>1. ASSUME NEW x \in D PROVE t[e[x]] = u[g[x]]
    <3>1. e[x] = f[p[x]] /\ p[x] \in D
      BY <1>1, <1>11
    <3>2. t[f[p[x]]] = raws[p[x]]
      BY <1>9, <3>1, Zenon DEF ArrangedBy
    <3>3. u[g[x]] = other[x] /\ other[x] = raws[p[x]]
      BY <1>4, <1>10, Zenon DEF ArrangedBy
    <3>4. QED
      BY <3>1, <3>2, <3>3
  <2>2. QED
    BY <2>1
<1>18. Matched(t, u, e, g, D)
  BY <1>12, <1>13, <1>14, <1>15, <1>16, <1>17 DEF Matched
<1>19. t = u
  BY <1>18, OneOrder
<1>20. QED
  BY <1>2, <1>6, <1>19 DEF D

-----------------------------------------------------------------------------
(* A group and the fields in it *)

LEMMA FrontElements ==
    ASSUME NEW S, NEW q \in Seq(S), q # <<>>
    PROVE  /\ Front(q) \in Seq(S) /\ Len(Front(q)) = Len(q) - 1
           /\ \A k \in 1 .. Len(q) - 1 : Front(q)[k] = q[k]
<1>1. PICK e : e = Len(q) - 1
  OBVIOUS
<1>2. e \in Nat /\ e <= Len(q)
  BY <1>1
<1>3. PICK f : f = Between(q, 0, e)
  OBVIOUS
<1>4. f \in Seq(S) /\ Len(f) = e - 0 /\ \A k \in 1 .. e - 0 : f[k] = q[0 + k]
  <2>1. PICK z : z = 0
    OBVIOUS
  <2>2. z \in Nat /\ z <= e
    BY <1>2, <2>1
  <2>3. /\ Between(q, z, e) \in Seq(S) /\ Len(Between(q, z, e)) = e - z
        /\ \A x \in 1 .. e - z : Between(q, z, e)[x] = q[z + x]
    BY <1>2, <2>2, BetweenIs
  <2>4. QED
    BY <1>3, <2>1, <2>3
<1>5. f = Front(q)
  BY <1>1, <1>3 DEF Front, Between
<1>6. f \in Seq(S) /\ Len(f) = e /\ \A k \in 1 .. e : f[k] = q[k]
  BY <1>2, <1>4
<1>7. QED
  BY <1>1, <1>5, <1>6

\* The group n open around others.
Around(n, open) == <<n>> \o open

LEMMA AroundIs ==
    ASSUME NEW n \in Nat, NEW open \in Seq(Nat)
    PROVE  /\ Around(n, open) \in Seq(Nat) /\ Around(n, open) # <<>>
           /\ Len(Around(n, open)) = Len(open) + 1
           /\ Around(n, open)[1] = n
           /\ \A k \in 1 .. Len(open) : Around(n, open)[k + 1] = open[k]
<1>1. PICK g \in Seq(Nat) : g = <<n>>
  <2>1. <<n>> \in Seq(Nat)
    OBVIOUS
  <2>2. QED
    BY <2>1
<1>2. Len(g) = 1 /\ g[1] = n
  BY <1>1
<1>3. /\ g \o open \in Seq(Nat) /\ Len(g \o open) = Len(g) + Len(open)
      /\ \A k \in 1 .. Len(g) + Len(open) :
            (g \o open)[k] = IF k <= Len(g) THEN g[k] ELSE open[k - Len(g)]
  BY ConcatProperties
<1>4. PICK d : d = Around(n, open)
  OBVIOUS
<1>5. /\ d \in Seq(Nat) /\ Len(d) = 1 + Len(open)
      /\ \A k \in 1 .. 1 + Len(open) : d[k] = IF k <= 1 THEN g[k] ELSE open[k - 1]
  BY <1>1, <1>2, <1>3, <1>4 DEF Around
<1>6. Len(open) \in Nat
  OBVIOUS
<1>7. d # <<>> /\ d[1] = n
  BY <1>2, <1>5, <1>6
<1>8. ASSUME NEW k \in 1 .. Len(open) PROVE d[k + 1] = open[k]
  <2>1. PICK j : j = k + 1
    OBVIOUS
  <2>2. j \in 1 .. 1 + Len(open) /\ ~(j <= 1) /\ j - 1 = k
    BY <1>6, <2>1
  <2>3. d[j] = open[j - 1]
    BY <1>5, <2>2
  <2>4. QED
    BY <2>1, <2>2, <2>3
<1>9. QED
  BY <1>4, <1>5, <1>6, <1>7, <1>8

LEMMA AroundNothing == ASSUME NEW n PROVE Around(n, <<>>) = <<n>>
  BY DEF Around

LEMMA AroundEnds ==
    ASSUME NEW n \in Nat, NEW open \in Seq(Nat), open # <<>>
    PROVE  /\ Last(Around(n, open)) = Last(open)
           /\ Front(Around(n, open)) = Around(n, Front(open))
<1>1. PICK d : d = Around(n, open)
  OBVIOUS
<1>2. /\ d \in Seq(Nat) /\ d # <<>> /\ Len(d) = Len(open) + 1 /\ d[1] = n
      /\ \A k \in 1 .. Len(open) : d[k + 1] = open[k]
  BY <1>1, AroundIs
<1>3. Len(open) \in Nat \ {0}
  OBVIOUS
<1>4. Last(d) = Last(open)
  <2>1. Last(d) = d[Len(open) + 1] /\ Last(open) = open[Len(open)]
    BY <1>2 DEF Last
  <2>2. Len(open) \in 1 .. Len(open)
    BY <1>3
  <2>3. QED
    BY <1>2, <2>1, <2>2
<1>5. PICK f : f = Front(open)
  OBVIOUS
<1>6. f \in Seq(Nat) /\ Len(f) = Len(open) - 1 /\ \A k \in 1 .. Len(open) - 1 : f[k] = open[k]
  BY <1>5, FrontElements
<1>7. PICK a : a = Around(n, f)
  OBVIOUS
<1>8. /\ a \in Seq(Nat) /\ Len(a) = Len(f) + 1 /\ a[1] = n
      /\ \A k \in 1 .. Len(f) : a[k + 1] = f[k]
  BY <1>6, <1>7, AroundIs
<1>9. PICK b : b = Front(d)
  OBVIOUS
<1>10. b \in Seq(Nat) /\ Len(b) = Len(open) /\ \A k \in 1 .. Len(open) : b[k] = d[k]
  <2>1. /\ b \in Seq(Nat) /\ Len(b) = Len(d) - 1
        /\ \A k \in 1 .. Len(d) - 1 : b[k] = d[k]
    BY <1>2, <1>9, FrontElements
  <2>2. QED
    BY <1>2, <1>3, <2>1
<1>11. ASSUME NEW k \in 1 .. Len(open) PROVE a[k] = b[k]
  <2>1. CASE k = 1
    BY <1>2, <1>3, <1>8, <1>10, <2>1
  <2>2. CASE k # 1
    <3>1. PICK j : j = k - 1
      OBVIOUS
    <3>2. j \in 1 .. Len(f) /\ j \in 1 .. Len(open) - 1 /\ j \in 1 .. Len(open) /\ k = j + 1
      BY <1>3, <1>6, <2>2, <3>1
    <3>3. a[k] = f[j] /\ f[j] = open[j] /\ d[k] = open[j]
      BY <1>2, <1>6, <1>8, <3>2
    <3>4. QED
      BY <1>10, <3>3
  <2>3. QED
    BY <2>1, <2>2
<1>12. a = b
  <2>1. a = [k \in 1 .. Len(open) |-> a[k]] /\ b = [k \in 1 .. Len(open) |-> b[k]]
    BY <1>3, <1>6, <1>8, <1>10
  <2>2. QED
    BY <1>11, <2>1
<1>13. QED
  BY <1>1, <1>4, <1>5, <1>7, <1>9, <1>12

LEMMA AroundMore ==
    ASSUME NEW n \in Nat, NEW open \in Seq(Nat), NEW x \in Nat
    PROVE  Append(Around(n, open), x) = Around(n, Append(open, x))
<1>1. PICK d, m : d = Around(n, open) /\ m = Append(open, x)
  OBVIOUS
<1>2. /\ d \in Seq(Nat) /\ Len(d) = Len(open) + 1 /\ d[1] = n
      /\ \A k \in 1 .. Len(open) : d[k + 1] = open[k]
  BY <1>1, AroundIs
<1>3. Len(open) \in Nat /\ m \in Seq(Nat) /\ Len(m) = Len(open) + 1
      /\ \A k \in 1 .. Len(open) + 1 : m[k] = IF k = Len(open) + 1 THEN x ELSE open[k]
  BY <1>1
<1>4. PICK a, b : a = Around(n, m) /\ b = Append(d, x)
  OBVIOUS
<1>5. /\ a \in Seq(Nat) /\ Len(a) = Len(open) + 2 /\ a[1] = n
      /\ \A k \in 1 .. Len(open) + 1 : a[k + 1] = m[k]
  <2>1. /\ a \in Seq(Nat) /\ Len(a) = Len(m) + 1 /\ a[1] = n
        /\ \A k \in 1 .. Len(m) : a[k + 1] = m[k]
    BY <1>3, <1>4, AroundIs
  <2>2. QED
    BY <1>3, <2>1
<1>6. b \in Seq(Nat) /\ Len(b) = Len(open) + 2
      /\ \A k \in 1 .. Len(open) + 2 : b[k] = IF k = Len(open) + 2 THEN x ELSE d[k]
  BY <1>2, <1>3, <1>4
<1>7. ASSUME NEW k \in 1 .. Len(open) + 2 PROVE a[k] = b[k]
  <2>1. CASE k = 1
    BY <1>2, <1>3, <1>5, <1>6, <2>1
  <2>2. CASE k # 1
    <3>1. PICK j : j = k - 1
      OBVIOUS
    <3>2. j \in 1 .. Len(open) + 1 /\ k = j + 1
      BY <1>3, <2>2, <3>1
    <3>3. a[k] = m[j]
      BY <1>5, <3>2
    <3>4. CASE j = Len(open) + 1
      <4>1. k = Len(open) + 2 /\ m[j] = x
        BY <1>3, <3>2, <3>4
      <4>2. b[k] = x
        BY <1>6, <4>1
      <4>3. QED
        BY <3>3, <4>1, <4>2
    <3>5. CASE j # Len(open) + 1
      <4>1. j \in 1 .. Len(open) /\ k # Len(open) + 2
        BY <1>3, <3>2, <3>5
      <4>2. d[k] = open[j] /\ m[j] = open[j]
        BY <1>2, <1>3, <3>2, <3>5, <4>1
      <4>3. QED
        BY <1>6, <3>3, <4>1, <4>2
    <3>6. QED
      BY <3>4, <3>5
  <2>3. QED
    BY <2>1, <2>2
<1>8. a = b
  <2>1. a = [k \in 1 .. Len(open) + 2 |-> a[k]] /\ b = [k \in 1 .. Len(open) + 2 |-> b[k]]
    BY <1>3, <1>5, <1>6
  <2>2. QED
    BY <1>7, <2>1
<1>9. QED
  BY <1>1, <1>4, <1>8

\* A move inside a group that does not end it is one without the group.
MovesInside(n, u, v) == v.ok /\ v.to = u.to /\ v.open \in Seq(Nat) /\ u.open = Around(n, v.open)

LEMMA MoveAround ==
    ASSUME NEW s \in Seq(Byte), NEW i \in Nat, NEW n \in Nat, NEW open \in Seq(Nat),
           Move(s, i, Len(s), Around(n, open), MaxTag).ok,
           open # <<>> \/ NextTag(s, i).wire_type # EndGroup
    PROVE  MovesInside(n, Move(s, i, Len(s), Around(n, open), MaxTag),
                          Move(s, i, Len(s), open, MaxTag))
<1>1. PICK e : e = Len(s)
  OBVIOUS
<1>2. PICK tag : tag = readTag(s, i, e, MaxTag)
  OBVIOUS
<1>3. PICK value : value = skipValue(s, tag.index, e, tag.wire_type)
  OBVIOUS
<1>4. PICK d : d = Around(n, open)
  OBVIOUS
<1>5. PICK u, v : u = Move(s, i, e, d, MaxTag) /\ v = Move(s, i, e, open, MaxTag)
  OBVIOUS
<1>6. u.ok /\ e \in Nat /\ e <= Len(s)
  BY <1>1, <1>4, <1>5
<1>7. u = IF ~tag.ok THEN Refused
          ELSE IF tag.wire_type = EndGroup
          THEN IF d # <<>> /\ tag.number = Last(d)
               THEN [ok |-> TRUE, to |-> tag.index, open |-> Front(d)] ELSE Refused
          ELSE IF tag.wire_type = StartGroup
          THEN IF Len(d) < RecursionLimit
               THEN [ok |-> TRUE, to |-> tag.index, open |-> Append(d, tag.number)]
               ELSE Refused
          ELSE IF value.ok THEN [ok |-> TRUE, to |-> value.index, open |-> d] ELSE Refused
  BY <1>2, <1>3, <1>5, Zenon DEF Move, TagLimit
<1>8. v = IF ~tag.ok THEN Refused
          ELSE IF tag.wire_type = EndGroup
          THEN IF open # <<>> /\ tag.number = Last(open)
               THEN [ok |-> TRUE, to |-> tag.index, open |-> Front(open)] ELSE Refused
          ELSE IF tag.wire_type = StartGroup
          THEN IF Len(open) < RecursionLimit
               THEN [ok |-> TRUE, to |-> tag.index, open |-> Append(open, tag.number)]
               ELSE Refused
          ELSE IF value.ok THEN [ok |-> TRUE, to |-> value.index, open |-> open] ELSE Refused
  BY <1>2, <1>3, <1>5, Zenon DEF Move, TagLimit
<1>9. ~Refused.ok
  BY DEF Refused
<1>10. \A x, y : /\ [ok |-> TRUE, to |-> x, open |-> y].ok
                 /\ [ok |-> TRUE, to |-> x, open |-> y].to = x
                 /\ [ok |-> TRUE, to |-> x, open |-> y].open = y
  OBVIOUS
<1>11. tag.ok
  BY <1>6, <1>7, <1>9, Zenon
<1>12. tag.number \in Nat
  <2>1. readTag(s, i, e, MaxTag).ok /\ i <= e
    <3>1. i < e
      BY <1>2, <1>6, <1>11, TagInFront
    <3>2. QED
      BY <1>2, <1>6, <1>11, <3>1
  <2>2. QED
    BY <1>2, <1>6, <2>1, TagInside
<1>13. /\ d \in Seq(Nat) /\ Len(d) = Len(open) + 1 /\ Len(open) \in Nat
  BY <1>4, AroundIs
<1>14. CASE tag.wire_type = EndGroup
  <2>1. open # <<>>
    BY <1>1, <1>2, <1>14 DEF NextTag
  <2>2. Last(d) = Last(open) /\ Front(d) = Around(n, Front(open))
    BY <1>4, <2>1, AroundEnds
  <2>3. tag.number = Last(d)
    BY <1>6, <1>7, <1>9, <1>11, <1>14, Zenon
  <2>4. u.to = tag.index /\ u.open = Front(d)
    BY <1>6, <1>7, <1>9, <1>10, <1>11, <1>14, Zenon
  <2>5. v = [ok |-> TRUE, to |-> tag.index, open |-> Front(open)]
    BY <1>8, <1>11, <1>14, <2>1, <2>2, <2>3, Zenon
  <2>6. v.ok /\ v.to = tag.index /\ v.open = Front(open)
    BY <1>10, <2>5, Zenon
  <2>7. Front(open) \in Seq(Nat)
    BY <2>1, FrontIs
  <2>8. MovesInside(n, u, v)
    BY <2>2, <2>4, <2>6, <2>7 DEF MovesInside
  <2>9. QED
    BY <1>1, <1>4, <1>5, <2>8
<1>15. CASE tag.wire_type # EndGroup /\ tag.wire_type = StartGroup
  <2>1. Len(d) < RecursionLimit /\ u.to = tag.index /\ u.open = Append(d, tag.number)
    BY <1>6, <1>7, <1>9, <1>10, <1>11, <1>15, Zenon
  <2>2. Len(open) < RecursionLimit
    BY <1>13, <2>1, LimitAssumption
  <2>3. v = [ok |-> TRUE, to |-> tag.index, open |-> Append(open, tag.number)]
    BY <1>8, <1>11, <1>15, <2>2, Zenon
  <2>4. v.ok /\ v.to = tag.index /\ v.open = Append(open, tag.number)
    BY <1>10, <2>3, Zenon
  <2>5. Append(open, tag.number) \in Seq(Nat)
    BY <1>12
  <2>6. Append(d, tag.number) = Around(n, Append(open, tag.number))
    BY <1>4, <1>12, AroundMore
  <2>7. MovesInside(n, u, v)
    BY <2>1, <2>4, <2>5, <2>6 DEF MovesInside
  <2>8. QED
    BY <1>1, <1>4, <1>5, <2>7
<1>16. CASE tag.wire_type # EndGroup /\ tag.wire_type # StartGroup
  <2>1. value.ok /\ u.to = value.index /\ u.open = d
    BY <1>6, <1>7, <1>9, <1>10, <1>11, <1>16, Zenon
  <2>2. v = [ok |-> TRUE, to |-> value.index, open |-> open]
    BY <1>8, <1>11, <1>16, <2>1, Zenon
  <2>3. v.ok /\ v.to = value.index /\ v.open = open
    BY <1>10, <2>2, Zenon
  <2>4. MovesInside(n, u, v)
    BY <1>4, <2>1, <2>3 DEF MovesInside
  <2>5. QED
    BY <1>1, <1>4, <1>5, <2>4
<1>17. QED
  BY <1>14, <1>15, <1>16

(* Skipping open inside the group n skips open and goes on in the group:   *)
(* what ends further out was behind the fields of open.                    *)
SkipsOn(s, n, i, open, r, q) ==
    (open # <<>> \/ NextTag(s, i).wire_type # EndGroup) /\ r # Failed
        => q # Failed /\ SkipOf(s, MaxTag)[<<q, <<n>>>>] = r

GoesOn(s, n, i, open) ==
    SkipsOn(s, n, i, open, SkipOf(s, MaxTag)[<<i, Around(n, open)>>],
                           SkipOf(s, MaxTag)[<<i, open>>])

LEMMA SkipAround ==
    ASSUME NEW s \in Seq(Byte), NEW n \in Nat, NEW i \in Nat, NEW open \in Seq(Nat)
    PROVE  GoesOn(s, n, i, open)
<1> DEFINE G == {p \in Nat \X Seq(Nat) : GoesOn(s, n, p[1], p[2])}
<1>1. \A x, y : <<x, y>>[1] = x /\ <<x, y>>[2] = y
  OBVIOUS
<1>2. ASSUME NEW x \in Nat, NEW y \in Seq(Nat)
      PROVE  <<x, y>> \in G <=> GoesOn(s, n, x, y)
  <2>1. <<x, y>> \in Nat \X Seq(Nat)
    OBVIOUS
  <2>2. QED
    BY <1>1, <2>1
<1> HIDE DEF G
<1>3. ASSUME NEW x \in Nat, NEW y \in Seq(Nat),
             \A j \in Nat, o \in Seq(Nat) : x < j /\ j <= Len(s) => <<j, o>> \in G
      PROVE  <<x, y>> \in G
  <2>1. PICK d, r, q : /\ d = Around(n, y)
                       /\ r = SkipOf(s, MaxTag)[<<x, d>>] /\ q = SkipOf(s, MaxTag)[<<x, y>>]
    OBVIOUS
  <2>2. SUFFICES ASSUME y # <<>> \/ NextTag(s, x).wire_type # EndGroup, r # Failed
                 PROVE  q # Failed /\ SkipOf(s, MaxTag)[<<q, <<n>>>>] = r
    BY <1>2, <2>1, Zenon DEF GoesOn, SkipsOn
  <2>3. PICK u, v : u = Move(s, x, Len(s), d, MaxTag) /\ v = Move(s, x, Len(s), y, MaxTag)
    OBVIOUS
  <2>4. d \in Seq(Nat)
    BY <2>1, AroundIs
  <2>5. r = Skipped(u, SkipOf(s, MaxTag)) /\ q = Skipped(v, SkipOf(s, MaxTag))
    BY <2>1, <2>3, <2>4, SkipIs
  <2>6. u.ok
    BY <2>2, <2>5, Zenon DEF Skipped
  <2>7. Move(s, x, Len(s), Around(n, y), MaxTag).ok
    BY <2>1, <2>3, <2>6
  <2>8. MovesInside(n, u, v)
    <3>1. MovesInside(n, Move(s, x, Len(s), Around(n, y), MaxTag), Move(s, x, Len(s), y, MaxTag))
      BY <2>2, <2>7, MoveAround
    <3>2. QED
      BY <2>1, <2>3, <3>1
  <2>9. v.ok /\ v.to = u.to /\ v.open \in Seq(Nat) /\ u.open = Around(n, v.open)
    BY <2>8 DEF MovesInside
  <2>10. v.to \in Nat /\ x < v.to /\ v.to <= Len(s)
    BY <2>3, <2>9, MoveEnds
  <2>11. u.open # <<>>
    <3>1. PICK o \in Seq(Nat) : o = v.open
      BY <2>9
    <3>2. Around(n, o) # <<>>
      BY AroundIs
    <3>3. QED
      BY <2>9, <3>1, <3>2
  <2>12. r = SkipOf(s, MaxTag)[<<v.to, Around(n, v.open)>>]
    BY <2>5, <2>6, <2>9, <2>11, Zenon DEF Skipped
  <2>13. CASE v.open = <<>>
    <3>1. q = v.to
      BY <2>5, <2>9, <2>13, Zenon DEF Skipped
    <3>2. Around(n, v.open) = <<n>>
      BY <2>13, AroundNothing
    <3>3. q # Failed
      BY <2>10, <3>1 DEF Failed
    <3>4. QED
      BY <2>12, <3>1, <3>2, <3>3
  <2>14. CASE v.open # <<>>
    <3>1. q = SkipOf(s, MaxTag)[<<v.to, v.open>>]
      BY <2>5, <2>9, <2>14, Zenon DEF Skipped
    <3>2. <<v.to, v.open>> \in G
      BY <1>3, <2>9, <2>10, Zenon
    <3>3. GoesOn(s, n, v.to, v.open)
      BY <1>2, <2>9, <2>10, <3>2, Zenon
    <3>4. QED
      BY <2>2, <2>12, <2>14, <3>1, <3>3, Zenon DEF GoesOn, SkipsOn
  <2>15. QED
    BY <2>13, <2>14
<1>4. <<i, open>> \in G
  BY <1>3, SkipInduct, Zenon
<1>5. QED
  BY <1>2, <1>4, Zenon

\* In a group n that ends at e, a field follows or the end tag does.
EndsHere(s, i, n, e) ==
    NextTag(s, i).ok /\ NextTag(s, i).wire_type = EndGroup
        /\ NextTag(s, i).number = n /\ NextTag(s, i).index = e

FieldHere(s, i, n, e) ==
    /\ NextTag(s, i).ok /\ NextTag(s, i).wire_type # EndGroup
    /\ FieldEndOf(s, i, MaxTag) # Failed
    /\ SkipOf(s, MaxTag)[<<FieldEndOf(s, i, MaxTag), <<n>>>>] = e

LEMMA GroupStep ==
    ASSUME NEW s \in Seq(Byte), NEW n \in Nat, NEW i \in Nat, NEW e,
           SkipOf(s, MaxTag)[<<i, <<n>>>>] = e, e # Failed
    PROVE  EndsHere(s, i, n, e) \/ FieldHere(s, i, n, e)
<1>1. PICK d, m : d = <<n>> /\ m = Move(s, i, Len(s), d, MaxTag)
  OBVIOUS
<1>2. d \in Seq(Nat) /\ d # <<>> /\ Last(d) = n /\ Front(d) = <<>>
  <2>1. d \in Seq(Nat) /\ d # <<>> /\ Len(d) = 1 /\ d[1] = n
    BY <1>1
  <2>2. Last(d) = n
    BY <2>1 DEF Last
  <2>3. Front(d) \in Seq(Nat) /\ Len(Front(d)) = 0
    <3>1. Front(d) \in Seq(Nat) /\ Len(Front(d)) = Len(d) - 1
      BY <2>1, FrontElements, Zenon
    <3>2. Len(d) - 1 = 0
      BY <2>1
    <3>3. QED
      BY <3>1, <3>2
  <2>4. QED
    BY <2>1, <2>2, <2>3
<1>3. e = Skipped(m, SkipOf(s, MaxTag))
  BY <1>1, <1>2, SkipIs
<1>4. m.ok
  BY <1>3, Zenon DEF Skipped
<1>5. PICK l : l = Len(s)
  OBVIOUS
<1>6. PICK tag : tag = readTag(s, i, l, MaxTag)
  OBVIOUS
<1>7. NextTag(s, i) = tag
  BY <1>5, <1>6 DEF NextTag
<1>8. ~Refused.ok
  BY DEF Refused
<1>9. tag.ok
  BY <1>1, <1>4, <1>5, <1>6, <1>8, Zenon DEF Move, TagLimit
<1>10. CASE tag.wire_type = EndGroup
  <2>1. m = IF d # <<>> /\ tag.number = Last(d)
            THEN [ok |-> TRUE, to |-> tag.index, open |-> Front(d)] ELSE Refused
    BY <1>1, <1>5, <1>6, <1>9, <1>10, Zenon DEF Move, TagLimit
  <2>2. tag.number = n
    BY <1>2, <1>4, <1>8, <2>1, Zenon
  <2>3. m = [ok |-> TRUE, to |-> tag.index, open |-> <<>>]
    BY <1>2, <2>1, <2>2
  <2>4. m.to = tag.index /\ m.open = <<>>
    BY <2>3
  <2>5. e = tag.index
    BY <1>3, <1>4, <2>4, Zenon DEF Skipped
  <2>6. QED
    BY <1>7, <1>9, <1>10, <2>2, <2>5, Zenon DEF EndsHere
<1>11. CASE tag.wire_type # EndGroup
  <2>1. PICK o : o = <<>>
    OBVIOUS
  <2>2. o \in Seq(Nat) /\ Around(n, o) = d
    BY <1>1, <2>1, AroundNothing
  <2>3. GoesOn(s, n, i, o)
    BY <2>2, SkipAround, Zenon
  <2>4. SkipOf(s, MaxTag)[<<i, Around(n, o)>>] = e
    BY <1>1, <2>2
  <2>5. /\ SkipOf(s, MaxTag)[<<i, o>>] # Failed
        /\ SkipOf(s, MaxTag)[<<SkipOf(s, MaxTag)[<<i, o>>], <<n>>>>] = e
    BY <1>7, <1>11, <2>3, <2>4, Zenon DEF GoesOn, SkipsOn
  <2>6. FieldEndOf(s, i, MaxTag) = SkipOf(s, MaxTag)[<<i, o>>]
    BY <2>1, FieldEndIs
  <2>7. QED
    BY <1>7, <1>9, <1>11, <2>5, <2>6 DEF FieldHere
<1>12. QED
  BY <1>10, <1>11

LEMMA BytesBetween ==
    ASSUME NEW s \in Seq(Byte), NEW i \in Nat, NEW j \in Nat, i <= j, j <= Len(s)
    PROVE  /\ Between(s, i, j) \in Seq(Byte)
           /\ Len(Between(s, i, j)) = j - i
           /\ \A x \in 1 .. j - i : Between(s, i, j)[x] = s[i + x]
  BY BetweenIs

LEMMA BetweenInside ==
    ASSUME NEW s \in Seq(Byte), NEW from \in Nat, NEW to \in Nat, from <= to, to <= Len(s),
           NEW x \in Nat, NEW y \in Nat, x <= y, y <= to - from
    PROVE  Between(Between(s, from, to), x, y) = Between(s, from + x, from + y)
<1>1. PICK w : w = Between(s, from, to)
  OBVIOUS
<1>2. w \in Seq(Byte) /\ Len(w) = to - from /\ \A k \in 1 .. to - from : w[k] = s[from + k]
  BY <1>1, BytesBetween
<1>3. PICK a, b : a = from + x /\ b = from + y
  OBVIOUS
<1>4. a \in Nat /\ b \in Nat /\ a <= b /\ b <= Len(s) /\ y <= Len(w) /\ b - a = y - x
  BY <1>2, <1>3
<1>5. PICK u, v : u = Between(w, x, y) /\ v = Between(s, a, b)
  OBVIOUS
<1>6. u \in Seq(Byte) /\ Len(u) = y - x /\ \A k \in 1 .. y - x : u[k] = w[x + k]
  BY <1>2, <1>4, <1>5, BytesBetween
<1>7. v \in Seq(Byte) /\ Len(v) = b - a /\ \A k \in 1 .. b - a : v[k] = s[a + k]
  BY <1>4, <1>5, BytesBetween
<1>8. ASSUME NEW k \in 1 .. y - x PROVE u[k] = v[k]
  <2>1. PICK z : z = x + k
    OBVIOUS
  <2>2. z \in 1 .. to - from /\ from + z = a + k
    BY <1>3, <2>1
  <2>3. u[k] = w[z] /\ w[z] = s[from + z] /\ v[k] = s[a + k]
    BY <1>2, <1>4, <1>6, <1>7, <2>1, <2>2
  <2>4. QED
    BY <2>2, <2>3
<1>9. u = v
  <2>1. u = [k \in 1 .. y - x |-> u[k]] /\ v = [k \in 1 .. y - x |-> v[k]]
    BY <1>4, <1>6, <1>7
  <2>2. QED
    BY <1>8, <2>1
<1>10. QED
  BY <1>1, <1>3, <1>5, <1>9

\* What reading the bytes from from to to says at i.
Rest(s, from, to, i) == ReadOf(Between(s, from, to), MaxTag)[i - from]

RestGoesOn(s, from, to, i, j) ==
    /\ j # Failed /\ j \in Nat /\ i < j /\ j <= to
    /\ Rest(s, from, to, j).ok
    /\ Rest(s, from, to, i).fields = <<Between(s, i, j)>> \o Rest(s, from, to, j).fields

LEMMA RestTyped ==
    ASSUME NEW s \in Seq(Byte), NEW from \in Nat, NEW to \in Nat, from <= to, to <= Len(s),
           NEW i \in Nat, from <= i
    PROVE  Rest(s, from, to, i) \in ReadResult
<1>1. PICK w, x : w = Between(s, from, to) /\ x = i - from
  OBVIOUS
<1>2. w \in Seq(Byte) /\ x \in Nat
  BY <1>1, BytesBetween
<1>3. ReadFormed(ReadOf(w, MaxTag)[x], MaxTag)
  BY <1>2, ReadTyped
<1>4. QED
  BY <1>1, <1>3 DEF ReadFormed, Rest

LEMMA RestEnds ==
    ASSUME NEW s \in Seq(Byte), NEW from \in Nat, NEW to \in Nat, from <= to, to <= Len(s)
    PROVE  Rest(s, from, to, to).ok /\ Rest(s, from, to, to).fields = <<>>
<1>1. PICK w, x : w = Between(s, from, to) /\ x = to - from
  OBVIOUS
<1>2. w \in Seq(Byte) /\ x \in Nat /\ x = Len(w)
  <2>1. w \in Seq(Byte) /\ Len(w) = to - from
    BY <1>1, BytesBetween
  <2>2. QED
    BY <1>1, <2>1
<1>3. ReadOf(w, MaxTag)[x] = [ok |-> TRUE, fields |-> <<>>]
  BY <1>2, ReadIs, Zenon DEF Reads
<1>4. QED
  BY <1>1, <1>3 DEF Rest

\* One step of it, by where the field behind i ends in s.
LEMMA RestStep ==
    ASSUME NEW s \in Seq(Byte), NEW from \in Nat, NEW to \in Nat, from <= to, to <= Len(s),
           NEW i \in Nat, from <= i, i < to, NEW j, j = FieldEndOf(s, i, MaxTag)
    PROVE  /\ Rest(s, from, to, i).ok => RestGoesOn(s, from, to, i, j)
           /\ j # Failed /\ j <= to /\ Rest(s, from, to, j).ok => Rest(s, from, to, i).ok
<1>1. PICK w, x : w = Between(s, from, to) /\ x = i - from
  OBVIOUS
<1>2. w \in Seq(Byte) /\ Len(w) = to - from /\ x \in Nat /\ x < Len(w) /\ from + x = i
      /\ from + Len(w) = to /\ x <= Len(w) /\ x # Len(w)
  <2>1. w \in Seq(Byte) /\ Len(w) = to - from
    BY <1>1, BytesBetween
  <2>2. QED
    BY <1>1, <2>1
<1>3. Window(w, from, s)
  BY <1>1, BetweenWindow
<1>4. PICK y : y = FieldEndOf(w, x, MaxTag)
  OBVIOUS
<1>5. /\ y # Failed => j = from + y
      /\ j # Failed /\ j <= to => y # Failed
  <2>1. PICK m : m = MaxTag
    OBVIOUS
  <2>2. EndsThere(from, Len(w), FieldEndOf(w, x, m), FieldEndOf(s, from + x, m))
    BY <1>2, <1>3, FieldEndShifts
  <2>3. QED
    BY <1>2, <1>4, <2>1, <2>2 DEF EndsThere
<1>6. ASSUME y # Failed
      PROVE  /\ y \in Nat /\ x < y /\ y <= Len(w)
             /\ j \in Nat /\ j # Failed /\ i < j /\ j <= to /\ y = j - from
  <2>1. y \in Nat /\ x < y /\ y <= Len(w)
    BY <1>2, <1>4, <1>6, FieldEndInside
  <2>2. QED
    BY <1>2, <1>5, <1>6, <2>1 DEF Failed
<1>7. PICK a, b : a = ReadOf(w, MaxTag)[x] /\ b = ReadOf(w, MaxTag)[y]
  OBVIOUS
<1>8. a = Rest(s, from, to, i)
  BY <1>1, <1>7 DEF Rest
<1>9. ASSUME y # Failed
      PROVE  /\ b = Rest(s, from, to, j) /\ a.ok = b.ok
             /\ a.fields = <<Between(s, i, j)>> \o b.fields
  <2>1. y \in Nat /\ x < y /\ y <= Len(w) /\ y = j - from /\ x <= y
        /\ y <= to - from /\ from + y = j
    BY <1>2, <1>6, <1>9
  <2>2. ReadFormed(ReadOf(w, MaxTag)[y], MaxTag)
    BY <1>2, <2>1, ReadTyped
  <2>3. ReadOf(w, MaxTag)[y] \in ReadResult
    BY <2>2 DEF ReadFormed
  <2>4. a.ok = b.ok /\ a.fields = <<Between(w, x, y)>> \o b.fields
    <3>1. PICK m : m = MaxTag
      OBVIOUS
    <3>2. y = FieldEndOf(w, x, m) /\ ReadOf(w, m)[y] \in ReadResult
      BY <1>4, <2>3, <3>1
    <3>3. ReadsOneMore(ReadOf(w, m)[x], Between(w, x, y), ReadOf(w, m)[y])
      BY <1>2, <1>9, <3>2, ReadStep
    <3>4. QED
      BY <1>7, <3>1, <3>3 DEF ReadsOneMore
  <2>5. Between(w, x, y) = Between(s, i, j)
    BY <1>1, <1>2, <2>1, BetweenInside
  <2>6. b = Rest(s, from, to, j)
    BY <1>1, <1>7, <2>1 DEF Rest
  <2>7. QED
    BY <2>4, <2>5, <2>6
<1>10. ASSUME a.ok PROVE y # Failed
  <2>1. SUFFICES ASSUME y = Failed PROVE FALSE
    OBVIOUS
  <2>2. a = [ok |-> FALSE, fields |-> <<>>]
    <3>1. a = Reads(w, x, ReadOf(w, MaxTag), MaxTag)
      BY <1>2, <1>7, ReadIs
    <3>2. QED
      BY <1>2, <1>4, <2>1, <3>1, Zenon DEF Reads, ReadsTo
  <2>3. QED
    BY <1>10, <2>2
<1>11. ASSUME a.ok PROVE RestGoesOn(s, from, to, i, j)
  BY <1>6, <1>8, <1>9, <1>10, <1>11 DEF RestGoesOn
<1>12. ASSUME j # Failed, j <= to, Rest(s, from, to, j).ok PROVE a.ok
  BY <1>5, <1>9, <1>12
<1>13. QED
  BY <1>8, <1>11, <1>12

\* The tag and the value of a field, by where it ends.
StartsField(s, i, j, tag) ==
    /\ tag.ok /\ tag.wire_type # EndGroup
    /\ tag.wire_type # StartGroup =>
          /\ skipValue(s, tag.index, Len(s), tag.wire_type).ok
          /\ skipValue(s, tag.index, Len(s), tag.wire_type).index = j

LEMMA FieldStarts ==
    ASSUME NEW s \in Seq(Byte), NEW i \in Nat, FieldEndOf(s, i, MaxTag) # Failed
    PROVE  StartsField(s, i, FieldEndOf(s, i, MaxTag), NextTag(s, i))
<1>1. PICK none, m, j : /\ none = <<>> /\ m = Move(s, i, Len(s), none, MaxTag)
                        /\ j = FieldEndOf(s, i, MaxTag)
  OBVIOUS
<1>2. none \in Seq(Nat)
  BY <1>1
<1>3. j = Skipped(m, SkipOf(s, MaxTag))
  <2>1. j = SkipOf(s, MaxTag)[<<i, none>>]
    BY <1>1, FieldEndIs
  <2>2. QED
    BY <1>1, <1>2, <2>1, SkipIs
<1>4. m.ok
  BY <1>1, <1>3, Zenon DEF Skipped
<1>5. PICK l : l = Len(s)
  OBVIOUS
<1>6. PICK tag : tag = readTag(s, i, l, MaxTag)
  OBVIOUS
<1>7. NextTag(s, i) = tag
  BY <1>5, <1>6 DEF NextTag
<1>8. ~Refused.ok
  BY DEF Refused
<1>9. tag.ok
  BY <1>1, <1>4, <1>5, <1>6, <1>8, Zenon DEF Move, TagLimit
<1>10. tag.wire_type # EndGroup
  BY <1>1, <1>4, <1>5, <1>6, <1>8, Zenon DEF Move, TagLimit
<1>11. ASSUME tag.wire_type # StartGroup
       PROVE  /\ skipValue(s, tag.index, l, tag.wire_type).ok
              /\ skipValue(s, tag.index, l, tag.wire_type).index = j
  <2>1. PICK v : v = skipValue(s, tag.index, l, tag.wire_type)
    OBVIOUS
  <2>2. m = IF v.ok THEN [ok |-> TRUE, to |-> v.index, open |-> none] ELSE Refused
    BY <1>1, <1>5, <1>6, <1>9, <1>10, <1>11, <2>1, Zenon DEF Move, TagLimit
  <2>3. v.ok
    BY <1>4, <1>8, <2>2, Zenon
  <2>4. m.to = v.index /\ m.open = none
    BY <2>2, <2>3
  <2>5. j = v.index
    BY <1>1, <1>3, <1>4, <2>4, Zenon DEF Skipped
  <2>6. QED
    BY <2>1, <2>3, <2>5
<1>12. QED
  BY <1>1, <1>5, <1>7, <1>9, <1>10, <1>11, Zenon DEF StartsField

\* The group has an end, and what is before it reads as fields.
HasEnd(s, n, from, e, i) ==
    from <= i /\ SkipOf(s, MaxTag)[<<i, <<n>>>>] = e =>
        \E to \in Nat : /\ i <= to /\ to <= Len(s)
                        /\ EndsHere(s, to, n, e) /\ Rest(s, from, to, i).ok

LEMMA GroupHasEnd ==
    ASSUME NEW s \in Seq(Byte), NEW n \in Nat, NEW from \in Nat, NEW e, e # Failed,
           NEW i \in Nat
    PROVE  HasEnd(s, n, from, e, i)
<1> DEFINE G == {p \in Nat \X Seq(Nat) : HasEnd(s, n, from, e, p[1])}
<1>1. \A x, y : <<x, y>>[1] = x /\ <<x, y>>[2] = y
  OBVIOUS
<1>2. ASSUME NEW x \in Nat, NEW y \in Seq(Nat)
      PROVE  <<x, y>> \in G <=> HasEnd(s, n, from, e, x)
  <2>1. <<x, y>> \in Nat \X Seq(Nat)
    OBVIOUS
  <2>2. QED
    BY <1>1, <2>1
<1> HIDE DEF G
<1>3. ASSUME NEW x \in Nat, NEW y \in Seq(Nat),
             \A j \in Nat, o \in Seq(Nat) : x < j /\ j <= Len(s) => <<j, o>> \in G
      PROVE  <<x, y>> \in G
  <2>1. SUFFICES ASSUME from <= x, SkipOf(s, MaxTag)[<<x, <<n>>>>] = e
                 PROVE  \E to \in Nat : /\ x <= to /\ to <= Len(s)
                                        /\ EndsHere(s, to, n, e) /\ Rest(s, from, to, x).ok
    BY <1>2, Zenon DEF HasEnd
  <2>2. CASE EndsHere(s, x, n, e)
    <3>1. readTag(s, x, Len(s), MaxTag).ok
      BY <2>2, Zenon DEF EndsHere, NextTag
    <3>2. PICK l \in Nat : l = Len(s)
      OBVIOUS
    <3>3. x < l
      BY <3>1, <3>2, TagInFront
    <3>4. x <= Len(s)
      BY <3>2, <3>3
    <3>5. Rest(s, from, x, x).ok
      BY <2>1, <3>4, RestEnds
    <3>6. x <= x
      OBVIOUS
    <3>7. QED
      BY <2>2, <3>4, <3>5, <3>6, Zenon
  <2>3. CASE FieldHere(s, x, n, e)
    <3>1. PICK j : j = FieldEndOf(s, x, MaxTag)
      OBVIOUS
    <3>2. j # Failed /\ SkipOf(s, MaxTag)[<<j, <<n>>>>] = e
      BY <2>3, <3>1, Zenon DEF FieldHere
    <3>3. j \in Nat /\ x < j /\ j <= Len(s)
      BY <3>1, <3>2, FieldEndInside
    <3>4. y \in Seq(Nat)
      OBVIOUS
    <3>5. HasEnd(s, n, from, e, j)
      BY <1>2, <1>3, <3>3, <3>4, Zenon
    <3>6. from <= j
      BY <2>1, <3>3
    <3>7. PICK to \in Nat : /\ j <= to /\ to <= Len(s)
                            /\ EndsHere(s, to, n, e) /\ Rest(s, from, to, j).ok
      BY <3>2, <3>5, <3>6, Zenon DEF HasEnd
    <3>8. x < to /\ x <= to /\ from <= to
      BY <2>1, <3>3, <3>7
    <3>9. Rest(s, from, to, x).ok
      BY <2>1, <3>1, <3>2, <3>7, <3>8, RestStep
    <3>10. QED
      BY <3>7, <3>8, <3>9, Zenon
  <2>4. QED
    BY <2>1, <2>2, <2>3, GroupStep
<1>4. <<>> \in Seq(Nat)
  OBVIOUS
<1>5. <<i, <<>>>> \in G
  BY <1>3, <1>4, SkipInduct, Zenon
<1>6. QED
  BY <1>2, <1>4, <1>5, Zenon

\* A value that is not a group ends its field, or the field is refused.
EndsWith(k, value) ==
    /\ value.ok => k = value.index /\ k # Failed
    /\ ~value.ok => k = Failed

LEMMA FieldEnds ==
    ASSUME NEW s \in Seq(Byte), NEW i \in Nat, NextTag(s, i).ok,
           NextTag(s, i).wire_type # EndGroup, NextTag(s, i).wire_type # StartGroup
    PROVE  EndsWith(FieldEndOf(s, i, MaxTag),
                    skipValue(s, NextTag(s, i).index, Len(s), NextTag(s, i).wire_type))
<1>1. PICK none, m, k : /\ none = <<>> /\ m = Move(s, i, Len(s), none, MaxTag)
                        /\ k = FieldEndOf(s, i, MaxTag)
  OBVIOUS
<1>2. none \in Seq(Nat)
  BY <1>1
<1>3. k = Skipped(m, SkipOf(s, MaxTag))
  <2>1. k = SkipOf(s, MaxTag)[<<i, none>>]
    BY <1>1, FieldEndIs
  <2>2. QED
    BY <1>1, <1>2, <2>1, SkipIs
<1>4. PICK l : l = Len(s)
  OBVIOUS
<1>5. PICK tag : tag = readTag(s, i, l, MaxTag)
  OBVIOUS
<1>6. NextTag(s, i) = tag
  BY <1>4, <1>5 DEF NextTag
<1>7. PICK v : v = skipValue(s, tag.index, l, tag.wire_type)
  OBVIOUS
<1>8. m = IF v.ok THEN [ok |-> TRUE, to |-> v.index, open |-> none] ELSE Refused
  BY <1>1, <1>4, <1>5, <1>6, <1>7, Zenon DEF Move, TagLimit
<1>9. CASE v.ok
  <2>1. m.ok /\ m.to = v.index /\ m.open = none
    BY <1>8, <1>9
  <2>2. k = v.index
    BY <1>1, <1>3, <2>1, Zenon DEF Skipped
  <2>3. m.to \in Nat
    BY <1>1, <1>2, <2>1, MoveEnds
  <2>4. k # Failed
    BY <2>1, <2>2, <2>3 DEF Failed
  <2>5. QED
    BY <1>1, <1>4, <1>6, <1>7, <1>9, <2>2, <2>4, Zenon DEF EndsWith
<1>10. CASE ~v.ok
  <2>1. m = Refused
    BY <1>8, <1>10
  <2>2. ~m.ok
    BY <2>1 DEF Refused
  <2>3. k = Failed
    BY <1>3, <2>2, Zenon DEF Skipped
  <2>4. QED
    BY <1>1, <1>4, <1>6, <1>7, <1>10, <2>3, Zenon DEF EndsWith
<1>11. QED
  BY <1>9, <1>10

-----------------------------------------------------------------------------
(* Items of message sets *)

\* An item goes on behind the field at i.
ItemGoesOn(s, i, tag, k) ==
    /\ k # Failed
    /\ tag.number = 2 => tag.wire_type = Varint /\ TypeId(s, tag.index, k) # 0
    /\ tag.number = 3 => tag.wire_type = LengthDelimited

ItemId(s, tag, k, id)  == IF tag.number = 2 THEN TypeId(s, tag.index, k) ELSE id
ItemPayload(tag, pay)  == tag.number = 3 \/ pay

\* What an item is that does not go on.
ItemStops(number, tag, id, pay) ==
    IF tag.ok /\ tag.wire_type = EndGroup /\ tag.number = 1
    THEN [is |-> IF id = number /\ pay THEN "value" ELSE "none", index |-> tag.index]
    ELSE RefusedItem

ItemStep(s, number, i, id, pay, tag, k, Item) ==
    IF ItemGoesOn(s, i, tag, k) THEN Item[<<k, ItemId(s, tag, k, id), ItemPayload(tag, pay)>>]
    ELSE ItemStops(number, tag, id, pay)

LEMMA ItemTagIs ==
    ASSUME NEW s \in Seq(Byte), NEW number, NEW i \in Nat, NEW id, NEW pay \in BOOLEAN, NEW Item
    PROVE  ItemTag(s, number, i, id, pay, Item)
               = ItemStep(s, number, i, id, pay, NextTag(s, i), FieldEndOf(s, i, MaxTag), Item)
<1>1. PICK tag, k : tag = NextTag(s, i) /\ k = FieldEndOf(s, i, MaxTag)
  OBVIOUS
<1>2. PICK l : l = Len(s)
  OBVIOUS
<1>3. PICK a, b : /\ a = ItemTag(s, number, i, id, pay, Item)
                  /\ b = ItemStep(s, number, i, id, pay, tag, k, Item)
  OBVIOUS
<1>4. CASE ~tag.ok
  <2>1. k = Failed
    BY <1>1, <1>4, FieldStarts, Zenon DEF StartsField
  <2>2. a = RefusedItem
    BY <1>1, <1>3, <1>4, Zenon DEF ItemTag
  <2>3. b = RefusedItem
    BY <1>3, <1>4, <2>1, Zenon DEF ItemStep, ItemGoesOn, ItemStops
  <2>4. QED
    BY <1>1, <1>3, <2>2, <2>3
<1>5. CASE tag.ok /\ tag.wire_type = EndGroup
  <2>1. k = Failed
    BY <1>1, <1>5, FieldStarts, Zenon DEF StartsField
  <2>2. a = IF tag.number # 1 THEN RefusedItem
            ELSE [is |-> IF id = number /\ pay THEN "value" ELSE "none", index |-> tag.index]
    BY <1>1, <1>3, <1>5, Zenon DEF ItemTag
  <2>3. b = IF tag.number = 1
            THEN [is |-> IF id = number /\ pay THEN "value" ELSE "none", index |-> tag.index]
            ELSE RefusedItem
    BY <1>3, <1>5, <2>1, Zenon DEF ItemStep, ItemGoesOn, ItemStops
  <2>4. QED
    BY <1>1, <1>3, <2>2, <2>3
<1>6. ASSUME tag.ok, tag.wire_type # EndGroup
      PROVE  /\ b = IF ItemGoesOn(s, i, tag, k)
                    THEN Item[<<k, ItemId(s, tag, k, id), ItemPayload(tag, pay)>>]
                    ELSE RefusedItem
             /\ tag.wire_type # StartGroup => EndsWith(k, skipValue(s, tag.index, l, tag.wire_type))
  <2>1. b = IF ItemGoesOn(s, i, tag, k)
            THEN Item[<<k, ItemId(s, tag, k, id), ItemPayload(tag, pay)>>]
            ELSE RefusedItem
    BY <1>3, <1>6, Zenon DEF ItemStep, ItemStops
  <2>2. tag.wire_type # StartGroup => EndsWith(k, skipValue(s, tag.index, l, tag.wire_type))
    BY <1>1, <1>2, <1>6, FieldEnds, Zenon
  <2>3. QED
    BY <2>1, <2>2
<1>7. 2 # 3 /\ Varint # StartGroup /\ LengthDelimited # StartGroup /\ Varint # LengthDelimited
      /\ Varint # EndGroup /\ LengthDelimited # EndGroup
      /\ LengthDelimited # Fixed64 /\ LengthDelimited # Fixed32
  BY DEF Varint, StartGroup, LengthDelimited, EndGroup, Fixed64, Fixed32
<1>8. CASE tag.ok /\ tag.wire_type # EndGroup /\ tag.number = 2
  <2>1. CASE tag.wire_type # Varint
    <3>1. a = RefusedItem
      BY <1>1, <1>3, <1>8, <2>1, Zenon DEF ItemTag
    <3>2. b = RefusedItem
      BY <1>6, <1>8, <2>1, Zenon DEF ItemGoesOn
    <3>3. QED
      BY <1>1, <1>3, <3>1, <3>2
  <2>2. CASE tag.wire_type = Varint
    <3>1. PICK v : v = readVarint(s, tag.index, l)
      OBVIOUS
    <3>2. skipValue(s, tag.index, l, tag.wire_type) = v
      <4>1. skipValue(s, tag.index, l, Varint) = readVarint(s, tag.index, l)
        BY DEF skipValue, Varint, Fixed64, Fixed32
      <4>2. QED
        BY <2>2, <3>1, <4>1
    <3>3. EndsWith(k, v)
      BY <1>6, <1>7, <1>8, <2>2, <3>2
    <3>4. a = IF v.ok /\ TypeId(s, tag.index, v.index) # 0
              THEN Item[<<v.index, TypeId(s, tag.index, v.index), pay>>] ELSE RefusedItem
      BY <1>1, <1>2, <1>3, <1>8, <2>2, <3>1, Zenon DEF ItemTag
    <3>5. CASE v.ok
      <4>1. k = v.index /\ k # Failed
        BY <3>3, <3>5, Zenon DEF EndsWith
      <4>2. ItemGoesOn(s, i, tag, k) <=> TypeId(s, tag.index, k) # 0
        BY <1>7, <1>8, <2>2, <4>1, Zenon DEF ItemGoesOn
      <4>3. ItemId(s, tag, k, id) = TypeId(s, tag.index, k)
        BY <1>8, Zenon DEF ItemId
      <4>4. ItemPayload(tag, pay) = pay
        BY <1>7, <1>8 DEF ItemPayload
      <4>5. a = IF TypeId(s, tag.index, k) # 0
                THEN Item[<<k, TypeId(s, tag.index, k), pay>>] ELSE RefusedItem
        BY <3>4, <3>5, <4>1, Zenon
      <4>6. a = b
        BY <1>6, <1>8, <4>2, <4>3, <4>4, <4>5, Zenon
      <4>7. QED
        BY <1>1, <1>3, <4>6
    <3>6. CASE ~v.ok
      <4>1. k = Failed
        BY <3>3, <3>6, Zenon DEF EndsWith
      <4>2. a = RefusedItem
        BY <3>4, <3>6, Zenon
      <4>3. b = RefusedItem
        BY <1>6, <1>8, <4>1, Zenon DEF ItemGoesOn
      <4>4. QED
        BY <1>1, <1>3, <4>2, <4>3
    <3>7. QED
      BY <3>5, <3>6
  <2>3. QED
    BY <2>1, <2>2
<1>9. CASE tag.ok /\ tag.wire_type # EndGroup /\ tag.number = 3
  <2>1. CASE tag.wire_type # LengthDelimited
    <3>1. a = RefusedItem
      BY <1>1, <1>3, <1>7, <1>9, <2>1, Zenon DEF ItemTag
    <3>2. b = RefusedItem
      BY <1>6, <1>9, <2>1, Zenon DEF ItemGoesOn
    <3>3. QED
      BY <1>1, <1>3, <3>1, <3>2
  <2>2. CASE tag.wire_type = LengthDelimited
    <3>1. PICK v : v = readBytes(s, tag.index, l)
      OBVIOUS
    <3>2. PICK u : u = skipValue(s, tag.index, l, tag.wire_type)
      OBVIOUS
    <3>3. u.ok = v.ok /\ u.index = v.index
      <4>1. u = [ok |-> readBytes(s, tag.index, l).ok, index |-> readBytes(s, tag.index, l).index]
        BY <2>2, <3>2 DEF skipValue, Varint, Fixed64, Fixed32, LengthDelimited
      <4>2. QED
        BY <3>1, <4>1
    <3>4. EndsWith(k, u)
      BY <1>6, <1>7, <1>9, <2>2, <3>2
    <3>5. a = IF v.ok THEN Item[<<v.index, id, TRUE>>] ELSE RefusedItem
      BY <1>1, <1>2, <1>3, <1>7, <1>9, <2>2, <3>1, Zenon DEF ItemTag
    <3>6. CASE v.ok
      <4>1. k = v.index /\ k # Failed
        BY <3>3, <3>4, <3>6, Zenon DEF EndsWith
      <4>2. ItemGoesOn(s, i, tag, k)
        BY <1>7, <1>9, <2>2, <4>1, Zenon DEF ItemGoesOn
      <4>3. ItemId(s, tag, k, id) = id
        BY <1>7, <1>9, Zenon DEF ItemId
      <4>4. ItemPayload(tag, pay) = TRUE
        BY <1>9 DEF ItemPayload
      <4>5. a = b
        BY <1>6, <1>9, <3>5, <3>6, <4>1, <4>2, <4>3, <4>4, Zenon
      <4>6. QED
        BY <1>1, <1>3, <4>5
    <3>7. CASE ~v.ok
      <4>1. k = Failed
        BY <3>3, <3>4, <3>7, Zenon DEF EndsWith
      <4>2. a = RefusedItem
        BY <3>5, <3>7, Zenon
      <4>3. b = RefusedItem
        BY <1>6, <1>9, <4>1, Zenon DEF ItemGoesOn
      <4>4. QED
        BY <1>1, <1>3, <4>2, <4>3
    <3>8. QED
      BY <3>6, <3>7
  <2>3. QED
    BY <2>1, <2>2
<1>10. CASE tag.ok /\ tag.wire_type # EndGroup /\ tag.number # 2 /\ tag.number # 3
  <2>1. a = IF k # Failed THEN Item[<<k, id, pay>>] ELSE RefusedItem
    BY <1>1, <1>3, <1>10, Zenon DEF ItemTag, FieldEnd
  <2>2. ItemGoesOn(s, i, tag, k) <=> k # Failed
    BY <1>10, Zenon DEF ItemGoesOn
  <2>3. ItemId(s, tag, k, id) = id
    BY <1>10, Zenon DEF ItemId
  <2>4. ItemPayload(tag, pay) = pay
    BY <1>10 DEF ItemPayload
  <2>5. a = b
    BY <1>6, <1>10, <2>1, <2>2, <2>3, <2>4, Zenon
  <2>6. QED
    BY <1>1, <1>3, <2>5
<1>11. QED
  BY <1>4, <1>5, <1>8, <1>9, <1>10

ItemPlace == Nat \X Nat \X BOOLEAN

ItemsBy(s, number, Item) ==
    Item = [at \in ItemPlace |-> ItemTag(s, number, at[1], at[2], at[3], Item)]

ItemOf(s, number) == CHOOSE Item : ItemsBy(s, number, Item)

LEMMA MessageSetItemIs ==
    ASSUME NEW s, NEW number, NEW i
    PROVE  MessageSetItem(s, number, i) = ItemOf(s, number)[<<i, 0, FALSE>>]
  BY Zenon DEF MessageSetItem, ItemOf, ItemsBy, ItemPlace

LEMMA TypeIdTyped ==
    ASSUME NEW s \in Seq(Byte), NEW i \in Nat, NEW j \in Nat, j <= Len(s)
    PROVE  TypeId(s, i, j) \in Nat
<1>1. ASSUME NEW k \in 1 .. 5 PROVE Digit(s, i, j, k) \in Nat
  <2>1. CASE i + k <= j
    <3>1. i + k \in 1 .. Len(s)
      BY <2>1
    <3>2. PICK b \in Byte : b = s[i + k]
      BY <3>1
    <3>3. b \in Nat /\ b % 128 \in Nat
      BY DEF Byte
    <3>4. QED
      BY <2>1, <3>2, <3>3 DEF Digit
  <2>2. CASE ~(i + k <= j)
    BY <2>2 DEF Digit
  <2>3. QED
    BY <2>1, <2>2
<1>2. PICK a, b, c, d, e : /\ a = Digit(s, i, j, 1) /\ b = Digit(s, i, j, 2)
                           /\ c = Digit(s, i, j, 3) /\ d = Digit(s, i, j, 4)
                           /\ e = Digit(s, i, j, 5)
  OBVIOUS
<1>3. a \in Nat /\ b \in Nat /\ c \in Nat /\ d \in Nat /\ e \in Nat
  BY <1>1, <1>2
<1>4. PICK f \in Nat : f = e % 16
  BY <1>3
<1>5. TypeId(s, i, j) = IF f > 1 THEN 0 ELSE a + 128 * (b + 128 * (c + 128 * (d + 128 * f)))
  BY <1>2, <1>4, Zenon DEF TypeId
<1>6. d + 128 * f \in Nat
  BY <1>3, <1>4
<1>7. c + 128 * (d + 128 * f) \in Nat
  BY <1>3, <1>6
<1>8. b + 128 * (c + 128 * (d + 128 * f)) \in Nat
  BY <1>3, <1>7
<1>9. a + 128 * (b + 128 * (c + 128 * (d + 128 * f))) \in Nat
  BY <1>3, <1>8
<1>10. QED
  BY <1>5, <1>9

\* Where an item goes on is a place behind.
LEMMA ItemMoves ==
    ASSUME NEW s \in Seq(Byte), NEW i \in Nat, NEW id \in Nat, NEW pay \in BOOLEAN,
           NEW tag, NEW k, tag = NextTag(s, i), k = FieldEndOf(s, i, MaxTag), k # Failed
    PROVE  /\ k \in Nat /\ i < k /\ k <= Len(s)
           /\ ItemId(s, tag, k, id) \in Nat /\ ItemPayload(tag, pay) \in BOOLEAN
<1>1. k \in Nat /\ i < k /\ k <= Len(s)
  BY FieldEndInside
<1>2. tag.index \in Nat
  <2>1. tag.ok
    BY FieldStarts, Zenon DEF StartsField
  <2>2. PICK e \in Nat : e = Len(s)
    OBVIOUS
  <2>3. readTag(s, i, e, MaxTag).ok /\ e <= Len(s) /\ i <= e /\ tag = readTag(s, i, e, MaxTag)
    BY <1>1, <2>1, <2>2 DEF NextTag
  <2>4. QED
    BY <2>3, TagInside
<1>3. TypeId(s, tag.index, k) \in Nat
  BY <1>1, <1>2, TypeIdTyped
<1>4. QED
  BY <1>1, <1>3 DEF ItemId, ItemPayload

LEMMA ItemExists ==
    ASSUME NEW s \in Seq(Byte), NEW number PROVE \E Item : ItemsBy(s, number, Item)
<1> DEFINE D == ItemPlace
           T(p) == NextTag(s, p[1])
           K(p) == FieldEndOf(s, p[1], MaxTag)
           C == {p \in D : ItemGoesOn(s, p[1], T(p), K(p))}
           next == [p \in D |-> <<K(p), ItemId(s, T(p), K(p), p[2]), ItemPayload(T(p), p[3])>>]
           final == [p \in D |-> ItemStops(number, T(p), p[2], p[3])]
           R == {final[p] : p \in D}
           step == [p \in D |-> [x \in R |-> x]]
           rank == [p \in D |-> IF p[1] <= Len(s) THEN Len(s) - p[1] ELSE 0]
<1>1. Len(s) \in Nat
  OBVIOUS
<1>2. ASSUME NEW p \in D PROVE p[1] \in Nat /\ p[2] \in Nat /\ p[3] \in BOOLEAN
  BY <1>2 DEF ItemPlace
<1>3. rank \in [D -> 0 .. Len(s)]
  BY <1>1, <1>2
<1>4. ASSUME NEW p \in D \cap C
      PROVE  next[p] \in D /\ rank[next[p]] < rank[p] /\ step[p] \in [R -> R]
  <2>1. PICK i, id, pay : i = p[1] /\ id = p[2] /\ pay = p[3]
    OBVIOUS
  <2>2. p \in D /\ i \in Nat /\ id \in Nat /\ pay \in BOOLEAN
    BY <1>2, <1>4, <2>1
  <2>3. PICK tag, k : tag = NextTag(s, i) /\ k = FieldEndOf(s, i, MaxTag)
    OBVIOUS
  <2>4. k # Failed
    BY <1>4, <2>1, <2>3, Zenon DEF ItemGoesOn
  <2>5. PICK u, v : u = ItemId(s, tag, k, id) /\ v = ItemPayload(tag, pay)
    OBVIOUS
  <2>6. k \in Nat /\ i < k /\ k <= Len(s) /\ u \in Nat /\ v \in BOOLEAN
    BY <2>2, <2>3, <2>4, <2>5, ItemMoves
  <2>7. next[p] = <<k, u, v>>
    BY <2>1, <2>2, <2>3, <2>5
  <2>8. <<k, u, v>> \in D /\ <<k, u, v>>[1] = k
    BY <2>6 DEF ItemPlace
  <2>9. rank[<<k, u, v>>] = Len(s) - k /\ rank[p] = Len(s) - i
    BY <2>1, <2>2, <2>6, <2>8
  <2>10. rank[<<k, u, v>>] < rank[p]
    BY <1>1, <2>2, <2>6, <2>9
  <2>11. step[p] \in [R -> R]
    <3> HIDE DEF R, D
    <3>1. step[p] = [x \in R |-> x]
      BY <2>2
    <3>2. QED
      BY <3>1
  <2>12. QED
    BY <2>7, <2>8, <2>10, <2>11
<1>5. ASSUME NEW p \in D \ C PROVE final[p] \in R
  BY <1>5
<1> HIDE DEF D, T, K, C, next, step, final, rank, R
<1>6. PICK f \in [D -> R] : Recursion(D, C, next, step, final, f)
  BY <1>1, <1>3, <1>4, <1>5, RecursionExists, Zenon
<1>7. ASSUME NEW p \in D PROVE f[p] = ItemTag(s, number, p[1], p[2], p[3], f)
  <2>1. f[p] = IF p \in C THEN step[p][f[next[p]]] ELSE final[p]
    BY <1>6, <1>7, Zenon DEF Recursion
  <2>2. ItemTag(s, number, p[1], p[2], p[3], f)
            = ItemStep(s, number, p[1], p[2], p[3], T(p), K(p), f)
    <3>1. PICK i, id, pay : i = p[1] /\ id = p[2] /\ pay = p[3]
      OBVIOUS
    <3>2. i \in Nat /\ pay \in BOOLEAN
      BY <1>2, <1>7, <3>1
    <3>3. ItemTag(s, number, i, id, pay, f)
              = ItemStep(s, number, i, id, pay, NextTag(s, i), FieldEndOf(s, i, MaxTag), f)
      BY <3>2, ItemTagIs
    <3>4. QED
      BY <3>1, <3>3 DEF T, K
  <2>3. CASE p \in C
    <3>1. /\ ItemGoesOn(s, p[1], T(p), K(p))
          /\ next[p] = <<K(p), ItemId(s, T(p), K(p), p[2]), ItemPayload(T(p), p[3])>>
      BY <1>7, <2>3, Zenon DEF C, next
    <3>2. next[p] \in D
      BY <1>4, <1>7, <2>3
    <3>3. f[next[p]] \in R
      BY <3>2
    <3>4. step[p][f[next[p]]] = f[next[p]]
      BY <1>7, <3>3 DEF step
    <3>5. QED
      BY <2>1, <2>2, <2>3, <3>1, <3>4, Zenon DEF ItemStep
  <2>4. CASE p \notin C
    <3>1. ~ItemGoesOn(s, p[1], T(p), K(p))
      BY <1>7, <2>4 DEF C
    <3>2. final[p] = ItemStops(number, T(p), p[2], p[3])
      BY <1>7, Zenon DEF final
    <3>3. QED
      BY <2>1, <2>2, <2>4, <3>1, <3>2, Zenon DEF ItemStep
  <2>5. QED
    BY <2>3, <2>4, Zenon
<1>8. f = [p \in D |-> ItemTag(s, number, p[1], p[2], p[3], f)]
  <2> DEFINE P(p) == ItemTag(s, number, p[1], p[2], p[3], f)
  <2>1. \A p \in D : f[p] = P(p)
    BY <1>7, Zenon
  <2> HIDE DEF P
  <2>2. f = [p \in D |-> P(p)]
    BY <1>6, <2>1
  <2>3. QED
    BY <2>2, Zenon DEF P
<1>9. QED
  BY <1>8, Zenon DEF ItemsBy, D

LEMMA ItemIs ==
    ASSUME NEW s \in Seq(Byte), NEW number, NEW i \in Nat, NEW id \in Nat, NEW pay \in BOOLEAN
    PROVE  ItemOf(s, number)[<<i, id, pay>>]
               = ItemStep(s, number, i, id, pay, NextTag(s, i), FieldEndOf(s, i, MaxTag),
                          ItemOf(s, number))
<1>1. PICK f : f = ItemOf(s, number)
  OBVIOUS
<1>2. ItemsBy(s, number, f)
  BY <1>1, ItemExists, Zenon DEF ItemOf
<1>3. PICK p : p = <<i, id, pay>>
  OBVIOUS
<1>4. p \in ItemPlace /\ p[1] = i /\ p[2] = id /\ p[3] = pay
  BY <1>3 DEF ItemPlace
<1>5. f[p] = ItemTag(s, number, p[1], p[2], p[3], f)
  BY <1>2, <1>4, Zenon DEF ItemsBy
<1>6. f[<<i, id, pay>>] = ItemTag(s, number, i, id, pay, f)
  BY <1>3, <1>4, <1>5
<1>7. QED
  BY <1>1, <1>6, ItemTagIs

\* A field that was cut out has the tag and the type id it had in s.
SameField(f, u, s, tag, j) ==
    /\ u.number = tag.number /\ u.wire_type = tag.wire_type
    /\ TypeId(f, u.index, Len(f)) = TypeId(s, tag.index, j)

LEMMA CutTag ==
    ASSUME NEW s \in Seq(Byte), NEW i \in Nat, NEW j, j = FieldEndOf(s, i, MaxTag), j # Failed,
           NEW f, f = Between(s, i, j)
    PROVE  /\ f \in Seq(Byte) /\ FirstTag(f).ok
           /\ SameField(f, FirstTag(f), s, NextTag(s, i), j)
<1>1. j \in Nat /\ i < j /\ j <= Len(s) /\ i <= j
  BY FieldEndInside
<1>2. f \in Seq(Byte) /\ validateRawField(f)
  <2>1. PICK m : m = MaxTag
    OBVIOUS
  <2>2. f \in Seq(Byte) /\ WholeField(f, m)
    BY <2>1, CutValid
  <2>3. QED
    BY <2>1, <2>2, ValidWhole
<1>3. Len(f) = j - i
  BY <1>1, BytesBetween
<1>4. Window(f, i, s)
  BY <1>1, BetweenWindow
<1>5. PICK z, e, l : z = 0 /\ e = Len(f) /\ l = Len(s)
  OBVIOUS
<1>6. z \in Nat /\ e \in Nat /\ z <= e /\ e <= Len(f) /\ i + z = i /\ i + e = j
      /\ l \in Nat /\ l <= Len(s) /\ j <= l
  BY <1>1, <1>3, <1>5
<1>7. PICK u, v : u = readTag(f, z, e, MaxTag) /\ v = readTag(s, i, j, MaxTag)
  OBVIOUS
<1>8. u = FirstTag(f)
  BY <1>5, <1>7 DEF FirstTag
<1>9. u.ok
  BY <1>2, <1>8, ValidTag
<1>10. ShiftedTag(i, v, u)
  <2>1. ShiftedTag(i, readTag(s, i + z, i + e, MaxTag), readTag(f, z, e, MaxTag))
    BY <1>2, <1>4, <1>6, TagShifts
  <2>2. QED
    BY <1>6, <1>7, <2>1
<1>11. v.ok /\ v.index = i + u.index /\ v.number = u.number /\ v.wire_type = u.wire_type
  BY <1>9, <1>10 DEF ShiftedTag, Shifted
<1>12. u.index \in Nat /\ u.index <= e
  <2>1. readTag(f, z, e, MaxTag).ok
    BY <1>7, <1>9
  <2>2. QED
    BY <1>2, <1>6, <1>7, <2>1, TagInside
<1>13. readTag(s, i, l, MaxTag) = v
  <2>1. v.index <= l
    BY <1>6, <1>11, <1>12
  <2>2. readTag(s, i, j, MaxTag).ok /\ readTag(s, i, j, MaxTag).index <= l
    BY <1>7, <1>11, <2>1
  <2>3. QED
    BY <1>1, <1>6, <1>7, <2>2, TagFits
<1>14. NextTag(s, i) = v
  BY <1>5, <1>13 DEF NextTag
<1>15. TypeId(f, u.index, e) = TypeId(s, v.index, j)
  <2>1. PICK x : x = u.index
    OBVIOUS
  <2>2. SameDigits(s, i + x, i + e, f, x, e)
    BY <1>2, <1>4, <1>6, <1>12, <2>1, DigitShifts
  <2>3. PICK y : y = v.index
    OBVIOUS
  <2>4. SameDigits(s, y, j, f, x, e)
    BY <1>6, <1>11, <2>1, <2>2, <2>3
  <2>5. /\ 1 \in 1 .. MaxVarint /\ 2 \in 1 .. MaxVarint /\ 3 \in 1 .. MaxVarint
        /\ 4 \in 1 .. MaxVarint /\ 5 \in 1 .. MaxVarint
    BY DEF MaxVarint
  <2>6. /\ Digit(s, y, j, 1) = Digit(f, x, e, 1) /\ Digit(s, y, j, 2) = Digit(f, x, e, 2)
        /\ Digit(s, y, j, 3) = Digit(f, x, e, 3) /\ Digit(s, y, j, 4) = Digit(f, x, e, 4)
        /\ Digit(s, y, j, 5) = Digit(f, x, e, 5)
    BY <2>4, <2>5, Zenon DEF SameDigits
  <2>7. TypeId(f, x, e) = TypeId(s, y, j)
    BY <2>6, Zenon DEF TypeId
  <2>8. QED
    BY <2>1, <2>3, <2>7
<1>16. SameField(f, u, s, v, j)
  BY <1>5, <1>11, <1>15 DEF SameField
<1>17. QED
  BY <1>2, <1>8, <1>9, <1>14, <1>16

\* The first of the fields F is f, the others are G.
Prepended(F, f, G) ==
    /\ F \in Seq(Seq(Byte)) /\ Len(F) = Len(G) + 1 /\ F[1] = f
    /\ \A k \in 1 .. Len(G) : F[k + 1] = G[k]

LEMMA PrependElements ==
    ASSUME NEW f \in Seq(Byte), NEW G \in Seq(Seq(Byte))
    PROVE  Prepended(<<f>> \o G, f, G)
<1>1. PICK g \in Seq(Seq(Byte)) : g = <<f>>
  <2>1. <<f>> \in Seq(Seq(Byte))
    OBVIOUS
  <2>2. QED
    BY <2>1
<1>2. Len(g) = 1 /\ g[1] = f
  BY <1>1
<1>3. PICK F : F = g \o G
  OBVIOUS
<1>4. /\ F \in Seq(Seq(Byte)) /\ Len(F) = Len(g) + Len(G)
      /\ \A k \in 1 .. Len(g) + Len(G) : F[k] = IF k <= Len(g) THEN g[k] ELSE G[k - Len(g)]
  BY <1>3, ConcatProperties
<1>5. Len(G) \in Nat
  OBVIOUS
<1>6. F[1] = f /\ Len(F) = Len(G) + 1
  BY <1>2, <1>4, <1>5
<1>7. ASSUME NEW k \in 1 .. Len(G) PROVE F[k + 1] = G[k]
  <2>1. PICK j : j = k + 1
    OBVIOUS
  <2>2. j \in 1 .. Len(g) + Len(G) /\ ~(j <= Len(g)) /\ j - Len(g) = k
    BY <1>2, <1>5, <2>1
  <2>3. F[j] = G[j - Len(g)]
    BY <1>4, <2>2
  <2>4. QED
    BY <2>1, <2>2, <2>3
<1>8. QED
  BY <1>1, <1>3, <1>4, <1>6, <1>7, Zenon DEF Prepended

-----------------------------------------------------------------------------
(* What the fields of an item say *)

IdOf(f) == IF FirstTag(f).wire_type = Varint THEN TypeId(f, FirstTag(f).index, Len(f)) ELSE 0

BadPart(f) ==
    \/ FirstTag(f).number = 2 /\ IdOf(f) = 0
    \/ FirstTag(f).number = 3 /\ FirstTag(f).wire_type # LengthDelimited

Refuses(F) == \E k \in DOMAIN F : BadPart(F[k])
HasPayload(F) == \E k \in DOMAIN F : FirstTag(F[k]).number = 3

\* The type id behind F, when it was id before.
LastIdIs(F, id, x) ==
    \/ (\A k \in DOMAIN F : FirstTag(F[k]).number # 2) /\ x = id
    \/ \E k \in DOMAIN F :
          /\ FirstTag(F[k]).number = 2 /\ IdOf(F[k]) = x
          /\ \A l \in DOMAIN F : k < l => FirstTag(F[l]).number # 2

\* r is the item whose fields F are to come, behind the type id and the payload.
ItemSays(F, number, id, pay, e, r) ==
    IF Refuses(F) THEN r = RefusedItem
    ELSE \E x : /\ LastIdIs(F, id, x)
                /\ r = [is    |-> IF x = number /\ (pay \/ HasPayload(F)) THEN "value" ELSE "none",
                        index |-> e]

\* The type id and the payload behind the field f.
Behind(f, id, pay, i, p) ==
    /\ i = IF FirstTag(f).number = 2 THEN IdOf(f) ELSE id
    /\ p = (FirstTag(f).number = 3 \/ pay)

LEMMA ItemSaysMore ==
    ASSUME NEW f, NEW G \in Seq(Seq(Byte)), NEW F, Prepended(F, f, G), ~BadPart(f),
           NEW number, NEW id, NEW pay \in BOOLEAN, NEW e, NEW r, NEW i, NEW p,
           Behind(f, id, pay, i, p), ItemSays(G, number, i, p, e, r)
    PROVE  ItemSays(F, number, id, pay, e, r)
<1>0. /\ i = IF FirstTag(f).number = 2 THEN IdOf(f) ELSE id
      /\ p = (FirstTag(f).number = 3 \/ pay)
  BY Zenon DEF Behind
<1>1. PICK n \in Nat : n = Len(G)
  OBVIOUS
<1>2. DOMAIN G = 1 .. n /\ DOMAIN F = 1 .. n + 1 /\ F[1] = f
  BY <1>1 DEF Prepended
<1>3. ASSUME NEW k \in DOMAIN G PROVE k + 1 \in DOMAIN F /\ F[k + 1] = G[k]
  BY <1>1, <1>2 DEF Prepended
<1>4. 1 \in DOMAIN F
  BY <1>1, <1>2
<1>5. ASSUME NEW k \in DOMAIN F, k # 1
      PROVE  k - 1 \in DOMAIN G /\ F[k] = G[k - 1] /\ k \in Nat
  <2>1. PICK j : j = k - 1
    OBVIOUS
  <2>2. j \in DOMAIN G /\ k = j + 1 /\ k \in Nat
    BY <1>1, <1>2, <1>5, <2>1
  <2>3. F[k] = G[j]
    BY <1>3, <2>2
  <2>4. QED
    BY <2>1, <2>2, <2>3
<1>6. Refuses(F) <=> Refuses(G)
  <2>1. ASSUME Refuses(F) PROVE Refuses(G)
    <3>1. PICK k \in DOMAIN F : BadPart(F[k])
      BY <2>1, Zenon DEF Refuses
    <3>2. k # 1
      BY <1>2, <3>1
    <3>3. k - 1 \in DOMAIN G /\ F[k] = G[k - 1]
      BY <1>5, <3>2, Zenon
    <3>4. QED
      BY <3>1, <3>3, Zenon DEF Refuses
  <2>2. ASSUME Refuses(G) PROVE Refuses(F)
    <3>1. PICK k \in DOMAIN G : BadPart(G[k])
      BY <2>2, Zenon DEF Refuses
    <3>2. k + 1 \in DOMAIN F /\ F[k + 1] = G[k]
      BY <1>3, Zenon
    <3>3. QED
      BY <3>1, <3>2, Zenon DEF Refuses
  <2>3. QED
    BY <2>1, <2>2
<1>7. p \/ HasPayload(G) <=> pay \/ HasPayload(F)
  <2>1. ASSUME HasPayload(F) PROVE FirstTag(f).number = 3 \/ HasPayload(G)
    <3>1. PICK k \in DOMAIN F : FirstTag(F[k]).number = 3
      BY <2>1, Zenon DEF HasPayload
    <3>2. CASE k = 1
      BY <1>2, <3>1, <3>2
    <3>3. CASE k # 1
      <4>1. k - 1 \in DOMAIN G /\ F[k] = G[k - 1]
        BY <1>5, <3>3, Zenon
      <4>2. FirstTag(G[k - 1]).number = 3
        BY <3>1, <4>1
      <4>3. QED
        BY <4>1, <4>2, Zenon DEF HasPayload
    <3>4. QED
      BY <3>2, <3>3
  <2>2. ASSUME HasPayload(G) PROVE HasPayload(F)
    <3>1. PICK k \in DOMAIN G : FirstTag(G[k]).number = 3
      BY <2>2, Zenon DEF HasPayload
    <3>2. k + 1 \in DOMAIN F /\ F[k + 1] = G[k]
      BY <1>3, Zenon
    <3>3. FirstTag(F[k + 1]).number = 3
      BY <3>1, <3>2
    <3>4. QED
      BY <3>2, <3>3, Zenon DEF HasPayload
  <2>3. ASSUME FirstTag(f).number = 3 PROVE HasPayload(F)
    <3>1. FirstTag(F[1]).number = 3
      BY <1>2, <2>3
    <3>2. QED
      BY <1>4, <3>1, Zenon DEF HasPayload
  <2>4. QED
    BY <1>0, <2>1, <2>2, <2>3
<1>8. ASSUME NEW x, LastIdIs(G, i, x) PROVE LastIdIs(F, id, x)
  <2>1. CASE \E k \in DOMAIN G :
                /\ FirstTag(G[k]).number = 2 /\ IdOf(G[k]) = x
                /\ \A l \in DOMAIN G : k < l => FirstTag(G[l]).number # 2
    <3>1. PICK k \in DOMAIN G :
                /\ FirstTag(G[k]).number = 2 /\ IdOf(G[k]) = x
                /\ \A l \in DOMAIN G : k < l => FirstTag(G[l]).number # 2
      BY <2>1
    <3>2. PICK j : j = k + 1
      OBVIOUS
    <3>3. j \in DOMAIN F /\ F[j] = G[k] /\ k \in Nat /\ 1 <= k
      BY <1>2, <1>3, <3>2
    <3>4. ASSUME NEW l \in DOMAIN F, j < l PROVE FirstTag(F[l]).number # 2
      <4>1. l # 1
        BY <3>2, <3>3, <3>4
      <4>2. PICK m : m = l - 1
        OBVIOUS
      <4>3. m \in DOMAIN G /\ F[l] = G[m] /\ l \in Nat
        BY <1>5, <4>1, <4>2
      <4>4. k < m
        BY <3>2, <3>3, <3>4, <4>2, <4>3
      <4>5. QED
        BY <3>1, <4>3, <4>4
    <3>5. FirstTag(F[j]).number = 2 /\ IdOf(F[j]) = x
      BY <3>1, <3>3
    <3>6. QED
      BY <3>3, <3>4, <3>5, Zenon DEF LastIdIs
  <2>2. CASE (\A k \in DOMAIN G : FirstTag(G[k]).number # 2) /\ x = i
    <3>1. ASSUME NEW l \in DOMAIN F, l # 1 PROVE FirstTag(F[l]).number # 2
      <4>1. PICK m : m = l - 1
        OBVIOUS
      <4>2. m \in DOMAIN G /\ F[l] = G[m]
        BY <1>5, <3>1, <4>1
      <4>3. QED
        BY <2>2, <4>2
    <3>2. CASE FirstTag(f).number = 2
      <4>1. FirstTag(F[1]).number = 2 /\ IdOf(F[1]) = x
        BY <1>0, <1>2, <2>2, <3>2
      <4>2. ASSUME NEW l \in DOMAIN F, 1 < l PROVE FirstTag(F[l]).number # 2
        BY <3>1, <4>2
      <4>3. QED
        BY <1>4, <4>1, <4>2, Zenon DEF LastIdIs
    <3>3. CASE FirstTag(f).number # 2
      <4>1. x = id
        BY <1>0, <2>2, <3>3
      <4>2. ASSUME NEW l \in DOMAIN F PROVE FirstTag(F[l]).number # 2
        BY <1>2, <3>1, <3>3
      <4>3. QED
        BY <4>1, <4>2, Zenon DEF LastIdIs
    <3>4. QED
      BY <3>2, <3>3
  <2>3. QED
    BY <1>8, <2>1, <2>2, Zenon DEF LastIdIs
<1>9. CASE Refuses(G)
  <2>1. r = RefusedItem
    BY <1>9, Zenon DEF ItemSays
  <2>2. QED
    BY <1>6, <1>9, <2>1, Zenon DEF ItemSays
<1>10. CASE ~Refuses(G)
  <2>1. PICK x : /\ LastIdIs(G, i, x)
                 /\ r = [is    |-> IF x = number /\ (p \/ HasPayload(G)) THEN "value" ELSE "none",
                         index |-> e]
    BY <1>10, Zenon DEF ItemSays
  <2>2. r = [is    |-> IF x = number /\ (pay \/ HasPayload(F)) THEN "value" ELSE "none",
             index |-> e]
    BY <1>7, <2>1
  <2>3. QED
    BY <1>6, <1>8, <1>10, <2>1, <2>2, Zenon DEF ItemSays
<1>11. QED
  BY <1>9, <1>10

\* Between i and the end of the group at to, the item is what the fields say.
ItemReads(s, number, from, to, i) ==
    /\ from <= i /\ i <= to
    /\ SkipOf(s, MaxTag)[<<i, <<1>>>>] = Len(s) /\ Rest(s, from, to, i).ok
    => \A id \in Nat, pay \in BOOLEAN :
          ItemSays(Rest(s, from, to, i).fields, number, id, pay, Len(s),
                   ItemOf(s, number)[<<i, id, pay>>])

LEMMA ItemEnds ==
    ASSUME NEW s \in Seq(Byte), NEW number, NEW i \in Nat, EndsHere(s, i, 1, Len(s)),
           NEW id \in Nat, NEW pay \in BOOLEAN, NEW F, F = <<>>
    PROVE  ItemSays(F, number, id, pay, Len(s), ItemOf(s, number)[<<i, id, pay>>])
<1>1. PICK tag, k, r : /\ tag = NextTag(s, i) /\ k = FieldEndOf(s, i, MaxTag)
                       /\ r = ItemOf(s, number)[<<i, id, pay>>]
  OBVIOUS
<1>2. tag.ok /\ tag.wire_type = EndGroup /\ tag.number = 1 /\ tag.index = Len(s)
  BY <1>1, Zenon DEF EndsHere
<1>3. k = Failed
  BY <1>1, <1>2, FieldStarts, Zenon DEF StartsField
<1>4. r = ItemStep(s, number, i, id, pay, tag, k, ItemOf(s, number))
  BY <1>1, ItemIs
<1>5. r = ItemStops(number, tag, id, pay)
  BY <1>3, <1>4, Zenon DEF ItemStep, ItemGoesOn
<1>6. r = [is |-> IF id = number /\ pay THEN "value" ELSE "none", index |-> Len(s)]
  BY <1>2, <1>5, Zenon DEF ItemStops
<1>7. DOMAIN F = {}
  OBVIOUS
<1>8. ~Refuses(F) /\ ~HasPayload(F) /\ LastIdIs(F, id, id)
  BY <1>7, Zenon DEF Refuses, HasPayload, LastIdIs
<1>9. pay \/ HasPayload(F) <=> pay
  BY <1>8
<1>10. r = [is |-> IF id = number /\ (pay \/ HasPayload(F)) THEN "value" ELSE "none",
            index |-> Len(s)]
  BY <1>6, <1>9
<1>11. QED
  BY <1>1, <1>8, <1>10, Zenon DEF ItemSays

LEMMA ItemGoes ==
    ASSUME NEW s \in Seq(Byte), NEW number, NEW i \in Nat,
           NEW j, j = FieldEndOf(s, i, MaxTag), j # Failed,
           NEW G \in Seq(Seq(Byte)), NEW F, F = <<Between(s, i, j)>> \o G,
           \A d \in Nat, p \in BOOLEAN :
               ItemSays(G, number, d, p, Len(s), ItemOf(s, number)[<<j, d, p>>]),
           NEW id \in Nat, NEW pay \in BOOLEAN
    PROVE  ItemSays(F, number, id, pay, Len(s), ItemOf(s, number)[<<i, id, pay>>])
<1>1. PICK tag, r, f, u : /\ tag = NextTag(s, i) /\ r = ItemOf(s, number)[<<i, id, pay>>]
                          /\ f = Between(s, i, j) /\ u = FirstTag(f)
  OBVIOUS
<1>2. f \in Seq(Byte) /\ SameField(f, u, s, tag, j)
  BY <1>1, CutTag
<1>3. /\ u.number = tag.number /\ u.wire_type = tag.wire_type
      /\ TypeId(f, u.index, Len(f)) = TypeId(s, tag.index, j)
  BY <1>2, Zenon DEF SameField
<1>4. Prepended(F, f, G)
  BY <1>1, <1>2, PrependElements
<1>5. r = ItemStep(s, number, i, id, pay, tag, j, ItemOf(s, number))
  BY <1>1, ItemIs
<1>6. tag.ok /\ tag.wire_type # EndGroup
  BY <1>1, FieldStarts, Zenon DEF StartsField
<1>7. IdOf(f) = IF tag.wire_type = Varint THEN TypeId(s, tag.index, j) ELSE 0
  BY <1>1, <1>3, Zenon DEF IdOf
<1>8. ItemGoesOn(s, i, tag, j) <=> ~BadPart(f)
  <2>1. BadPart(f) <=> \/ tag.number = 2 /\ IdOf(f) = 0
                       \/ tag.number = 3 /\ tag.wire_type # LengthDelimited
    BY <1>1, <1>3, Zenon DEF BadPart
  <2>2. ItemGoesOn(s, i, tag, j)
            <=> /\ tag.number = 2 => tag.wire_type = Varint /\ TypeId(s, tag.index, j) # 0
                /\ tag.number = 3 => tag.wire_type = LengthDelimited
    BY Zenon DEF ItemGoesOn
  <2>3. QED
    BY <1>7, <2>1, <2>2
<1>9. CASE BadPart(f)
  <2>1. r = RefusedItem
    BY <1>5, <1>6, <1>8, <1>9, Zenon DEF ItemStep, ItemStops
  <2>2. 1 \in DOMAIN F /\ F[1] = f
    BY <1>4 DEF Prepended
  <2>3. Refuses(F)
    BY <1>9, <2>2, Zenon DEF Refuses
  <2>4. QED
    BY <1>1, <2>1, <2>3, Zenon DEF ItemSays
<1>10. CASE ~BadPart(f)
  <2>1. PICK d, p : d = ItemId(s, tag, j, id) /\ p = ItemPayload(tag, pay)
    OBVIOUS
  <2>2. r = ItemOf(s, number)[<<j, d, p>>]
    BY <1>5, <1>8, <1>10, <2>1, Zenon DEF ItemStep
  <2>3. d \in Nat /\ p \in BOOLEAN
    BY <1>1, <2>1, ItemMoves
  <2>4. ItemSays(G, number, d, p, Len(s), r)
    BY <2>2, <2>3
  <2>5. d = IF FirstTag(f).number = 2 THEN IdOf(f) ELSE id
    <3>1. ItemGoesOn(s, i, tag, j)
      BY <1>8, <1>10
    <3>2. tag.number = 2 => IdOf(f) = TypeId(s, tag.index, j)
      BY <1>7, <3>1, Zenon DEF ItemGoesOn
    <3>3. QED
      BY <1>1, <1>3, <2>1, <3>2, Zenon DEF ItemId
  <2>6. p = (FirstTag(f).number = 3 \/ pay)
    BY <1>1, <1>3, <2>1, Zenon DEF ItemPayload
  <2>7. ItemSays(F, number, id, pay, Len(s), r)
    <3>1. PICK l : l = Len(s)
      OBVIOUS
    <3>2. ItemSays(G, number, d, p, l, r)
      BY <2>4, <3>1
    <3>3. Behind(f, id, pay, d, p)
      BY <2>5, <2>6, Zenon DEF Behind
    <3>4. ItemSays(F, number, id, pay, l, r)
      BY <1>4, <1>10, <3>2, <3>3, ItemSaysMore, Zenon
    <3>5. QED
      BY <3>1, <3>4
  <2>8. QED
    BY <1>1, <2>7
<1>11. QED
  BY <1>9, <1>10

LEMMA ItemsRead ==
    ASSUME NEW s \in Seq(Byte), NEW number, NEW from \in Nat, NEW to \in Nat, to <= Len(s),
           NextTag(s, to).ok, NextTag(s, to).wire_type = EndGroup, NEW i \in Nat
    PROVE  ItemReads(s, number, from, to, i)
<1> DEFINE G == {p \in Nat \X Seq(Nat) : ItemReads(s, number, from, to, p[1])}
<1>1. \A x, y : <<x, y>>[1] = x /\ <<x, y>>[2] = y
  OBVIOUS
<1>2. ASSUME NEW x \in Nat, NEW y \in Seq(Nat)
      PROVE  <<x, y>> \in G <=> ItemReads(s, number, from, to, x)
  <2>1. <<x, y>> \in Nat \X Seq(Nat)
    OBVIOUS
  <2>2. QED
    BY <1>1, <2>1
<1> HIDE DEF G
<1>3. ASSUME NEW x \in Nat, NEW y \in Seq(Nat),
             \A j \in Nat, o \in Seq(Nat) : x < j /\ j <= Len(s) => <<j, o>> \in G
      PROVE  <<x, y>> \in G
  <2>1. SUFFICES ASSUME from <= x, x <= to, SkipOf(s, MaxTag)[<<x, << 1 >> >>] = Len(s),
                        Rest(s, from, to, x).ok, NEW id \in Nat, NEW pay \in BOOLEAN
                 PROVE  ItemSays(Rest(s, from, to, x).fields, number, id, pay, Len(s),
                                 ItemOf(s, number)[<<x, id, pay>>])
    BY <1>2, Zenon DEF ItemReads
  <2>2. EndsHere(s, x, 1, Len(s)) \/ FieldHere(s, x, 1, Len(s))
    <3>1. PICK e, n : e = Len(s) /\ n = 1
      OBVIOUS
    <3>2. e # Failed /\ n \in Nat /\ SkipOf(s, MaxTag)[<<x, <<n>>>>] = e
      BY <2>1, <3>1 DEF Failed
    <3>3. EndsHere(s, x, n, e) \/ FieldHere(s, x, n, e)
      BY <3>2, GroupStep
    <3>4. QED
      BY <3>1, <3>3
  <2>3. CASE x = to
    <3>1. EndsHere(s, x, 1, Len(s))
      BY <2>2, <2>3, Zenon DEF FieldHere
    <3>2. Rest(s, from, to, x).fields = <<>>
      BY <2>1, <2>3, RestEnds
    <3>3. QED
      BY <3>1, <3>2, ItemEnds
  <2>4. CASE x # to
    <3>1. PICK j : j = FieldEndOf(s, x, MaxTag)
      OBVIOUS
    <3>2. x < to /\ from <= to
      BY <2>1, <2>4
    <3>3. RestGoesOn(s, from, to, x, j)
      BY <2>1, <3>1, <3>2, RestStep
    <3>4. /\ j # Failed /\ j \in Nat /\ x < j /\ j <= to /\ Rest(s, from, to, j).ok
          /\ Rest(s, from, to, x).fields = <<Between(s, x, j)>> \o Rest(s, from, to, j).fields
      BY <3>3, Zenon DEF RestGoesOn
    <3>5. ~EndsHere(s, x, 1, Len(s))
      BY <3>1, <3>4, FieldStarts, Zenon DEF EndsHere, StartsField
    <3>6. SkipOf(s, MaxTag)[<<j, <<1>>>>] = Len(s)
      BY <2>2, <3>1, <3>5, Zenon DEF FieldHere
    <3>7. from <= j /\ j <= Len(s)
      BY <2>1, <3>4
    <3>8. ItemReads(s, number, from, to, j)
      <4>1. y \in Seq(Nat)
        OBVIOUS
      <4>2. QED
        BY <1>2, <1>3, <3>4, <3>7, <4>1, Zenon
    <3>9. PICK R, F : R = Rest(s, from, to, j).fields /\ F = Rest(s, from, to, x).fields
      OBVIOUS
    <3>10. \A d \in Nat, p \in BOOLEAN :
              ItemSays(R, number, d, p, Len(s), ItemOf(s, number)[<<j, d, p>>])
      BY <3>4, <3>6, <3>7, <3>8, <3>9, Zenon DEF ItemReads
    <3>11. R \in Seq(Seq(Byte))
      <4>1. Rest(s, from, to, j) \in ReadResult
        BY <3>2, <3>4, <3>7, RestTyped
      <4>2. QED
        BY <3>9, <4>1 DEF ReadResult
    <3>12. F = <<Between(s, x, j)>> \o R
      BY <3>4, <3>9
    <3>13. ItemSays(F, number, id, pay, Len(s), ItemOf(s, number)[<<x, id, pay>>])
      BY <3>1, <3>4, <3>10, <3>11, <3>12, ItemGoes
    <3>14. QED
      BY <3>9, <3>13
  <2>5. QED
    BY <2>3, <2>4
<1>4. <<>> \in Seq(Nat)
  OBVIOUS
<1>5. <<i, <<>>>> \in G
  BY <1>3, <1>4, SkipInduct, Zenon
<1>6. QED
  BY <1>2, <1>4, <1>5, Zenon

\* What is at positions, and what is at the last of them.
ElementsOf(A, F, I) ==
    /\ A \in Seq(Seq(Byte)) /\ DOMAIN A = 1 .. Len(A)
    /\ A = <<>> <=> I = {}
    /\ \A k \in DOMAIN A : \E i \in I : A[k] = F[i]
    /\ \A i \in I : \E k \in DOMAIN A : A[k] = F[i]
    /\ \A i \in I : (\A j \in I : j <= i) => A[Len(A)] = F[i]

LEMMA ElementsAtPositions ==
    ASSUME NEW F, NEW I, Positions(I), \A i \in I : F[i] \in Seq(Byte)
    PROVE  ElementsOf(AtPositions(F, I), F, I)
<1> DEFINE S == Seq(Byte)
<1>a. PICK A : A = AtPositions(F, I)
  OBVIOUS
<1>1. PICK n : n = Cardinality(I)
  OBVIOUS
<1>2. n \in Nat
  BY <1>1, FS_CardinalityType DEF Positions
<1>3. A \in Seq(S) /\ Len(A) = n /\ \A k \in 1 .. n : A[k] = F[Nth(I, k)]
  <2>1. \A i \in I : F[i] \in S
    OBVIOUS
  <2> HIDE DEF S
  <2>2. QED
    BY <1>1, <1>a, <2>1, AtPositionsIs
<1>4. DOMAIN A = 1 .. n
  BY <1>3
<1>5. ASSUME NEW k \in DOMAIN A PROVE \E i \in I : A[k] = F[i]
  <2>1. Nth(I, k) \in I
    BY <1>1, <1>4, <1>5, NthExists
  <2>2. QED
    BY <1>3, <1>4, <2>1
<1>6. ASSUME NEW i \in I
      PROVE  /\ Rank(I, i) \in 1 .. n /\ A[Rank(I, i)] = F[i]
  <2>1. Rank(I, i) \in 1 .. n
    BY <1>1, RankGrows
  <2>2. Nth(I, Rank(I, i)) = i
    BY NthIs
  <2>3. QED
    BY <1>3, <2>1, <2>2
<1>7. A = <<>> <=> I = {}
  <2>1. ASSUME I = {} PROVE A = <<>>
    BY <1>a, <2>1, NoPositions
  <2>2. ASSUME NEW i \in I PROVE A # <<>>
    <3>1. Rank(I, i) \in 1 .. n
      BY <1>6
    <3>2. n # 0
      BY <1>2, <3>1
    <3>3. QED
      BY <1>3, <3>2
  <2>3. QED
    BY <2>1, <2>2
<1>8. ASSUME NEW i \in I, \A j \in I : j <= i PROVE A[Len(A)] = F[i]
  <2>1. {j \in I : j <= i} = I
    BY <1>8
  <2>2. Rank(I, i) = n
    BY <1>1, <2>1 DEF Rank
  <2>3. QED
    BY <1>3, <1>6, <2>2
<1>9. /\ A \in Seq(Seq(Byte)) /\ DOMAIN A = 1 .. Len(A)
  BY <1>3, <1>4
<1>10. \A i \in I : \E k \in DOMAIN A : A[k] = F[i]
  BY <1>4, <1>6
<1>11. ElementsOf(A, F, I)
  BY <1>5, <1>7, <1>8, <1>9, <1>10, Zenon DEF ElementsOf
<1>12. QED
  BY <1>a, <1>11

\* The positions of the fields F with a number, and their ids.
NumberedIn(F, n) == {i \in DOMAIN F : FirstTag(F[i]).number = n}

IdsOf(A) == [k \in DOMAIN A |-> IdOf(A[k])]

Meaning(ids, payloads, number) ==
    IF 0 \in ToSet(ids) \/ \E f \in ToSet(payloads) : FirstTag(f).wire_type # LengthDelimited
    THEN "error"
    ELSE IF ids # <<>> /\ payloads # <<>> /\ Last(ids) = number THEN "value"
    ELSE "none"

MeaningOf(F, number) ==
    Meaning(IdsOf(AtPositions(F, NumberedIn(F, 2))), AtPositions(F, NumberedIn(F, 3)), number)

LEMMA ItemMeaningIs ==
    ASSUME NEW s, NEW number
    PROVE  ItemMeaning(s, number) = MeaningOf(FieldsOfGroup(s), number)
  BY Zenon DEF ItemMeaning, MeaningOf, Meaning, IdsOf, IdOf, NumberedIn

LEMMA ItemMeans ==
    ASSUME NEW F \in Seq(Seq(Byte)), NEW number, number # 0, NEW e \in Nat, NEW r,
           NEW id, id = 0, NEW pay \in BOOLEAN, ~pay, ItemSays(F, number, id, pay, e, r)
    PROVE  /\ MeaningOf(F, number) = r.is
           /\ r.is # "error" => r.index = e
<1>1. PICK n : n = Len(F)
  OBVIOUS
<1>2. n \in Nat /\ DOMAIN F = 1 .. n
  BY <1>1
<1>3. PICK J, K : J = NumberedIn(F, 2) /\ K = NumberedIn(F, 3)
  OBVIOUS
<1>4. Positions(J) /\ Positions(K)
  <2>1. ASSUME NEW I \in SUBSET (1 .. n) PROVE Positions(I)
    <3>1. IsFiniteSet(1 .. n)
      BY <1>2, FS_Interval
    <3>2. IsFiniteSet(I)
      BY <3>1, FS_Subset
    <3>3. QED
      BY <1>2, <3>2 DEF Positions
  <2>2. J \in SUBSET (1 .. n) /\ K \in SUBSET (1 .. n)
    BY <1>2, <1>3 DEF NumberedIn
  <2>3. QED
    BY <2>1, <2>2
<1>5. /\ \A i \in DOMAIN F : i \in J <=> FirstTag(F[i]).number = 2
      /\ \A i \in DOMAIN F : i \in K <=> FirstTag(F[i]).number = 3
      /\ J \subseteq DOMAIN F /\ K \subseteq DOMAIN F
  BY <1>3, Zenon DEF NumberedIn
<1>6. PICK A, B : A = AtPositions(F, J) /\ B = AtPositions(F, K)
  OBVIOUS
<1>7. \A i \in DOMAIN F : F[i] \in Seq(Byte)
  BY <1>2
<1>8. /\ A \in Seq(Seq(Byte)) /\ DOMAIN A = 1 .. Len(A)
      /\ A = <<>> <=> J = {}
      /\ \A k \in DOMAIN A : \E i \in J : A[k] = F[i]
      /\ \A i \in J : \E k \in DOMAIN A : A[k] = F[i]
      /\ \A i \in J : (\A j \in J : j <= i) => A[Len(A)] = F[i]
  <2>1. \A i \in J : F[i] \in Seq(Byte)
    BY <1>5, <1>7
  <2>2. ElementsOf(A, F, J)
    BY <1>4, <1>6, <2>1, ElementsAtPositions
  <2>3. QED
    BY <2>2, Zenon DEF ElementsOf
<1>9. /\ B \in Seq(Seq(Byte))
      /\ B = <<>> <=> K = {}
      /\ \A k \in DOMAIN B : \E i \in K : B[k] = F[i]
      /\ \A i \in K : \E k \in DOMAIN B : B[k] = F[i]
  <2>1. \A i \in K : F[i] \in Seq(Byte)
    BY <1>5, <1>7
  <2>2. ElementsOf(B, F, K)
    BY <1>4, <1>6, <2>1, ElementsAtPositions
  <2>3. QED
    BY <2>2, Zenon DEF ElementsOf
<1>10. PICK ids : ids = IdsOf(A)
  OBVIOUS
<1>11. DOMAIN ids = DOMAIN A /\ \A k \in DOMAIN A : ids[k] = IdOf(A[k])
  BY <1>10 DEF IdsOf
<1>12. ids = <<>> <=> A = <<>>
  <2>1. ASSUME A = <<>> PROVE ids = <<>>
    BY <1>10, <2>1 DEF IdsOf
  <2>2. ASSUME ids = <<>> PROVE A = <<>>
    <3>1. DOMAIN A = {}
      BY <1>11, <2>2
    <3>2. QED
      BY <1>8, <3>1
  <2>3. QED
    BY <2>1, <2>2
<1>13. MeaningOf(F, number) = Meaning(ids, B, number)
  BY <1>3, <1>6, <1>10 DEF MeaningOf
<1>14. 0 \in ToSet(ids) <=> \E i \in J : IdOf(F[i]) = 0
  <2>1. 0 \in ToSet(ids) <=> \E k \in DOMAIN A : IdOf(A[k]) = 0
    BY <1>11 DEF ToSet
  <2>2. QED
    BY <1>8, <2>1
<1>15. (\E f \in ToSet(B) : FirstTag(f).wire_type # LengthDelimited)
           <=> \E i \in K : FirstTag(F[i]).wire_type # LengthDelimited
  <2>1. (\E f \in ToSet(B) : FirstTag(f).wire_type # LengthDelimited)
            <=> \E k \in DOMAIN B : FirstTag(B[k]).wire_type # LengthDelimited
    BY DEF ToSet
  <2>2. QED
    BY <1>9, <2>1
<1>16. Refuses(F) <=> \/ 0 \in ToSet(ids)
                      \/ \E f \in ToSet(B) : FirstTag(f).wire_type # LengthDelimited
  <2>1. Refuses(F) <=> \/ \E i \in J : IdOf(F[i]) = 0
                       \/ \E i \in K : FirstTag(F[i]).wire_type # LengthDelimited
    BY <1>5, Zenon DEF Refuses, BadPart
  <2>2. QED
    BY <1>14, <1>15, <2>1
<1>17. HasPayload(F) <=> B # <<>>
  <2>1. HasPayload(F) <=> K # {}
    BY <1>5 DEF HasPayload
  <2>2. QED
    BY <1>9, <2>1
<1>18. CASE Refuses(F)
  <2>1. r = RefusedItem
    BY <1>18, Zenon DEF ItemSays
  <2>2. r.is = "error"
    BY <2>1 DEF RefusedItem
  <2>3. Meaning(ids, B, number) = "error"
    BY <1>16, <1>18, Zenon DEF Meaning
  <2>4. QED
    BY <1>13, <2>2, <2>3
<1>19. CASE ~Refuses(F)
  <2>1. PICK x : /\ LastIdIs(F, id, x)
                 /\ r = [is    |-> IF x = number /\ (pay \/ HasPayload(F)) THEN "value" ELSE "none",
                         index |-> e]
    BY <1>19, Zenon DEF ItemSays
  <2>2. r.index = e /\ r.is = IF x = number /\ B # <<>> THEN "value" ELSE "none"
    BY <1>17, <2>1
  <2>3. Meaning(ids, B, number) =
            IF ids # <<>> /\ B # <<>> /\ Last(ids) = number THEN "value" ELSE "none"
    BY <1>16, <1>19, Zenon DEF Meaning
  <2>4. x = number <=> ids # <<>> /\ Last(ids) = number
    <3>1. CASE (\A k \in DOMAIN F : FirstTag(F[k]).number # 2) /\ x = id
      <4>1. J = {}
        BY <1>5, <3>1
      <4>2. ids = <<>>
        BY <1>8, <1>12, <4>1
      <4>3. QED
        BY <3>1, <4>2
    <3>2. CASE \E k \in DOMAIN F :
                  /\ FirstTag(F[k]).number = 2 /\ IdOf(F[k]) = x
                  /\ \A l \in DOMAIN F : k < l => FirstTag(F[l]).number # 2
      <4>1. PICK k \in DOMAIN F :
                  /\ FirstTag(F[k]).number = 2 /\ IdOf(F[k]) = x
                  /\ \A l \in DOMAIN F : k < l => FirstTag(F[l]).number # 2
        BY <3>2
      <4>2. k \in J
        BY <1>5, <4>1
      <4>3. ASSUME NEW j \in J PROVE j <= k
        <5>1. j \in DOMAIN F /\ FirstTag(F[j]).number = 2
          BY <1>5
        <5>2. ~(k < j)
          BY <4>1, <5>1
        <5>3. QED
          BY <1>2, <4>1, <5>1, <5>2
      <4>4. A[Len(A)] = F[k] /\ A # <<>>
        BY <1>8, <4>2, <4>3
      <4>5. PICK m : m = Len(A)
        OBVIOUS
      <4>6. m \in DOMAIN A /\ m \in Nat
        BY <1>8, <4>4, <4>5
      <4>7. ids[m] = x
        BY <1>11, <4>1, <4>4, <4>5, <4>6
      <4>8. Len(ids) = m
        <5>1. PICK S : S = {ids[l] : l \in 1 .. m}
          OBVIOUS
        <5>2. ids = [l \in 1 .. m |-> IdOf(A[l])]
          BY <1>8, <1>10, <4>5 DEF IdsOf
        <5>3. \A l \in 1 .. m : IdOf(A[l]) \in S
          BY <1>8, <1>11, <4>5, <5>1
        <5>4. ids \in [1 .. m -> S]
          <6> DEFINE P(l) == IdOf(A[l])
          <6>1. ids = [l \in 1 .. m |-> P(l)] /\ \A l \in 1 .. m : P(l) \in S
            BY <5>2, <5>3
          <6> HIDE DEF P
          <6>2. QED
            BY <6>1
        <5>5. QED
          BY <4>6, <5>4
      <4>9. Last(ids) = x
        BY <4>7, <4>8 DEF Last
      <4>10. QED
        BY <1>12, <4>4, <4>9
    <3>3. QED
      BY <2>1, <3>1, <3>2, Zenon DEF LastIdIs
  <2>5. Meaning(ids, B, number) = r.is
    BY <2>2, <2>3, <2>4
  <2>6. QED
    BY <1>13, <2>2, <2>5
<1>20. QED
  BY <1>18, <1>19

\* The fields of the group s are those before its end.
GroupIs(s, n, from, to, F) ==
    /\ from <= to /\ to <= Len(s)
    /\ NextTag(s, to).ok /\ NextTag(s, to).wire_type = EndGroup
    /\ SkipOf(s, MaxTag)[<<from, <<n>>>>] = Len(s)
    /\ Rest(s, from, to, from).ok /\ F = Rest(s, from, to, from).fields

LEMMA GroupOpens ==
    ASSUME NEW s \in Seq(Byte), validateRawField(s), FirstTag(s).wire_type = StartGroup,
           NEW n, n = FirstTag(s).number, NEW from, from = FirstTag(s).index
    PROVE  n \in Nat /\ from \in Nat /\ SkipOf(s, MaxTag)[<<from, <<n>>>>] = Len(s)
<1>1. PICK z, none, l : z = 0 /\ none = <<>> /\ l = Len(s)
  OBVIOUS
<1>2. z \in Nat /\ none \in Seq(Nat) /\ l \in Nat /\ l <= Len(s) /\ z <= l
  BY <1>1
<1>3. PICK m, tag : m = Move(s, z, l, none, MaxTag) /\ tag = readTag(s, z, l, MaxTag)
  OBVIOUS
<1>4. tag = FirstTag(s)
  BY <1>1, <1>3 DEF FirstTag
<1>5. tag.ok
  BY <1>4, ValidTag
<1>6. n \in Nat /\ from \in Nat
  <2>1. readTag(s, z, l, MaxTag).ok
    BY <1>3, <1>5
  <2>2. tag.number \in Nat /\ tag.index \in Nat
    BY <1>2, <1>3, <2>1, TagInside
  <2>3. QED
    BY <1>4, <2>2
<1>7. l = Skipped(m, SkipOf(s, MaxTag))
  <2>1. l = FieldEndOf(s, z, MaxTag)
    BY <1>1 DEF validateRawField, FieldEnd
  <2>2. l = SkipOf(s, MaxTag)[<<z, none>>]
    BY <1>1, <2>1, FieldEndIs
  <2>3. QED
    BY <1>1, <1>2, <1>3, <2>2, SkipIs
<1>8. l # Failed
  BY <1>2 DEF Failed
<1>9. m.ok
  BY <1>7, <1>8, Zenon DEF Skipped
<1>10. ~Refused.ok
  BY DEF Refused
<1>11. tag.wire_type = StartGroup /\ StartGroup # EndGroup
  BY <1>4 DEF StartGroup, EndGroup
<1>12. m = IF Len(none) < RecursionLimit
           THEN [ok |-> TRUE, to |-> tag.index, open |-> Append(none, tag.number)] ELSE Refused
  BY <1>3, <1>5, <1>11, Zenon DEF Move, TagLimit
<1>13. m = [ok |-> TRUE, to |-> tag.index, open |-> Append(none, tag.number)]
  BY <1>9, <1>10, <1>12
<1>14. m.to = from /\ m.open = <<n>> /\ m.open # <<>>
  BY <1>1, <1>4, <1>13
<1>15. l = SkipOf(s, MaxTag)[<<from, <<n>>>>]
  BY <1>7, <1>9, <1>14, Zenon DEF Skipped
<1>16. QED
  BY <1>1, <1>6, <1>15

\* There is an end, and FieldsOfGroup takes the fields before one.
LEMMA FieldsOfGroupAre ==
    ASSUME NEW s \in Seq(Byte), validateRawField(s), FirstTag(s).wire_type = StartGroup,
           NEW n, n = FirstTag(s).number, NEW from, from = FirstTag(s).index
    PROVE  \E to \in Nat : GroupIs(s, n, from, to, FieldsOfGroup(s))
<1>1. n \in Nat /\ from \in Nat /\ SkipOf(s, MaxTag)[<<from, <<n>>>>] = Len(s)
  BY GroupOpens
<1> DEFINE Inside(to) == ReadFields(SubSeq(s, from + 1, to))
           Ends(to)   == /\ NextTag(s, to).ok /\ NextTag(s, to).wire_type = EndGroup
                         /\ NextTag(s, to).index = Len(s)
           Within == {Inside(to).fields : to \in {k \in from .. Len(s) : Ends(k) /\ Inside(k).ok}}
<1>2. FieldsOfGroup(s) = CHOOSE fields \in Within : TRUE
  BY Zenon DEF FieldsOfGroup
<1>3. ASSUME NEW to \in Nat PROVE Inside(to) = Rest(s, from, to, from)
  <2>1. PICK w : w = SubSeq(s, from + 1, to)
    OBVIOUS
  <2>2. ReadFields(w) = ReadOf(w, MaxTag)[0]
    BY ReadFieldsIs DEF ReadFields
  <2>3. from - from = 0
    BY <1>1
  <2>4. QED
    BY <2>1, <2>2, <2>3 DEF Rest, Between
<1>4. Within # {}
  <2>1. PICK e : e = Len(s)
    OBVIOUS
  <2>2. e # Failed /\ SkipOf(s, MaxTag)[<<from, <<n>>>>] = e /\ from <= from
    BY <1>1, <2>1 DEF Failed
  <2>3. HasEnd(s, n, from, e, from)
    BY <1>1, <2>2, GroupHasEnd, Zenon
  <2>4. PICK to \in Nat : /\ from <= to /\ to <= Len(s)
                          /\ EndsHere(s, to, n, e) /\ Rest(s, from, to, from).ok
    BY <2>2, <2>3, Zenon DEF HasEnd
  <2>5. to \in from .. Len(s)
    BY <1>1, <2>4
  <2>6. Ends(to)
    BY <2>1, <2>4, Zenon DEF EndsHere
  <2>7. Inside(to).ok
    BY <1>3, <2>4
  <2> HIDE DEF Inside, Ends
  <2>8. QED
    BY <2>5, <2>6, <2>7
<1>5. FieldsOfGroup(s) \in Within
  <2> HIDE DEF Within
  <2>1. QED
    BY <1>2, <1>4
<1>6. PICK to \in from .. Len(s) : /\ Ends(to) /\ Inside(to).ok
                                   /\ FieldsOfGroup(s) = Inside(to).fields
  <2> HIDE DEF Inside, Ends
  <2>1. QED
    BY <1>5
<1>7. to \in Nat /\ from <= to /\ to <= Len(s)
  BY <1>1
<1>8. Rest(s, from, to, from).ok /\ FieldsOfGroup(s) = Rest(s, from, to, from).fields
  BY <1>3, <1>6, <1>7
<1>9. NextTag(s, to).ok /\ NextTag(s, to).wire_type = EndGroup
  BY <1>6
<1>10. GroupIs(s, n, from, to, FieldsOfGroup(s))
  BY <1>1, <1>7, <1>8, <1>9, Zenon DEF GroupIs
<1>11. QED
  BY <1>7, <1>10

\* decodeRaw says of a group 1 what its fields mean.
LEMMA ItemAgrees ==
    ASSUME NEW s \in Seq(Byte), validateRawField(s),
           FirstTag(s).number = 1, FirstTag(s).wire_type = StartGroup,
           NEW number \in FieldNumber
    PROVE  DecodeRaw(s, number) = ItemMeaning(s, number)
<1>1. PICK n, from, F, e : /\ n = FirstTag(s).number /\ from = FirstTag(s).index
                           /\ F = FieldsOfGroup(s) /\ e = Len(s)
  OBVIOUS
<1>2. n = 1 /\ n \in Nat /\ from \in Nat /\ e \in Nat
  <2>1. n = 1 /\ n \in Nat /\ e \in Nat
    BY <1>1
  <2>2. n \in Nat /\ from \in Nat /\ SkipOf(s, MaxTag)[<<from, <<n>>>>] = Len(s)
    BY <1>1, GroupOpens, Zenon
  <2>3. QED
    BY <2>1, <2>2
<1>3. PICK to \in Nat : GroupIs(s, n, from, to, F)
  BY <1>1, FieldsOfGroupAre
<1>4. /\ from <= to /\ to <= Len(s)
      /\ NextTag(s, to).ok /\ NextTag(s, to).wire_type = EndGroup
      /\ SkipOf(s, MaxTag)[<<from, <<n>>>>] = Len(s)
      /\ Rest(s, from, to, from).ok /\ F = Rest(s, from, to, from).fields
  BY <1>3, Zenon DEF GroupIs
<1>5. F \in Seq(Seq(Byte))
  <2>1. from <= from
    BY <1>2
  <2>2. Rest(s, from, to, from) \in ReadResult
    BY <1>2, <1>4, <2>1, RestTyped
  <2>3. QED
    BY <1>4, <2>2 DEF ReadResult
<1>6. PICK id, pay : id = 0 /\ pay = FALSE
  OBVIOUS
<1>7. id \in Nat /\ pay \in BOOLEAN /\ ~pay
  BY <1>6
<1>8. PICK r : r = ItemOf(s, number)[<<from, id, pay>>]
  OBVIOUS
<1>9. r = MessageSetItem(s, number, from)
  BY <1>6, <1>8, MessageSetItemIs
<1>10. ItemSays(F, number, id, pay, e, r)
  <2>1. ItemReads(s, number, from, to, from)
    BY <1>2, <1>4, ItemsRead
  <2>2. SkipOf(s, MaxTag)[<<from, <<1>>>>] = Len(s) /\ from <= from
    BY <1>2, <1>4
  <2>3. ItemSays(Rest(s, from, to, from).fields, number, id, pay, Len(s),
                 ItemOf(s, number)[<<from, id, pay>>])
    BY <1>4, <1>7, <2>1, <2>2, Zenon DEF ItemReads
  <2>4. QED
    BY <1>1, <1>4, <1>8, <2>3
<1>11. number # 0
  <2>1. ~(0 \in FieldNumber)
    BY DEF FieldNumber
  <2>2. QED
    BY <2>1
<1>12. MeaningOf(F, number) = r.is /\ (r.is # "error" => r.index = e)
  BY <1>2, <1>5, <1>6, <1>7, <1>10, <1>11, ItemMeans
<1>13. ItemMeaning(s, number) = r.is
  BY <1>1, <1>12, ItemMeaningIs
<1>14. DecodeRaw(s, number) =
           IF r.is = "error" THEN "error" ELSE IF r.index = Len(s) THEN r.is ELSE "error"
  <2>1. s # <<>> /\ FirstTag(s).ok
    BY ValidTag
  <2>2. MessageSetItem(s, number, FirstTag(s).index) = r
    BY <1>1, <1>9
  <2>3. QED
    BY <2>1, <2>2, Zenon DEF DecodeRaw
<1>15. QED
  BY <1>1, <1>12, <1>13, <1>14

-----------------------------------------------------------------------------
(* What a message stores, and the call in progress *)

WholeFields(fields) == \A i \in DOMAIN fields : WholeField(fields[i].bytes, LongestTag)

StoredWhole ==
    \A m \in Message :
        \A i \in DOMAIN unknown[m].fields : WholeField(unknown[m].fields[i].bytes, LongestTag)

\* What a call has established so far.
CallInv ==
    /\ Running("none") => call = NoCall
    /\ call.items # <<>> => call.does \in {"remove", "items"}
    /\ call.fresh.block = NoTable => call.fresh.fields = <<>>
    /\ call.fresh.fields = <<>> => call.fresh.block = NoTable \/ Copying \/ KeepsSome
    /\ Running("append") => call.fresh.fields # <<>> \/ call.todo # <<>>
    /\ Running("decode") => unknown[call.into] = Empty
    /\ call.does \in {"remove", "items"} => call.into \in defined
    /\ Running("items") => MessageSet
    /\ Running("remove") /\ call.fresh.block = NoTable /\ KeepsSome
          => call.items = unknown[call.into].fields
    /\ AllWhole(call.todo, LongestTag)
    /\ WholeFields(call.items)
    /\ WholeFields(call.fresh.fields)

Typed == TypeOK /\ IsFiniteSet(heap)

IInv == Typed /\ CallInv /\ TablesHoldFields /\ StoredWhole

-----------------------------------------------------------------------------
(* The allocator has a block that is not in use. *)
LEMMA FreshBlock ==
    ASSUME Typed
    PROVE  Block \in Nat \ {0} /\ Block \notin heap
<1> DEFINE n == Cardinality(heap)
<1>1. n \in Nat
    BY FS_CardinalityType DEF Typed
<1>2. IsFiniteSet(1 .. n + 1) /\ Cardinality(1 .. n + 1) = n + 1
    <2>1. n + 1 \in Int /\ 1 \in Int
        BY <1>1
    <2> QED
        BY <1>1, <2>1, FS_Interval
<1>3. ~(1 .. n + 1 \subseteq heap)
    <2>1. SUFFICES ASSUME 1 .. n + 1 \subseteq heap PROVE FALSE
        OBVIOUS
    <2>2. Cardinality(1 .. n + 1) <= n
        BY <2>1, FS_Subset DEF Typed
    <2> QED
        BY <1>1, <1>2, <2>2
<1>4. \E b \in 1 .. n + 1 : b \notin heap
    BY <1>3
<1>5. Block \in 1 .. n + 1 /\ Block \notin heap
    BY <1>4 DEF Block
<1> QED
    BY <1>1, <1>5

LEMMA NoCallTyped == NoCall \in Call /\ Empty \in Table /\ Some \in Message
<1>1. Empty \in Table
    BY DEF Empty, Table, NoTable
<1>2. Some \in Message
    BY MessageAssumption DEF Some
<1> QED
    BY <1>1, <1>2 DEF NoCall, Call

LEMMA BytesTyped ==
    ASSUME NEW fields \in Seq(Field)
    PROVE  /\ Bytes(fields) \in Seq(Seq(Byte))
           /\ WholeFields(fields) => AllWhole(Bytes(fields), LongestTag)
<1>1. \A i \in DOMAIN fields : fields[i].bytes \in Seq(Byte)
    <2>1. TAKE i \in DOMAIN fields
    <2>2. fields[i] \in Field
        BY ElementOfSeq
    <2> QED
        BY <2>2 DEF Field
<1>2. DOMAIN fields = 1 .. Len(fields) /\ Len(fields) \in Nat
    OBVIOUS
<1>3. Bytes(fields) \in [1 .. Len(fields) -> Seq(Byte)]
    BY <1>1, <1>2 DEF Bytes
<1> QED
    BY <1>1, <1>2, <1>3 DEF Bytes, WholeFields, AllWhole

LEMMA AppendingTyped ==
    ASSUME NEW m \in Message, NEW raws \in Seq(Seq(Byte)), Appending(m, raws)
    PROVE  call' \in Call
BY NoCallTyped DEF Appending, NoCall, Call

LEMMA RawTyped ==
    ASSUME NEW raw \in Raw
    PROVE  <<raw>> \in Seq(Seq(Byte))
BY RawAssumption

(* Every step of a call keeps the types. *)
LEMMA TypeStep ==
    ASSUME Typed, CallInv, [Next]_vars
    PROVE  Typed'
<1> USE NoCallTyped
<1> USE DEF Typed, TypeOK
<1>1. \A b : IsFiniteSet(heap \cup {b})
    BY FS_AddElement
<1>2. \A S : IsFiniteSet(heap \ S)
    BY FS_Difference
<1>3. unknown \in [Message -> Table] /\ \A m \in Message : unknown[m].fields \in Seq(Field)
    BY DEF Table
<1>4. ASSUME NEW m \in Message, Freed(m)
      PROVE  heap' \subseteq Nat \ {0} /\ IsFiniteSet(heap') /\ unknown' \in [Message -> Table]
    BY <1>2, <1>4 DEF Freed
<1>5. /\ call.fresh \in Table /\ call.fresh.fields \in Seq(Field) /\ call.fresh.block \in Nat
      /\ call.todo \in Seq(Seq(Byte)) /\ call.items \in Seq(Field) /\ call.into \in Message
      /\ call.then \in Seq(Seq(Byte))
    BY DEF Call, Table
<1>6. ASSUME NEW m \in Message, Calls(m)
      PROVE  Typed'
    <2>1. CASE Construct(m)
        BY <2>1 DEF Construct
    <2>2. CASE Deinit(m)
        BY <2>2, <1>4 DEF Deinit
    <2>3. CASE ClearUnknownFields(m)
        BY <2>3, <1>4 DEF ClearUnknownFields
    <2>4. ASSUME NEW raw \in Raw, AppendUnknownRaw(m, raw)
          PROVE  Typed'
        BY <2>4, AppendingTyped, RawTyped DEF AppendUnknownRaw
    <2>5. ASSUME NEW then \in Seq(Seq(Byte)), CallClearItems(m, then)
          PROVE  Typed'
        <3>1. CASE unknown[m].fields = <<>>
            <4>1. Appending(m, then) /\ UNCHANGED <<heap, unknown, defined>>
                BY <2>5, <3>1, Zenon DEF CallClearItems
            <4> QED
                BY <4>1, AppendingTyped
        <3>2. CASE unknown[m].fields # <<>>
            <4>1. /\ call' = [does |-> "items", into |-> m, fresh |-> Empty, todo |-> <<>>,
                              items |-> unknown[m].fields, then |-> then,
                              number |-> 0, reuse |-> FALSE, broken |-> FALSE]
                  /\ UNCHANGED <<heap, unknown, defined>>
                BY <2>5, <3>2, Zenon DEF CallClearItems, NoCall
            <4>2. call' \in Call
                BY <1>3, <4>1 DEF Call
            <4> QED
                BY <4>1, <4>2, Zenon
        <3> QED
            BY <3>1, <3>2, Zenon
    <2>6. ASSUME NEW other \in Message, MergeFrom(m, other)
          PROVE  Typed'
        BY <2>6, <1>3, AppendingTyped, BytesTyped DEF MergeFrom
    <2>7. ASSUME NEW other \in Message, CloneOwned(m, other)
          PROVE  Typed'
        <3>1. Bytes(unknown[other].fields) \in Seq(Seq(Byte))
            BY <1>3, BytesTyped
        <3>2. CASE Bytes(unknown[other].fields) = <<>>
            <4>1. defined' = defined \cup {m} /\ UNCHANGED <<heap, unknown, call>>
                BY <2>7, <3>2, Zenon DEF CloneOwned
            <4> QED
                BY <4>1
        <3>3. CASE Bytes(unknown[other].fields) # <<>>
            <4>1. /\ call' = [does |-> "append", into |-> m, fresh |-> Empty,
                              todo |-> Bytes(unknown[other].fields), items |-> <<>>,
                              then |-> <<>>, number |-> 0, reuse |-> FALSE, broken |-> FALSE]
                  /\ UNCHANGED <<heap, unknown, defined>>
                BY <2>7, <3>3, Zenon DEF CloneOwned, NoCall
            <4>2. call' \in Call
                BY <3>1, <4>1 DEF Call
            <4> QED
                BY <4>1, <4>2, Zenon
        <3> QED
            BY <3>2, <3>3, Zenon
    <2>8. ASSUME NEW s \in Encoded, CallDecode(m, s)
          PROVE  Typed'
        <3>1. ReadMessage(s).fields \in Seq(Seq(Byte))
            <4>1. s \in Seq(Byte)
                BY RawAssumption
            <4> QED
                BY <4>1, StreamValid DEF ReadMessage, ReadResult
        <3>2. (~ReadMessage(s).ok) \in BOOLEAN /\ (m \in defined) \in BOOLEAN
            OBVIOUS
        <3>3. call' = [does |-> "decode", into |-> m, fresh |-> Empty,
                       todo |-> ReadMessage(s).fields, items |-> <<>>, then |-> <<>>,
                       number |-> 0, reuse |-> m \in defined, broken |-> ~ReadMessage(s).ok]
            BY <2>8, Zenon DEF CallDecode, NoCall
        <3>4. call' \in Call
            BY <3>1, <3>2, <3>3 DEF Call
        <3> QED
            BY <2>8, <1>4, <3>4 DEF CallDecode
    <2>9. ASSUME NEW number \in Asked, NEW then \in Seq(Seq(Byte)), CallRemove(m, number, then)
          PROVE  Typed'
        <3>1. number \in Nat
            <4>1. number \in FieldNumber
                BY NumberAssumption
            <4> QED
                BY <4>1, FieldNumberIs, SMT
        <3>2. call' \in Call
            <4>1. CASE Malformed(m)
                BY <2>9, <4>1 DEF CallRemove, Return
            <4>2. CASE Appending(m, then)
                BY <4>2, AppendingTyped
            <4>3. CASE call' = [NoCall EXCEPT !.does = "remove", !.into = m, !.number = number,
                                    !.then = then, !.items = unknown[m].fields]
                BY <4>3, <3>1, <1>3 DEF NoCall, Call
            <4> QED
                BY <2>9, <4>1, <4>2, <4>3, Zenon DEF CallRemove
        <3> QED
            BY <2>9, <3>2 DEF CallRemove
    <2>10. <<>> \in Seq(Seq(Byte)) /\ \A raw \in Raw : <<raw>> \in Seq(Seq(Byte))
        BY RawTyped
    <2> QED
        BY <1>6, <2>1, <2>2, <2>3, <2>4, <2>5, <2>6, <2>7, <2>8, <2>9, <2>10, Zenon DEF Calls, EncodedValue, EncodedItem
<1>7. CASE AllocateTable
    BY <1>7, <1>1, <1>5, FreshBlock DEF AllocateTable, Call, Table
<1>8. CASE CopyField
    <2>1. Head(call.todo) \in Seq(Byte) /\ Tail(call.todo) \in Seq(Seq(Byte))
        BY <1>8, <1>5 DEF CopyField, Copying
    <2>2. Append(call.fresh.fields, [block |-> Block, bytes |-> Head(call.todo)]) \in Seq(Field)
        BY <2>1, <1>5, FreshBlock DEF Field
    <2> QED
        BY <1>8, <1>1, <1>5, <2>1, <2>2, FreshBlock DEF CopyField, Call, Table
<1>9. CASE Appended
    <2>1. unknown[call.into].fields \o call.fresh.fields \in Seq(Field)
        BY <1>3, <1>5
    <2>2. [block |-> call.fresh.block,
           fields |-> unknown[call.into].fields \o call.fresh.fields] \in Table
        BY <1>5, <2>1 DEF Table
    <2> QED
        BY <1>9, <1>2, <1>5, <2>2 DEF Appended, Return
<1>10. CASE Decoded
    BY <1>10, <1>5 DEF Decoded, Return
<1>11. CASE FreeField
    <2>1. Tail(call.items) \in Seq(Field)
        BY <1>11, <1>5 DEF FreeField, NextIs
    <2> QED
        BY <1>11, <1>2, <1>5, <2>1 DEF FreeField, Call
<1>12. CASE KeepField
    <2>1. Head(call.items) \in Field /\ Tail(call.items) \in Seq(Field)
        BY <1>12, <1>5 DEF KeepField, NextIs
    <2>2. Append(call.fresh.fields, Head(call.items)) \in Seq(Field)
        BY <2>1, <1>5
    <2> QED
        BY <1>12, <1>5, <2>1, <2>2 DEF KeepField, Call, Table
<1>13. CASE Cleared
    <2>1. call' \in Call
        BY <1>13, <1>5, AppendingTyped DEF Cleared
    <2>2. unknown' \in [Message -> Table]
        BY <1>13, <1>5 DEF Cleared
    <2> QED
        BY <1>13, <1>2, <2>1, <2>2 DEF Cleared
<1>14. CASE OutOfMemory \/ BadInput
    BY <1>14, <1>2 DEF OutOfMemory, BadInput, Fails, Return
<1>15. CASE UNCHANGED vars
    BY <1>15 DEF vars
<1> QED
    BY <1>6, <1>7, <1>8, <1>9, <1>10, <1>11, <1>12, <1>13, <1>14, <1>15 DEF Next

-----------------------------------------------------------------------------
(* What a call has established when it appends, and when it has ended. *)
LEMMA AppendFields ==
    ASSUME NEW m \in Message, NEW raws \in Seq(Seq(Byte)),
           call' = [NoCall EXCEPT !.does = "append", !.into = m, !.todo = raws]
    PROVE  /\ call'.does = "append" /\ call'.into = m /\ call'.todo = raws
           /\ call'.items = <<>> /\ call'.fresh = Empty
BY DEF NoCall

LEMMA AppendCall ==
    ASSUME NEW m \in Message, NEW raws \in Seq(Seq(Byte)), AllWhole(raws, LongestTag), raws # <<>>,
           call' = [NoCall EXCEPT !.does = "append", !.into = m, !.todo = raws]
    PROVE  CallInv'
<1>1. /\ call'.does = "append" /\ call'.todo = raws
      /\ call'.items = <<>> /\ call'.fresh = Empty
    BY AppendFields
<1>2. WholeFields(<<>>) /\ Empty.fields = <<>> /\ Empty.block = NoTable
    BY DEF WholeFields, Empty
<1> QED
    BY <1>1, <1>2 DEF CallInv, Running

LEMMA NoCallInv ==
    ASSUME Return
    PROVE  CallInv'
BY DEF Return, NoCall, CallInv, Running, Empty, AllWhole, WholeFields

LEMMA AppendingInv ==
    ASSUME NEW m \in Message, NEW raws \in Seq(Seq(Byte)), Appending(m, raws)
    PROVE  CallInv'
<1>1. CASE raws # <<>> /\ AllValid(raws)
    <2>1. call' = [NoCall EXCEPT !.does = "append", !.into = m, !.todo = raws]
        BY <1>1, Zenon DEF Appending, AllValid
    <2>2. AllWhole(raws, LongestTag)
        <3>1. \A i \in DOMAIN raws : raws[i] \in Seq(Byte) /\ validateRawField(raws[i])
            BY <1>1 DEF AllValid
        <3> QED
            BY <3>1, ValidIsWhole DEF AllWhole
    <2> QED
        BY <1>1, <2>1, <2>2, AppendCall
<1>2. CASE ~(raws # <<>> /\ AllValid(raws))
    <2>1. Return
        BY <1>2, Zenon DEF Appending, AllValid, Return
    <2> QED
        BY <2>1, NoCallInv
<1> QED
    BY <1>1, <1>2

(* A message is freed or left as it is. *)
LEMMA TablesKept ==
    ASSUME TypeOK, TablesHoldFields, StoredWhole,
           \A m \in Message : unknown'[m] \in {unknown[m], Empty},
           \A m \in Message : m \notin defined' => m \notin defined \/ unknown'[m] = Empty
    PROVE  TablesHoldFields' /\ StoredWhole'
<1>1. Empty.block = NoTable /\ Empty.fields = <<>>
    BY DEF Empty
<1>2. DOMAIN Empty.fields = {}
    BY <1>1
<1>3. ASSUME NEW m \in Message
      PROVE  /\ unknown'[m].block = NoTable <=> unknown'[m].fields = <<>>
             /\ m \notin defined' => unknown'[m] = Empty
             /\ \A i \in DOMAIN unknown'[m].fields :
                    WholeField(unknown'[m].fields[i].bytes, LongestTag)
    <2>1. CASE unknown'[m] = unknown[m]
        BY <2>1, Zenon DEF TablesHoldFields, StoredWhole
    <2>2. CASE unknown'[m] = Empty
        BY <2>2, <1>1, <1>2, Zenon
    <2> QED
        BY <2>1, <2>2
<1> QED
    BY <1>3, Zenon DEF TablesHoldFields, StoredWhole

LEMMA CallsStep ==
    ASSUME Typed, CallInv, TablesHoldFields, StoredWhole,
           NEW m \in Message, Calls(m)
    PROVE  CallInv' /\ TablesHoldFields' /\ StoredWhole'
<1> USE DEF Typed
<1>1. /\ unknown \in [Message -> Table]
      /\ \A n \in Message : unknown[n].fields \in Seq(Field)
      /\ defined \subseteq Message
    BY DEF TypeOK, Table
<1>2. \A n \in Message : /\ Bytes(unknown[n].fields) \in Seq(Seq(Byte))
                          /\ AllWhole(Bytes(unknown[n].fields), LongestTag)
    BY <1>1, BytesTyped DEF StoredWhole, WholeFields
<1>3. ASSUME UNCHANGED unknown, defined \subseteq defined'
      PROVE  TablesHoldFields' /\ StoredWhole'
    BY <1>3, TablesKept
<1>4. ASSUME Freed(m)
      PROVE  /\ \A n \in Message : unknown'[n] \in {unknown[n], Empty}
             /\ unknown'[m] = Empty
    BY <1>4, <1>1 DEF Freed
<1>5. Idle /\ (Return \/ UNCHANGED call) => CallInv'
    <2>1. CASE Idle /\ UNCHANGED call
        BY <2>1, NoCallInv DEF Idle, CallInv, Running, Return
    <2> QED
        BY <2>1, NoCallInv
<1>6. CASE Construct(m)
    BY <1>6, <1>3, <1>5 DEF Construct
<1>7. CASE Deinit(m)
    <2>1. \A n \in Message : n \notin defined' => n \notin defined \/ unknown'[n] = Empty
        BY <1>7, <1>4 DEF Deinit
    <2> QED
        BY <1>7, <1>4, <1>5, <2>1, TablesKept DEF Deinit
<1>8. CASE ClearUnknownFields(m)
    BY <1>8, <1>4, <1>5, TablesKept DEF ClearUnknownFields
<1>9. ASSUME NEW raw \in Raw, AppendUnknownRaw(m, raw)
      PROVE  CallInv' /\ TablesHoldFields' /\ StoredWhole'
    BY <1>9, <1>3, AppendingInv, RawTyped DEF AppendUnknownRaw
<1>10. ASSUME NEW then \in Seq(Seq(Byte)), CallClearItems(m, then)
       PROVE  CallInv' /\ TablesHoldFields' /\ StoredWhole'
    <2>1. CASE Appending(m, then)
        BY <1>10, <2>1, <1>3, AppendingInv DEF CallClearItems
    <2>2. CASE call' = [NoCall EXCEPT !.does = "items", !.into = m, !.then = then,
                           !.items = unknown[m].fields]
        <3>1. call' = [does |-> "items", into |-> m, fresh |-> Empty, todo |-> <<>>,
                       items |-> unknown[m].fields, then |-> then, number |-> 0,
                       reuse |-> FALSE, broken |-> FALSE]
            BY <2>2 DEF NoCall
        <3>2. WholeFields(unknown[m].fields) /\ m \in defined' /\ MessageSet
            BY <1>10 DEF CallClearItems, StoredWhole, WholeFields
        <3>3. CallInv'
            BY <3>1, <3>2 DEF CallInv, Running, Empty, AllWhole, WholeFields
        <3> QED
            BY <1>10, <3>3, <1>3 DEF CallClearItems
    <2> QED
        BY <1>10, <2>1, <2>2, Zenon DEF CallClearItems
<1>11. ASSUME NEW other \in Message, MergeFrom(m, other)
       PROVE  CallInv' /\ TablesHoldFields' /\ StoredWhole'
    BY <1>11, <1>2, <1>3, AppendingInv DEF MergeFrom
<1>12. ASSUME NEW other \in Message, CloneOwned(m, other)
       PROVE  CallInv' /\ TablesHoldFields' /\ StoredWhole'
    <2>1. CallInv'
        BY <1>12, <1>2, <1>5, AppendCall DEF CloneOwned
    <2> QED
        BY <1>12, <1>3, <2>1 DEF CloneOwned
<1>13. ASSUME NEW s \in Encoded, CallDecode(m, s)
       PROVE  CallInv' /\ TablesHoldFields' /\ StoredWhole'
    <2>1. call' = [does |-> "decode", into |-> m, fresh |-> Empty,
                   todo |-> ReadMessage(s).fields, items |-> <<>>, then |-> <<>>,
                   number |-> 0, reuse |-> m \in defined, broken |-> ~ReadMessage(s).ok]
        BY <1>13, Zenon DEF CallDecode, NoCall
    <2>2. unknown'[m] = Empty
        BY <1>13, <1>4 DEF CallDecode
    <2>3. AllWhole(ReadMessage(s).fields, LongestTag)
        <3>1. s \in Seq(Byte)
            BY RawAssumption
        <3> QED
            BY <3>1, StreamValid DEF ReadMessage
    <2>4. CallInv'
        BY <2>1, <2>2, <2>3 DEF CallInv, Running, Empty, AllWhole, WholeFields
    <2> QED
        BY <1>13, <1>4, <2>4, TablesKept DEF CallDecode
<1>14. ASSUME NEW number \in Asked, NEW then \in Seq(Seq(Byte)), CallRemove(m, number, then)
       PROVE  CallInv' /\ TablesHoldFields' /\ StoredWhole'
    <2>1. CASE Return
        BY <1>14, <2>1, <1>3, NoCallInv DEF CallRemove
    <2>2. CASE Appending(m, then)
        BY <1>14, <2>2, <1>3, AppendingInv DEF CallRemove
    <2>3. CASE call' = [NoCall EXCEPT !.does = "remove", !.into = m, !.number = number,
                            !.then = then, !.items = unknown[m].fields]
        <3>1. call' = [does |-> "remove", into |-> m, fresh |-> Empty, todo |-> <<>>,
                       items |-> unknown[m].fields, then |-> then, number |-> number,
                       reuse |-> FALSE, broken |-> FALSE]
            BY <2>3 DEF NoCall
        <3>2. WholeFields(unknown[m].fields) /\ m \in defined' /\ unknown' = unknown
            BY <1>14 DEF CallRemove, StoredWhole, WholeFields
        <3>3. CallInv'
            BY <3>1, <3>2 DEF CallInv, Running, Empty, AllWhole, WholeFields
        <3> QED
            BY <1>14, <3>3, <1>3 DEF CallRemove
    <2> QED
        BY <1>14, <2>1, <2>2, <2>3, Zenon DEF CallRemove
<1>15. <<>> \in Seq(Seq(Byte)) /\ \A raw \in Raw : <<raw>> \in Seq(Seq(Byte))
    BY RawTyped
<1> QED
    BY <1>6, <1>7, <1>8, <1>9, <1>10, <1>11, <1>12, <1>13, <1>14, <1>15, Zenon DEF Calls, EncodedValue, EncodedItem

-----------------------------------------------------------------------------
(* Fields taken from one sequence and put behind another stay whole. *)
LEMMA ValidTail ==
    ASSUME NEW fields \in Seq(Field), fields # <<>>, WholeFields(fields)
    PROVE  WholeFields(Tail(fields)) /\ WholeField(Head(fields).bytes, LongestTag)
<1>1. Len(fields) \in Nat /\ Len(fields) >= 1 /\ Len(Tail(fields)) = Len(fields) - 1
    OBVIOUS
<1>2. \A i \in 1 .. Len(fields) - 1 : Tail(fields)[i] = fields[i + 1] /\ i + 1 \in DOMAIN fields
    BY <1>1
<1>3. DOMAIN Tail(fields) = 1 .. Len(fields) - 1 /\ 1 \in DOMAIN fields /\ Head(fields) = fields[1]
    BY <1>1
<1> QED
    BY <1>2, <1>3 DEF WholeFields

LEMMA ValidAppend ==
    ASSUME NEW fields \in Seq(Field), NEW f \in Field,
           WholeFields(fields), WholeField(f.bytes, LongestTag)
    PROVE  WholeFields(Append(fields, f)) /\ Append(fields, f) # <<>>
<1>1. ASSUME NEW i \in DOMAIN Append(fields, f)
      PROVE  Append(fields, f)[i] = f \/ (i \in DOMAIN fields /\ Append(fields, f)[i] = fields[i])
    OBVIOUS
<1>2. Append(fields, f) # <<>>
    BY AppendProperties
<1> QED
    BY <1>1, <1>2 DEF WholeFields

LEMMA ValidConcat ==
    ASSUME NEW s \in Seq(Field), NEW t \in Seq(Field), WholeFields(s), WholeFields(t)
    PROVE  WholeFields(s \o t) /\ (t # <<>> => s \o t # <<>>)
<1>1. Len(s \o t) = Len(s) + Len(t) /\ Len(s) \in Nat /\ Len(t) \in Nat
    OBVIOUS
<1>2. ASSUME NEW i \in DOMAIN (s \o t)
      PROVE  \/ i \in DOMAIN s /\ (s \o t)[i] = s[i]
             \/ i - Len(s) \in DOMAIN t /\ (s \o t)[i] = t[i - Len(s)]
    BY <1>1
<1>3. ASSUME t # <<>> PROVE s \o t # <<>>
    BY <1>1, <1>3
<1> QED
    BY <1>2, <1>3 DEF WholeFields

(* A message gets a new table, and nothing else changes. *)
LEMMA TableSet ==
    ASSUME TypeOK, TablesHoldFields, StoredWhole,
           NEW m \in Message, NEW t,
           unknown' = [unknown EXCEPT ![m] = t],
           t.block = NoTable <=> t.fields = <<>>,
           WholeFields(t.fields),
           m \in defined', defined \subseteq defined'
    PROVE  TablesHoldFields' /\ StoredWhole'
<1>1. \A n \in Message : unknown'[n] = IF n = m THEN t ELSE unknown[n]
    BY DEF TypeOK
<1>2. ASSUME NEW n \in Message
      PROVE  /\ unknown'[n].block = NoTable <=> unknown'[n].fields = <<>>
             /\ n \notin defined' => unknown'[n] = Empty
             /\ \A i \in DOMAIN unknown'[n].fields :
                    WholeField(unknown'[n].fields[i].bytes, LongestTag)
    <2>1. CASE n = m
        BY <1>1, <2>1, Zenon DEF WholeFields
    <2>2. CASE n # m
        BY <1>1, <2>2, Zenon DEF TablesHoldFields, StoredWhole
    <2> QED
        BY <2>1, <2>2
<1> QED
    BY <1>2, Zenon DEF TablesHoldFields, StoredWhole

-----------------------------------------------------------------------------
LEMMA CopyStep ==
    ASSUME Typed, CallInv, TablesHoldFields, StoredWhole, CopyField
    PROVE  CallInv' /\ TablesHoldFields' /\ StoredWhole'
<1> DEFINE f == [block |-> Block, bytes |-> Head(call.todo)]
<1>1. /\ call \in Call /\ call.fresh \in Table /\ call.fresh.fields \in Seq(Field)
      /\ call.todo \in Seq(Seq(Byte)) /\ call.todo # <<>>
      /\ call.does \in {"append", "decode"} /\ call.fresh.block # NoTable
    BY DEF Typed, TypeOK, Call, Table, CopyField, Copying
<1>2. /\ f \in Field /\ f.bytes = Head(call.todo)
      /\ Tail(call.todo) \in Seq(Seq(Byte))
    BY <1>1, FreshBlock DEF Field
<1> HIDE DEF f
<1>3. /\ call'.does = call.does /\ call'.into = call.into /\ call'.items = call.items
      /\ call'.todo = Tail(call.todo)
      /\ call'.fresh.block = call.fresh.block
      /\ call'.fresh.fields = Append(call.fresh.fields, f)
      /\ unknown' = unknown /\ defined' = defined
    BY <1>1 DEF CopyField, Call, Table, f
<1>4. AllWhole(Tail(call.todo), LongestTag) /\ WholeField(Head(call.todo), LongestTag)
    <2>1. AllWhole(call.todo, LongestTag)
        BY DEF CallInv
    <2>2. Len(call.todo) \in Nat /\ Len(call.todo) >= 1
        BY <1>1
    <2>3. \A i \in 1 .. Len(call.todo) - 1 :
              Tail(call.todo)[i] = call.todo[i + 1] /\ i + 1 \in DOMAIN call.todo
        BY <1>1, <2>2
    <2>4. /\ DOMAIN Tail(call.todo) = 1 .. Len(call.todo) - 1
          /\ 1 \in DOMAIN call.todo /\ Head(call.todo) = call.todo[1]
        BY <1>1, <2>2
    <2> QED
        BY <2>1, <2>3, <2>4 DEF AllWhole
<1>5. WholeFields(Append(call.fresh.fields, f)) /\ Append(call.fresh.fields, f) # <<>>
    <2>1. WholeFields(call.fresh.fields)
        BY DEF CallInv
    <2>2. WholeField(f.bytes, LongestTag)
        BY <1>2, <1>4
    <2> QED
        BY <1>1, <1>2, <2>1, <2>2, ValidAppend
<1>6. call.items = <<>> /\ WholeFields(call.items)
    BY <1>1 DEF CallInv
<1>7. call.does = "decode" => unknown[call.into] = Empty
    BY DEF CallInv, Running
<1>8. CallInv'
    BY <1>1, <1>3, <1>4, <1>5, <1>6, <1>7 DEF CallInv, Running
<1> QED
    BY <1>3, <1>8, TablesKept DEF Typed

LEMMA AllocateStep ==
    ASSUME Typed, CallInv, TablesHoldFields, StoredWhole, AllocateTable
    PROVE  CallInv' /\ TablesHoldFields' /\ StoredWhole'
<1>1. call \in Call /\ call.fresh \in Table /\ call.items \in Seq(Field)
    BY DEF Typed, TypeOK, Call
<1>2. Block # NoTable
    BY FreshBlock DEF NoTable
<1>3. /\ call'.does = call.does /\ call'.into = call.into /\ call'.items = call.items
      /\ call'.todo = call.todo /\ call'.number = call.number
      /\ call'.fresh.block = Block
      /\ call'.fresh.fields = call.fresh.fields
      /\ unknown' = unknown /\ defined' = defined
    BY <1>1 DEF AllocateTable, Call, Table
<1>4. KeepsSome' <=> KeepsSome
    BY <1>3 DEF KeepsSome, Verdict, Running
<1>5. Copying' <=> Copying
    BY <1>3 DEF Copying
<1>6. Copying \/ KeepsSome
    <2>1. NextIs("none") => KeepsSome
        BY <1>1 DEF NextIs, KeepsSome
    <2> QED
        BY <2>1 DEF AllocateTable, NeedsTable
<1>7. call.does # "none"
    BY <1>6, NoCallTyped DEF CallInv, Running, Copying, KeepsSome, NoCall
<1>8. CallInv'
    BY <1>2, <1>3, <1>4, <1>5, <1>6, <1>7, Zenon DEF CallInv, Running
<1> QED
    BY <1>3, <1>8, TablesKept DEF Typed

LEMMA AppendedStep ==
    ASSUME Typed, CallInv, TablesHoldFields, StoredWhole, Appended
    PROVE  CallInv' /\ TablesHoldFields' /\ StoredWhole'
<1> DEFINE t == [block |-> call.fresh.block,
                 fields |-> unknown[call.into].fields \o call.fresh.fields]
<1>1. /\ call.into \in Message /\ call.fresh.fields \in Seq(Field)
      /\ unknown[call.into].fields \in Seq(Field)
    BY DEF Typed, TypeOK, Call, Table
<1>2. call.fresh.fields # <<>> /\ call.fresh.block # NoTable
    BY DEF Appended, CallInv
<1>3. WholeFields(unknown[call.into].fields) /\ WholeFields(call.fresh.fields)
    BY <1>1 DEF StoredWhole, WholeFields, CallInv
<1>4. WholeFields(t.fields) /\ t.fields # <<>> /\ t.block # NoTable
    BY <1>1, <1>2, <1>3, ValidConcat
<1>5. unknown' = [unknown EXCEPT ![call.into] = t] /\ defined' = defined \cup {call.into}
    BY DEF Appended
<1> HIDE DEF t
<1> QED
    BY <1>1, <1>4, <1>5, TableSet, NoCallInv DEF Typed, Appended

LEMMA DecodedStep ==
    ASSUME Typed, CallInv, TablesHoldFields, StoredWhole, Decoded
    PROVE  CallInv' /\ TablesHoldFields' /\ StoredWhole'
<1>1. call.into \in Message /\ call.fresh \in Table
    BY DEF Typed, TypeOK, Call
<1>2. call.items = <<>>
    BY DEF Decoded, CallInv, Running
<1>3. ~KeepsSome /\ ~Copying
    BY <1>2 DEF KeepsSome, Copying, Decoded
<1>4. call.fresh.block = NoTable <=> call.fresh.fields = <<>>
    BY <1>3 DEF CallInv
<1>5. WholeFields(call.fresh.fields)
    BY DEF CallInv
<1> QED
    BY <1>1, <1>4, <1>5, TableSet, NoCallInv DEF Typed, Decoded

-----------------------------------------------------------------------------
(* Removal.  What is kept is what remains of it without the head. *)
LEMMA KeptTail ==
    ASSUME call.items \in Seq(Field), call.items # <<>>,
           call'.items = Tail(call.items),
           call'.does = call.does, call'.number = call.number
    PROVE  /\ KeepsSome' => KeepsSome
           /\ KeepsSome => KeepsSome' \/ NextIs("none")
<1> DEFINE items == call.items
<1>1. Len(items) \in Nat /\ Len(items) >= 1
    OBVIOUS
<1>2. \A i \in 1 .. Len(items) - 1 : Tail(items)[i] = items[i + 1] /\ i + 1 \in DOMAIN items
    BY <1>1
<1>3. /\ DOMAIN Tail(items) = 1 .. Len(items) - 1 /\ DOMAIN items = 1 .. Len(items)
      /\ Head(items) = items[1]
    BY <1>1
<1>4. KeepsSome' <=> \E i \in DOMAIN Tail(items) : Verdict(Tail(items)[i]) = "none"
    BY DEF KeepsSome, Verdict, Running
<1>5. KeepsSome <=> \E i \in DOMAIN items : Verdict(items[i]) = "none"
    BY DEF KeepsSome
<1>6. NextIs("none") <=> Verdict(items[1]) = "none"
    BY <1>3 DEF NextIs
<1> HIDE DEF items
<1>7. KeepsSome' => KeepsSome
    BY <1>2, <1>3, <1>4, <1>5
<1>8. ASSUME KeepsSome, Verdict(items[1]) # "none"
      PROVE  KeepsSome'
    <2>1. PICK i \in DOMAIN items : Verdict(items[i]) = "none"
        BY <1>5, <1>8
    <2>2. i \in 1 .. Len(items) /\ i # 1
        BY <2>1, <1>3, <1>8
    <2>3. i - 1 \in 1 .. Len(items) - 1 /\ Tail(items)[i - 1] = items[(i - 1) + 1]
        BY <1>1, <1>2, <2>2
    <2>4. Tail(items)[i - 1] = items[i]
        BY <2>2, <2>3
    <2> QED
        BY <1>3, <1>4, <2>1, <2>3, <2>4
<1> QED
    BY <1>6, <1>7, <1>8

LEMMA FreeStep ==
    ASSUME Typed, CallInv, TablesHoldFields, StoredWhole, FreeField
    PROVE  CallInv' /\ TablesHoldFields' /\ StoredWhole'
<1>1. /\ call \in Call /\ call.items \in Seq(Field) /\ call.items # <<>>
      /\ call.does \in {"remove", "items"}
    BY DEF Typed, TypeOK, Call, FreeField, NextIs, CallInv
<1>2. /\ call'.does = call.does /\ call'.into = call.into /\ call'.items = Tail(call.items)
      /\ call'.todo = call.todo /\ call'.number = call.number
      /\ call'.fresh = call.fresh
      /\ unknown' = unknown /\ defined' = defined
    BY <1>1 DEF FreeField, Call
<1>3. KeepsSome' <=> KeepsSome
    <2>1. ~NextIs("none")
        BY DEF FreeField, NextIs
    <2> QED
        BY <1>1, <1>2, <2>1, KeptTail, Zenon
<1>4. Copying' <=> Copying
    BY <1>2 DEF Copying
<1>5. ~(Running("remove") /\ call.fresh.block = NoTable /\ KeepsSome)
    BY DEF FreeField, NeedsTable
<1>6. WholeFields(Tail(call.items))
    BY <1>1, ValidTail DEF CallInv
<1>7. CallInv'
    BY <1>1, <1>2, <1>3, <1>4, <1>5, <1>6, Zenon DEF CallInv, Running
<1> QED
    BY <1>2, <1>7, TablesKept DEF Typed

LEMMA KeepStep ==
    ASSUME Typed, CallInv, TablesHoldFields, StoredWhole, KeepField
    PROVE  /\ CallInv' /\ TablesHoldFields' /\ StoredWhole'
           /\ call.fresh.block # NoTable
<1> DEFINE f == Head(call.items)
           more == Append(call.fresh.fields, f)
<1>1. /\ call \in Call /\ call.items \in Seq(Field) /\ call.items # <<>>
      /\ call.fresh \in Table /\ call.fresh.fields \in Seq(Field)
      /\ call.does \in {"remove", "items"}
    BY DEF Typed, TypeOK, Call, Table, KeepField, NextIs, CallInv
<1>2. /\ call'.does = call.does /\ call'.into = call.into /\ call'.items = Tail(call.items)
      /\ call'.todo = call.todo /\ call'.number = call.number
      /\ call'.fresh.block = call.fresh.block
      /\ call'.fresh.fields = more
      /\ unknown' = unknown /\ defined' = defined
    BY <1>1 DEF KeepField, Call, Table
<1>3. f \in Field
    BY <1>1
<1>4. WholeFields(Tail(call.items)) /\ WholeFields(more) /\ more # <<>>
    BY <1>1, <1>3, ValidTail, ValidAppend DEF CallInv
<1>5. call.fresh.block # NoTable
    <2>1. KeepsSome
        BY <1>1 DEF KeepField, NextIs, KeepsSome
    <2> QED
        BY <1>1, <2>1 DEF KeepField, NeedsTable, Running
<1> HIDE DEF more
<1>6. CallInv'
    BY <1>1, <1>2, <1>3, <1>4, <1>5, Zenon DEF CallInv, Running
<1> QED
    BY <1>2, <1>5, <1>6, TablesKept DEF Typed

LEMMA ClearedStep ==
    ASSUME Typed, CallInv, TablesHoldFields, StoredWhole, Cleared
    PROVE  CallInv' /\ TablesHoldFields' /\ StoredWhole'
<1>1. call.into \in Message /\ call.fresh \in Table /\ call.then \in Seq(Seq(Byte))
    BY DEF Typed, TypeOK, Call
<1>2. ~KeepsSome /\ ~Copying
    BY DEF Cleared, KeepsSome, Copying
<1>3. call.fresh.block = NoTable <=> call.fresh.fields = <<>>
    BY <1>2 DEF CallInv
<1>4. WholeFields(call.fresh.fields) /\ call.into \in defined
    BY DEF CallInv, Cleared
<1> QED
    BY <1>1, <1>3, <1>4, TableSet, AppendingInv DEF Typed, Cleared

LEMMA FailsStep ==
    ASSUME Typed, CallInv, TablesHoldFields, StoredWhole, Fails
    PROVE  CallInv' /\ TablesHoldFields' /\ StoredWhole'
<1>1. \A m \in Message : m \notin defined' => m \notin defined \/ unknown'[m] = Empty
    BY DEF Fails, CallInv
<1> QED
    BY <1>1, TablesKept, NoCallInv DEF Typed, Fails

-----------------------------------------------------------------------------
(* The inductive invariant: types, finitely many blocks, what a call has   *)
(* established so far, tables of fields, and whole fields in them.         *)
THEOREM Invariance == Spec => []IInv
<1>1. Init => IInv
    <2>1. SUFFICES ASSUME Init PROVE IInv
        OBVIOUS
    <2>3. Typed
        BY <2>1, NoCallTyped, FS_EmptySet DEF Init, Typed, TypeOK
    <2>4. CallInv
        BY <2>1 DEF Init, NoCall, CallInv, Running, Empty, AllWhole, WholeFields
    <2>5. TablesHoldFields /\ StoredWhole
        BY <2>1 DEF Init, TablesHoldFields, StoredWhole, Empty
    <2> QED
        BY <2>3, <2>4, <2>5 DEF IInv
<1>2. IInv /\ [Next]_vars => IInv'
    <2>1. SUFFICES ASSUME IInv, [Next]_vars PROVE IInv'
        OBVIOUS
    <2>2. Typed'
        BY <2>1, TypeStep DEF IInv
    <2>3. CallInv' /\ TablesHoldFields' /\ StoredWhole'
        <3>1. CASE UNCHANGED vars
            BY <2>1, <3>1 DEF vars, IInv, CallInv, TablesHoldFields, StoredWhole,
                Running, Copying, KeepsSome, Verdict
        <3>2. CASE Next
            BY <2>1, <3>2, CallsStep, AllocateStep, CopyStep, AppendedStep, DecodedStep,
                FreeStep, KeepStep, ClearedStep, FailsStep, Zenon
                DEF IInv, Next, OutOfMemory, BadInput
        <3> QED
            BY <2>1, <3>1, <3>2
    <2> QED
        BY <2>2, <2>3 DEF IInv
<1> QED
    BY <1>1, <1>2, PTL DEF Spec

-----------------------------------------------------------------------------
(* Ownership.  First, what a table owns. *)
LEMMA OwnedByEmpty == Owned(Empty) = {} /\ Distinct(Empty)
<1>1. Empty.fields = <<>> /\ Empty.block = NoTable
    BY DEF Empty
<1>2. DOMAIN Empty.fields = {}
    BY <1>1
<1> QED
    BY <1>1, <1>2 DEF Owned, Distinct, FieldBlocks

LEMMA OwnedByTail ==
    ASSUME NEW t \in Table, t.fields # <<>>, Distinct(t),
           NEW u, u.block = t.block, u.fields = Tail(t.fields)
    PROVE  /\ FieldBlocks(t) = FieldBlocks(u) \cup {Head(t.fields).block}
           /\ Head(t.fields).block \notin FieldBlocks(u) \cup {t.block}
           /\ Distinct(u)
<1> DEFINE n == Len(t.fields)
<1>1. t.fields \in Seq(Field) /\ n \in Nat /\ n >= 1
    BY DEF Table
<1>2. /\ \A i \in 1 .. n - 1 : u.fields[i] = t.fields[i + 1] /\ i + 1 \in 1 .. n
      /\ DOMAIN u.fields = 1 .. n - 1 /\ DOMAIN t.fields = 1 .. n
      /\ Head(t.fields) = t.fields[1]
    BY <1>1
<1>3. \A i \in 1 .. n : i = 1 \/ (i - 1 \in 1 .. n - 1 /\ u.fields[i - 1] = t.fields[i])
    <2>1. TAKE i \in 1 .. n
    <2>2. CASE i # 1
        <3>1. i - 1 \in 1 .. n - 1 /\ (i - 1) + 1 = i
            BY <1>1, <2>2
        <3> QED
            BY <1>2, <3>1
    <2> QED
        BY <2>2
<1> HIDE DEF n
<1>4. FieldBlocks(u) = {t.fields[i + 1].block : i \in 1 .. n - 1}
    BY <1>2 DEF FieldBlocks
<1>5. FieldBlocks(t) = {t.fields[i].block : i \in 1 .. n}
    BY <1>2 DEF FieldBlocks
<1>6. FieldBlocks(t) = FieldBlocks(u) \cup {t.fields[1].block}
    <2>1. \A i \in 1 .. n : t.fields[i].block \in FieldBlocks(u) \cup {t.fields[1].block}
        <3>1. TAKE i \in 1 .. n
        <3>2. CASE i - 1 \in 1 .. n - 1 /\ u.fields[i - 1] = t.fields[i]
            BY <1>2, <3>2 DEF FieldBlocks
        <3> QED
            BY <1>3, <3>2
    <2>2. FieldBlocks(u) \subseteq FieldBlocks(t)
        BY <1>2, <1>4, <1>5
    <2>3. t.fields[1].block \in FieldBlocks(t)
        BY <1>1, <1>5
    <2>4. FieldBlocks(t) \subseteq FieldBlocks(u) \cup {t.fields[1].block}
        BY <1>5, <2>1
    <2> QED
        BY <2>2, <2>3, <2>4
<1>7. t.fields[1].block \notin FieldBlocks(u)
    <2>1. \A i \in 1 .. n - 1 : t.fields[i + 1].block # t.fields[1].block
        <3>1. TAKE i \in 1 .. n - 1
        <3>2. i + 1 \in 1 .. n /\ 1 \in 1 .. n /\ i + 1 # 1
            BY <1>1, <1>2
        <3> QED
            BY <1>2, <3>2 DEF Distinct
    <2> QED
        BY <1>4, <2>1
<1>8. t.fields[1].block # t.block
    BY <1>5, <1>6 DEF Distinct
<1>9. Distinct(u)
    <2>1. u.block \notin FieldBlocks(u)
        BY <1>6 DEF Distinct
    <2>2. \A i, j \in 1 .. n - 1 : u.fields[i].block = u.fields[j].block => i = j
        <3>1. TAKE i, j \in 1 .. n - 1
        <3>2. i + 1 \in 1 .. n /\ j + 1 \in 1 .. n
            BY <1>2
        <3>3. t.fields[i + 1].block = t.fields[j + 1].block => i + 1 = j + 1
            BY <1>2, <3>2 DEF Distinct
        <3>4. i + 1 = j + 1 => i = j
            OBVIOUS
        <3> QED
            BY <1>2, <3>3, <3>4, Zenon
    <2> QED
        BY <1>2, <2>1, <2>2 DEF Distinct
<1> QED
    BY <1>2, <1>6, <1>7, <1>8, <1>9

LEMMA OwnedByConcat ==
    ASSUME NEW s \in Table, NEW t \in Table, NEW u,
           u.fields = s.fields \o t.fields,
           u.block \notin FieldBlocks(s), u.block \notin FieldBlocks(t),
           Distinct(s), Distinct(t), FieldBlocks(s) \cap FieldBlocks(t) = {}
    PROVE  FieldBlocks(u) = FieldBlocks(s) \cup FieldBlocks(t) /\ Distinct(u)
<1> DEFINE k == Len(s.fields)
           n == Len(t.fields)
<1>1. s.fields \in Seq(Field) /\ t.fields \in Seq(Field) /\ k \in Nat /\ n \in Nat
    BY DEF Table
<1>2. /\ u.fields \in Seq(Field) /\ Len(u.fields) = k + n
      /\ \A i \in 1 .. k : u.fields[i] = s.fields[i]
      /\ \A i \in 1 .. n : u.fields[k + i] = t.fields[i]
    <2>1. /\ u.fields \in Seq(Field) /\ Len(u.fields) = k + n
          /\ \A i \in 1 .. k + n :
                u.fields[i] = IF i <= k THEN s.fields[i] ELSE t.fields[i - k]
        <3>1. /\ s.fields \o t.fields \in Seq(Field)
              /\ Len(s.fields \o t.fields) = Len(s.fields) + Len(t.fields)
              /\ \A i \in 1 .. Len(s.fields) + Len(t.fields) :
                    (s.fields \o t.fields)[i] = IF i <= Len(s.fields) THEN s.fields[i]
                                               ELSE t.fields[i - Len(s.fields)]
            <4>1. \A p \in Seq(Field), q \in Seq(Field) :
                    /\ p \o q \in Seq(Field) /\ Len(p \o q) = Len(p) + Len(q)
                    /\ \A i \in 1 .. Len(p) + Len(q) :
                          (p \o q)[i] = IF i <= Len(p) THEN p[i] ELSE q[i - Len(p)]
                BY ConcatProperties
            <4> QED
                BY <1>1, <4>1, Zenon
        <3> QED
            BY <3>1, Zenon
    <2> HIDE DEF k, n
    <2>2. \A i \in 1 .. k : i \in 1 .. k + n /\ i <= k
        BY <1>1
    <2>3. \A i \in 1 .. n : k + i \in 1 .. k + n /\ ~(k + i <= k) /\ (k + i) - k = i
        BY <1>1
    <2> QED
        BY <2>1, <2>2, <2>3, Zenon
<1>3. DOMAIN u.fields = 1 .. k + n /\ DOMAIN s.fields = 1 .. k /\ DOMAIN t.fields = 1 .. n
    BY <1>1, <1>2
<1> HIDE DEF k, n
<1>4. /\ \A i \in 1 .. k : i \in 1 .. k + n
      /\ \A i \in 1 .. n : k + i \in 1 .. k + n
      /\ \A i \in 1 .. k + n : i \in 1 .. k \/ \E p \in 1 .. n : i = k + p
    <2>1. ASSUME NEW i \in 1 .. k + n, i \notin 1 .. k
          PROVE  i - k \in 1 .. n /\ i = k + (i - k)
        BY <1>1, <2>1
    <2> QED
        BY <1>1, <2>1
<1>5. FieldBlocks(u) = FieldBlocks(s) \cup FieldBlocks(t)
    <2>1. \A i \in 1 .. k + n : u.fields[i].block \in FieldBlocks(s) \cup FieldBlocks(t)
        <3>1. TAKE i \in 1 .. k + n
        <3>2. CASE i \in 1 .. k
            BY <1>2, <1>3, <3>2 DEF FieldBlocks
        <3>3. ASSUME NEW p \in 1 .. n, i = k + p
              PROVE  u.fields[i].block \in FieldBlocks(t)
            BY <1>2, <1>3, <3>3 DEF FieldBlocks
        <3> QED
            BY <1>4, <3>2, <3>3
    <2>2. \A i \in 1 .. k : s.fields[i].block \in FieldBlocks(u)
        BY <1>2, <1>3, <1>4 DEF FieldBlocks
    <2>3. \A i \in 1 .. n : t.fields[i].block \in FieldBlocks(u)
        <3>1. TAKE i \in 1 .. n
        <3>2. k + i \in DOMAIN u.fields /\ u.fields[k + i] = t.fields[i]
            BY <1>2, <1>3, <1>4
        <3> QED
            BY <3>2 DEF FieldBlocks
    <2>4. FieldBlocks(u) = {u.fields[i].block : i \in 1 .. k + n}
        BY <1>3, Zenon DEF FieldBlocks
    <2>5. /\ FieldBlocks(s) = {s.fields[i].block : i \in 1 .. k}
          /\ FieldBlocks(t) = {t.fields[i].block : i \in 1 .. n}
        BY <1>3, Zenon DEF FieldBlocks
    <2>6. \A b \in FieldBlocks(s) \cup FieldBlocks(t) : b \in FieldBlocks(u)
        BY <2>2, <2>3, <2>5, Zenon
    <2>7. \A b \in FieldBlocks(u) : b \in FieldBlocks(s) \cup FieldBlocks(t)
        BY <2>1, <2>4, Zenon
    <2> QED
        BY <2>6, <2>7, Zenon
<1>6. /\ \A i, j \in 1 .. k : s.fields[i].block = s.fields[j].block => i = j
      /\ \A i, j \in 1 .. n : t.fields[i].block = t.fields[j].block => i = j
      /\ \A i \in 1 .. k, j \in 1 .. n : s.fields[i].block # t.fields[j].block
    <2>1. \A i \in 1 .. k : s.fields[i].block \in FieldBlocks(s)
        BY <1>3 DEF FieldBlocks
    <2>2. \A i \in 1 .. n : t.fields[i].block \in FieldBlocks(t)
        BY <1>3 DEF FieldBlocks
    <2>3. \A i \in 1 .. k, j \in 1 .. n : s.fields[i].block # t.fields[j].block
        BY <2>1, <2>2
    <2>4. \A i, j \in 1 .. k : s.fields[i].block = s.fields[j].block => i = j
        BY <1>3, Zenon DEF Distinct
    <2>5. \A i, j \in 1 .. n : t.fields[i].block = t.fields[j].block => i = j
        BY <1>3, Zenon DEF Distinct
    <2> QED
        BY <2>3, <2>4, <2>5, Zenon
<1>7. ASSUME NEW i \in 1 .. k + n, NEW j \in 1 .. k + n,
             u.fields[i].block = u.fields[j].block
      PROVE  i = j
    <2>1. CASE i \in 1 .. k /\ j \in 1 .. k
        BY <1>2, <1>6, <1>7, <2>1
    <2>2. ASSUME NEW p \in 1 .. n, j = k + p, i \in 1 .. k
          PROVE  FALSE
        <3>1. u.fields[i] = s.fields[i] /\ u.fields[j] = t.fields[p]
            BY <1>2, <2>2
        <3> QED
            BY <1>6, <1>7, <2>2, <3>1, Zenon
    <2>3. ASSUME NEW p \in 1 .. n, i = k + p, j \in 1 .. k
          PROVE  FALSE
        <3>1. u.fields[j] = s.fields[j] /\ u.fields[i] = t.fields[p]
            BY <1>2, <2>3
        <3> QED
            BY <1>6, <1>7, <2>3, <3>1, Zenon
    <2>4. ASSUME NEW p \in 1 .. n, NEW q \in 1 .. n, i = k + p, j = k + q
          PROVE  i = j
        <3>1. u.fields[i] = t.fields[p] /\ u.fields[j] = t.fields[q]
            BY <1>2, <2>4, Zenon
        <3>2. p = q
            BY <1>6, <1>7, <3>1, Zenon
        <3> QED
            BY <2>4, <3>2, Zenon
    <2> QED
        BY <1>4, <2>1, <2>2, <2>3, <2>4
<1> QED
    BY <1>3, <1>5, <1>7 DEF Distinct

LEMMA OwnedByAppend ==
    ASSUME NEW t \in Table, NEW f \in Field, Distinct(t),
           f.block \notin FieldBlocks(t), f.block # t.block,
           NEW u, u.block = t.block, u.fields = Append(t.fields, f)
    PROVE  FieldBlocks(u) = FieldBlocks(t) \cup {f.block} /\ Distinct(u)
<1> DEFINE one == [block |-> t.block, fields |-> <<f>>]
<1>1. t.fields \in Seq(Field) /\ t.block \in Nat
    BY DEF Table
<1>2. one \in Table /\ one.fields = <<f>> /\ one.block = t.block
    BY <1>1 DEF Table
<1>3. DOMAIN one.fields = {1} /\ one.fields[1] = f
    BY <1>2
<1>4. FieldBlocks(one) = {f.block}
    BY <1>3 DEF FieldBlocks
<1>5. Distinct(one)
    BY <1>2, <1>3, <1>4 DEF Distinct
<1>6. u.fields = t.fields \o one.fields
    BY <1>1, <1>2, AppendIsConcat
<1>7. /\ u.block \notin FieldBlocks(t) /\ u.block \notin FieldBlocks(one)
      /\ FieldBlocks(t) \cap FieldBlocks(one) = {}
    BY <1>4 DEF Distinct
<1> HIDE DEF one
<1> QED
    <2>1. FieldBlocks(u) = FieldBlocks(t) \cup FieldBlocks(one) /\ Distinct(u)
        BY <1>2, <1>5, <1>6, <1>7, OwnedByConcat, Zenon
    <2> QED
        BY <1>4, <2>1

-----------------------------------------------------------------------------
TheCall == <<"call", Some>>

LEMMA Holders ==
    /\ TheCall \in Holder /\ \A m \in Message : <<"message", m>> \in Holder /\ <<"message", m>> # TheCall
    /\ \A h \in Holder : h = TheCall \/ \E m \in Message : h = <<"message", m>>
    /\ \A m, n \in Message : <<"message", m>> = <<"message", n>> => m = n
    /\ Held(TheCall) = call.fresh /\ Held(TheCall)' = call'.fresh
    /\ \A m \in Message :
          /\ Held(<<"message", m>>) =
                IF m = call.into /\ call.does \in {"remove", "items"}
                THEN [unknown[m] EXCEPT !.fields = call.items] ELSE unknown[m]
          /\ Held(<<"message", m>>)' =
                IF m = call'.into /\ call'.does \in {"remove", "items"}
                THEN [unknown'[m] EXCEPT !.fields = call'.items] ELSE unknown'[m]
BY DEF Holder, Held, TheCall

(* The rule of every step: what a message and the call hold between them   *)
(* is freed, kept or new, and is again held once.                          *)
LEMMA Exchange ==
    ASSUME OwnedOnce, NEW m \in Message, NEW t, NEW u,
           Held(<<"message", m>>)' = t, Held(TheCall)' = u,
           \A n \in Message : n # m => Held(<<"message", n>>)' = Held(<<"message", n>>),
           Distinct(t), Distinct(u), Owned(t) \cap Owned(u) = {},
           (Owned(t) \cup Owned(u)) \cap heap
               \subseteq Owned(Held(<<"message", m>>)) \cup Owned(Held(TheCall)),
           heap' = (heap \ (Owned(Held(<<"message", m>>)) \cup Owned(Held(TheCall))))
                       \cup Owned(t) \cup Owned(u)
    PROVE  OwnedOnce'
<1> DEFINE x == <<"message", m>>
           old == Owned(Held(x)) \cup Owned(Held(TheCall))
<1>1. x \in Holder /\ TheCall \in Holder /\ x # TheCall
    BY Holders
<1>2. \A h \in Holder : h # x /\ h # TheCall => Held(h)' = Held(h)
    BY Holders
<1> HIDE DEF x
<1>3. old \subseteq heap /\ \A h \in Holder : h # x /\ h # TheCall => Owned(Held(h)) \cap old = {}
    BY <1>1 DEF OwnedOnce
<1>4. ASSUME NEW h \in Holder, h # x, h # TheCall
      PROVE  /\ Held(h)' = Held(h) /\ Distinct(Held(h))
             /\ Owned(Held(h)) \subseteq heap'
             /\ Owned(Held(h)) \cap (Owned(t) \cup Owned(u)) = {}
    <2>1. Distinct(Held(h)) /\ Owned(Held(h)) \subseteq heap /\ Owned(Held(h)) \cap old = {}
        BY <1>3, <1>4 DEF OwnedOnce
    <2> QED
        BY <1>2, <1>4, <2>1 DEF x
<1>5. \A h \in Holder : Distinct(Held(h)') /\ Owned(Held(h)') \subseteq heap'
    BY <1>4 DEF x
<1>6. \A g, h \in Holder : g # h => Owned(Held(g)') \cap Owned(Held(h)') = {}
    <2>1. TAKE g, h \in Holder
    <2>2. CASE g \notin {x, TheCall} /\ h \notin {x, TheCall}
        BY <1>4, <2>2 DEF OwnedOnce
    <2>3. CASE g \in {x, TheCall} /\ h \in {x, TheCall}
        BY <2>3 DEF x
    <2>4. CASE g \in {x, TheCall} /\ h \notin {x, TheCall}
        BY <1>4, <2>4 DEF x
    <2>5. CASE g \notin {x, TheCall} /\ h \in {x, TheCall}
        BY <1>4, <2>5 DEF x
    <2> QED
        BY <2>2, <2>3, <2>4, <2>5
<1>7. ASSUME NEW b \in heap'
      PROVE  \E h \in Holder : b \in Owned(Held(h)')
    <2>1. CASE b \in Owned(t) \cup Owned(u)
        BY <1>1, <2>1 DEF x
    <2>2. CASE b \in heap \ old
        <3>1. PICK h \in Holder : b \in Owned(Held(h))
            BY <2>2 DEF OwnedOnce
        <3>2. h # x /\ h # TheCall
            BY <2>2, <3>1
        <3> QED
            BY <1>4, <3>1, <3>2
    <2> QED
        BY <2>1, <2>2 DEF x
<1> QED
    BY <1>5, <1>6, <1>7 DEF OwnedOnce, Owned, Distinct, FieldBlocks

-----------------------------------------------------------------------------
LEMMA BlocksOwned ==
    ASSUME NEW t \in Table, t.block = NoTable <=> t.fields = <<>>
    PROVE  Blocks(t) = Owned(t)
<1>1. t.fields = <<>> => FieldBlocks(t) = {}
    BY DEF FieldBlocks
<1> QED
    BY <1>1 DEF Blocks, Owned

LEMMA IdleHolders ==
    ASSUME Typed, CallInv, Idle
    PROVE  /\ call.fresh = Empty /\ Held(TheCall) = Empty
           /\ \A n \in Message : Held(<<"message", n>>) = unknown[n]
<1>1. call.does = "none" /\ call.fresh = Empty
    BY DEF Idle, CallInv, Running, NoCall
<1> QED
    BY <1>1, Holders

LEMMA SameHolders ==
    ASSUME OwnedOnce, UNCHANGED heap, \A h \in Holder : Held(h)' = Held(h)
    PROVE  OwnedOnce'
<1>1. /\ \A h \in Holder : Distinct(Held(h)') /\ Owned(Held(h)') \subseteq heap'
      /\ \A g, h \in Holder : g # h => Owned(Held(g)') \cap Owned(Held(h)') = {}
      /\ \A b \in heap' : \E h \in Holder : b \in Owned(Held(h)')
    BY DEF OwnedOnce
<1> QED
    BY <1>1 DEF OwnedOnce, Owned, Distinct, FieldBlocks

(* A call starts with what its message has. *)
LEMMA StartKeeps ==
    ASSUME Typed, CallInv, OwnedOnce, Idle,
           UNCHANGED <<heap, unknown>>, call'.fresh = Empty,
           call'.does \in {"remove", "items"} => call'.items = unknown[call'.into].fields
    PROVE  OwnedOnce'
<1>1. \A n \in Message : [unknown[n] EXCEPT !.fields = unknown[n].fields] = unknown[n]
    BY DEF Typed, TypeOK, Table
<1>2. \A n \in Message : Held(<<"message", n>>)' = Held(<<"message", n>>)
    <2>1. TAKE n \in Message
    <2>2. /\ Held(<<"message", n>>) = unknown[n]
          /\ Held(<<"message", n>>)' =
                IF n = call'.into /\ call'.does \in {"remove", "items"}
                THEN [unknown'[n] EXCEPT !.fields = call'.items] ELSE unknown'[n]
        BY Holders, IdleHolders, Zenon
    <2>3. CASE n = call'.into /\ call'.does \in {"remove", "items"}
        <3>1. unknown' = unknown /\ call'.items = unknown[n].fields
            BY <2>3
        <3> QED
            BY <1>1, <2>2, <2>3, <3>1, Zenon
    <2>4. CASE ~(n = call'.into /\ call'.does \in {"remove", "items"})
        BY <2>2, <2>4
    <2> QED
        BY <2>3, <2>4
<1>3. Held(TheCall)' = Held(TheCall)
    BY Holders, IdleHolders, Zenon
<1>4. \A h \in Holder : Held(h)' = Held(h)
    BY <1>2, <1>3, Holders, Zenon
<1> QED
    BY <1>4, SameHolders

(* A message is freed before anything else is done. *)
LEMMA FreedKeeps ==
    ASSUME Typed, CallInv, TablesHoldFields, OwnedOnce, Idle, NEW m \in Message, Freed(m),
           call'.fresh = Empty, call'.does \notin {"remove", "items"}
    PROVE  OwnedOnce'
<1>1. /\ \A n \in Message : unknown'[n] = IF n = m THEN Empty ELSE unknown[n]
      /\ unknown[m] \in Table
    BY DEF Typed, TypeOK, Freed
<1>2. /\ Held(TheCall) = Empty /\ Held(TheCall)' = Empty
      /\ \A n \in Message : /\ Held(<<"message", n>>) = unknown[n]
                            /\ Held(<<"message", n>>)' = unknown'[n]
    BY Holders, IdleHolders
<1>3. heap' = heap \ Owned(unknown[m])
    BY <1>1, BlocksOwned DEF Freed, TablesHoldFields
<1>4. /\ Held(<<"message", m>>) = unknown[m] /\ Held(<<"message", m>>)' = Empty
      /\ \A n \in Message : n # m => Held(<<"message", n>>)' = Held(<<"message", n>>)
    BY <1>1, <1>2, Zenon
<1>5. Owned(Empty) = {} /\ Distinct(Empty)
    BY OwnedByEmpty
<1>6. /\ Owned(Empty) \cap Owned(Empty) = {}
      /\ (Owned(Empty) \cup Owned(Empty)) \cap heap
            \subseteq Owned(Held(<<"message", m>>)) \cup Owned(Held(TheCall))
      /\ heap' = (heap \ (Owned(Held(<<"message", m>>)) \cup Owned(Held(TheCall))))
                     \cup Owned(Empty) \cup Owned(Empty)
    BY <1>2, <1>3, <1>4, <1>5
<1> QED
    BY <1>2, <1>4, <1>5, <1>6, Exchange, Zenon

LEMMA AppendingHolds ==
    ASSUME NEW m, NEW raws, Appending(m, raws)
    PROVE  call'.fresh = Empty /\ call'.does \notin {"remove", "items"}
BY DEF Appending, NoCall

LEMMA CallsKeep ==
    ASSUME Typed, CallInv, TablesHoldFields, OwnedOnce, NEW m \in Message, Calls(m)
    PROVE  OwnedOnce'
<1>1. Idle => call.fresh = Empty /\ call.does = "none"
    BY IdleHolders DEF Idle
<1>2. /\ Return => call'.fresh = Empty /\ call'.does \notin {"remove", "items"}
      /\ Idle /\ UNCHANGED call => call'.fresh = Empty /\ call'.does \notin {"remove", "items"}
    BY <1>1 DEF Return, NoCall
<1>3. CASE Construct(m)
    BY <1>3, <1>2, StartKeeps DEF Construct
<1>4. CASE Deinit(m)
    BY <1>4, <1>2, FreedKeeps DEF Deinit
<1>5. CASE ClearUnknownFields(m)
    BY <1>5, <1>2, FreedKeeps DEF ClearUnknownFields
<1>6. ASSUME NEW raw \in Raw, AppendUnknownRaw(m, raw)
      PROVE  OwnedOnce'
    BY <1>6, AppendingHolds, StartKeeps DEF AppendUnknownRaw
<1>7. ASSUME NEW other \in Message, MergeFrom(m, other)
      PROVE  OwnedOnce'
    BY <1>7, AppendingHolds, StartKeeps DEF MergeFrom
<1>8. ASSUME NEW other \in Message, CloneOwned(m, other)
      PROVE  OwnedOnce'
    <2>1. call'.fresh = Empty /\ call'.does \notin {"remove", "items"}
        BY <1>8, <1>2 DEF CloneOwned, NoCall
    <2> QED
        BY <1>8, <2>1, StartKeeps DEF CloneOwned
<1>9. ASSUME NEW s \in Encoded, CallDecode(m, s)
      PROVE  OwnedOnce'
    <2>1. call'.fresh = Empty /\ call'.does = "decode"
        BY <1>9 DEF CallDecode, NoCall
    <2> QED
        BY <1>9, <2>1, FreedKeeps DEF CallDecode
<1>10. ASSUME NEW number \in Asked, NEW then, CallRemove(m, number, then)
       PROVE  OwnedOnce'
    <2>1. CASE call' = [NoCall EXCEPT !.does = "remove", !.into = m, !.number = number,
                            !.then = then, !.items = unknown[m].fields]
        <3>1. call'.fresh = Empty /\ call'.into = m /\ call'.items = unknown[m].fields
            BY <2>1 DEF NoCall
        <3> QED
            BY <1>10, <3>1, StartKeeps DEF CallRemove
    <2>2. CASE Return \/ Appending(m, then)
        BY <1>10, <2>2, <1>2, AppendingHolds, StartKeeps DEF CallRemove
    <2> QED
        BY <1>10, <2>1, <2>2, Zenon DEF CallRemove
<1>11. ASSUME NEW then, CallClearItems(m, then)
       PROVE  OwnedOnce'
    <2>1. CASE call' = [NoCall EXCEPT !.does = "items", !.into = m, !.then = then,
                           !.items = unknown[m].fields]
        <3>1. call'.fresh = Empty /\ call'.into = m /\ call'.items = unknown[m].fields
            BY <2>1 DEF NoCall
        <3> QED
            BY <1>11, <3>1, StartKeeps DEF CallClearItems
    <2>2. CASE Appending(m, then)
        BY <1>11, <2>2, AppendingHolds, StartKeeps DEF CallClearItems
    <2> QED
        BY <1>11, <2>1, <2>2, Zenon DEF CallClearItems
<1> QED
    BY <1>3, <1>4, <1>5, <1>6, <1>7, <1>8, <1>9, <1>10, <1>11, Zenon DEF Calls, EncodedValue, EncodedItem

-----------------------------------------------------------------------------
(* The steps of a call, each an exchange between its message and the call. *)
TheMessage == <<"message", call.into>>

LEMMA Pair ==
    ASSUME Typed, OwnedOnce
    PROVE  /\ call.into \in Message /\ unknown[call.into] \in Table
           /\ call.fresh \in Table /\ Held(TheCall) = call.fresh /\ Held(TheMessage) \in Table
           /\ Distinct(Held(TheMessage)) /\ Owned(Held(TheMessage)) \subseteq heap
           /\ Distinct(call.fresh) /\ Owned(call.fresh) \subseteq heap
           /\ Owned(Held(TheMessage)) \cap Owned(call.fresh) = {}
           /\ NoTable \notin heap
<1>1. /\ call.into \in Message /\ unknown[call.into] \in Table /\ call.fresh \in Table
      /\ call.items \in Seq(Field) /\ NoTable \notin heap
    BY DEF Typed, TypeOK, Call, NoTable
<1>2. TheMessage \in Holder /\ TheCall \in Holder /\ TheMessage # TheCall
    BY <1>1, Holders DEF TheMessage
<1>3. [unknown[call.into] EXCEPT !.fields = call.items] \in Table
    BY <1>1 DEF Table
<1>4. Held(TheMessage) \in Table /\ Held(TheCall) = call.fresh
    BY <1>1, <1>3, Holders, Zenon DEF TheMessage
<1> QED
    BY <1>1, <1>2, <1>4 DEF OwnedOnce

LEMMA SameMessage ==
    ASSUME Typed, UNCHANGED unknown, call'.does = call.does, call'.into = call.into,
           call'.items = call.items
    PROVE  \A n \in Message : Held(<<"message", n>>)' = Held(<<"message", n>>)
<1>1. TAKE n \in Message
<1>2. /\ Held(<<"message", n>>) =
            IF n = call.into /\ call.does \in {"remove", "items"}
            THEN [unknown[n] EXCEPT !.fields = call.items] ELSE unknown[n]
      /\ Held(<<"message", n>>)' =
            IF n = call'.into /\ call'.does \in {"remove", "items"}
            THEN [unknown'[n] EXCEPT !.fields = call'.items] ELSE unknown'[n]
    BY Holders, Zenon
<1> QED
    BY <1>2

LEMMA AllocateKeeps ==
    ASSUME Typed, CallInv, OwnedOnce, AllocateTable
    PROVE  OwnedOnce'
<1>1. /\ call'.does = call.does /\ call'.into = call.into /\ call'.items = call.items
      /\ call'.fresh.block = Block /\ call'.fresh.fields = call.fresh.fields
      /\ unknown' = unknown /\ heap' = heap \cup {Block}
    BY DEF AllocateTable, Typed, TypeOK, Call, Table
<1>2. call.fresh.fields = <<>> /\ call.fresh.block = NoTable
    BY DEF AllocateTable, NeedsTable, CallInv
<1>3. FieldBlocks(call.fresh) = {} /\ FieldBlocks(call'.fresh) = {}
    BY <1>1, <1>2 DEF FieldBlocks
<1>4. Owned(call.fresh) = {} /\ Owned(call'.fresh) = {Block}
    BY <1>1, <1>2, <1>3, FreshBlock DEF Owned, NoTable
<1>5. Distinct(call'.fresh)
    BY <1>1, <1>2, <1>3 DEF Distinct
<1>6. \A n \in Message : Held(<<"message", n>>)' = Held(<<"message", n>>)
    BY <1>1, SameMessage
<1>7. Held(TheCall)' = call'.fresh
    BY Holders
<1> QED
    BY <1>1, <1>4, <1>5, <1>6, <1>7, Pair, FreshBlock, Exchange DEF TheMessage

LEMMA CopyKeeps ==
    ASSUME Typed, CallInv, OwnedOnce, CopyField
    PROVE  OwnedOnce'
<1> DEFINE f == [block |-> Block, bytes |-> Head(call.todo)]
<1>1. /\ call \in Call /\ call.fresh \in Table
      /\ call.todo \in Seq(Seq(Byte)) /\ call.todo # <<>> /\ call.fresh.block # NoTable
    BY DEF Typed, TypeOK, Call, CopyField, Copying
<1>2. f \in Field /\ f.block = Block
    BY <1>1, FreshBlock DEF Field
<1> HIDE DEF f
<1>3. /\ call'.does = call.does /\ call'.into = call.into /\ call'.items = call.items
      /\ call'.fresh.block = call.fresh.block
      /\ call'.fresh.fields = Append(call.fresh.fields, f)
      /\ unknown' = unknown /\ heap' = heap \cup {Block}
    BY <1>1 DEF CopyField, Call, Table, f
<1>4. Block \notin FieldBlocks(call.fresh) /\ Block # call.fresh.block
    BY <1>1, Pair, FreshBlock DEF Owned
<1>5. FieldBlocks(call'.fresh) = FieldBlocks(call.fresh) \cup {Block} /\ Distinct(call'.fresh)
    BY <1>1, <1>2, <1>3, <1>4, Pair, OwnedByAppend
<1>6. Owned(call'.fresh) = Owned(call.fresh) \cup {Block}
    BY <1>3, <1>5 DEF Owned
<1>7. \A n \in Message : Held(<<"message", n>>)' = Held(<<"message", n>>)
    BY <1>3, SameMessage
<1>8. Held(TheCall)' = call'.fresh
    BY Holders
<1> QED
    BY <1>3, <1>5, <1>6, <1>7, <1>8, Pair, FreshBlock, Exchange DEF TheMessage

LEMMA AppendedKeeps ==
    ASSUME Typed, CallInv, OwnedOnce, Appended
    PROVE  OwnedOnce'
<1> DEFINE old == unknown[call.into]
           t == unknown'[call.into]
<1>1. /\ t.block = call.fresh.block /\ t.fields = old.fields \o call.fresh.fields
      /\ \A n \in Message : n # call.into => unknown'[n] = unknown[n]
      /\ call.into \in Message /\ old \in Table
      /\ heap' = heap \ {old.block} /\ call.does = "append"
    BY DEF Appended, Running, Typed, TypeOK, Call
<1>2. call'.fresh = Empty /\ call'.does = "none"
    BY DEF Appended, Return, NoCall
<1>3. /\ \A n \in Message : /\ Held(<<"message", n>>) = unknown[n]
                            /\ Held(<<"message", n>>)' = unknown'[n]
      /\ Held(TheCall)' = Empty
    BY <1>1, <1>2, Holders
<1>4. PICK m \in Message : m = call.into
    BY <1>1
<1>5. /\ Held(<<"message", m>>) = old /\ Held(<<"message", m>>)' = t
      /\ TheMessage = <<"message", m>>
      /\ \A n \in Message : n # m => Held(<<"message", n>>)' = Held(<<"message", n>>)
    BY <1>1, <1>3, <1>4 DEF TheMessage
<1> HIDE DEF old, t
<1>6. call.fresh.block # NoTable /\ call.fresh \in Table
    BY Pair DEF Appended, CallInv
<1>7. /\ Distinct(old) /\ Distinct(call.fresh)
      /\ FieldBlocks(old) \cap FieldBlocks(call.fresh) = {}
      /\ t.block \notin FieldBlocks(old) /\ t.block \notin FieldBlocks(call.fresh)
      /\ old.block \notin Owned(call.fresh) /\ old.block \notin FieldBlocks(old)
      /\ Owned(old) \subseteq heap /\ Owned(call.fresh) \subseteq heap
    BY <1>1, <1>6, <1>5, Pair DEF Owned, Distinct
<1>8. FieldBlocks(t) = FieldBlocks(old) \cup FieldBlocks(call.fresh) /\ Distinct(t)
    BY <1>1, <1>6, <1>7, OwnedByConcat, Zenon
<1>9. Owned(t) = (Owned(old) \cup Owned(call.fresh)) \ {old.block}
    BY <1>1, <1>6, <1>7, <1>8 DEF Owned
<1>10. heap' = (heap \ (Owned(old) \cup Owned(call.fresh))) \cup Owned(t)
    BY <1>1, <1>7, <1>9, Pair DEF Owned
<1>11. Held(TheCall) = call.fresh
    BY Pair
<1> QED
    BY <1>3, <1>8, <1>9, <1>10, <1>11, <1>5, OwnedByEmpty, Exchange

LEMMA DecodedKeeps ==
    ASSUME Typed, CallInv, OwnedOnce, Decoded
    PROVE  OwnedOnce'
<1>1. /\ unknown[call.into] = Empty /\ call.into \in Message
      /\ \A n \in Message : unknown'[n] = IF n = call.into THEN call.fresh ELSE unknown[n]
      /\ heap' = heap /\ call.does = "decode"
    BY DEF Decoded, Running, Typed, TypeOK, Call, CallInv
<1>2. call'.fresh = Empty /\ call'.does = "none"
    BY DEF Decoded, Return, NoCall
<1>3. /\ \A n \in Message : /\ Held(<<"message", n>>) = unknown[n]
                            /\ Held(<<"message", n>>)' = unknown'[n]
      /\ Held(TheCall)' = Empty
    BY <1>1, <1>2, Holders
<1>4. /\ Held(TheCall) = call.fresh /\ Distinct(call.fresh) /\ Owned(call.fresh) \subseteq heap
    BY Pair
<1>5. PICK m \in Message : m = call.into
    BY <1>1
<1>6. /\ Held(<<"message", m>>) = Empty /\ Held(<<"message", m>>)' = call.fresh
      /\ \A n \in Message : n # m => Held(<<"message", n>>)' = Held(<<"message", n>>)
    BY <1>1, <1>3, <1>5
<1>7. heap' = (heap \ (Owned(Empty) \cup Owned(call.fresh))) \cup Owned(call.fresh)
    BY <1>1, <1>4, OwnedByEmpty
<1> QED
    BY <1>3, <1>4, <1>6, <1>7, OwnedByEmpty, Exchange

LEMMA FreeKeeps ==
    ASSUME Typed, CallInv, OwnedOnce, FreeField
    PROVE  OwnedOnce'
<1> DEFINE x == Held(TheMessage)
           t == Held(TheMessage)'
<1>1. /\ call.items # <<>> /\ call.does \in {"remove", "items"} /\ call.into \in Message
      /\ call'.does = call.does /\ call'.into = call.into /\ call'.items = Tail(call.items)
      /\ call'.fresh = call.fresh /\ unknown' = unknown
      /\ heap' = heap \ {Head(call.items).block}
      /\ unknown[call.into] \in Table
    BY DEF FreeField, NextIs, CallInv, Typed, TypeOK, Call
<1>2. /\ x = [unknown[call.into] EXCEPT !.fields = call.items]
      /\ t = [unknown[call.into] EXCEPT !.fields = Tail(call.items)]
      /\ \A n \in Message : n # call.into => Held(<<"message", n>>)' = Held(<<"message", n>>)
      /\ Held(TheCall)' = call.fresh
    BY <1>1, Holders DEF TheMessage
<1>3. /\ x.block = unknown[call.into].block /\ x.fields = call.items
      /\ t.block = x.block /\ t.fields = Tail(x.fields)
    BY <1>1, <1>2 DEF Table
<1> HIDE DEF x, t
<1>4. /\ FieldBlocks(x) = FieldBlocks(t) \cup {Head(call.items).block}
      /\ Head(call.items).block \notin FieldBlocks(t) \cup {x.block}
      /\ Distinct(t)
    BY <1>1, <1>3, Pair, OwnedByTail DEF x
<1>5. Owned(t) = Owned(x) \ {Head(call.items).block} /\ Head(call.items).block \notin Owned(t)
    BY <1>3, <1>4 DEF Owned
<1>6. Head(call.items).block \in Owned(x)
    BY <1>4 DEF Owned
<1>7. heap' = (heap \ (Owned(x) \cup Owned(call.fresh))) \cup Owned(t) \cup Owned(call.fresh)
    BY <1>1, <1>5, <1>6, Pair DEF x
<1>8. Owned(t) \cap Owned(call.fresh) = {} /\ Owned(t) \subseteq Owned(x)
    BY <1>5, Pair DEF x
<1> QED
    BY <1>1, <1>2, <1>4, <1>7, <1>8, Pair, Exchange DEF TheMessage, x, t

LEMMA KeepKeeps ==
    ASSUME Typed, CallInv, TablesHoldFields, StoredWhole, OwnedOnce, KeepField
    PROVE  OwnedOnce'
<1> DEFINE x == Held(TheMessage)
           t == Held(TheMessage)'
           f == Head(call.items)
<1>1. /\ call.items \in Seq(Field) /\ call.items # <<>> /\ call.does \in {"remove", "items"}
      /\ call'.does = call.does /\ call'.into = call.into /\ call'.items = Tail(call.items)
      /\ call'.fresh.block = call.fresh.block
      /\ call'.fresh.fields = Append(call.fresh.fields, f)
      /\ unknown' = unknown /\ heap' = heap
      /\ call.into \in Message /\ unknown[call.into] \in Table
    BY DEF KeepField, NextIs, CallInv, Typed, TypeOK, Call, Table
<1>2. /\ x = [unknown[call.into] EXCEPT !.fields = call.items]
      /\ t = [unknown[call.into] EXCEPT !.fields = Tail(call.items)]
      /\ \A n \in Message : n # call.into => Held(<<"message", n>>)' = Held(<<"message", n>>)
      /\ Held(TheCall)' = call'.fresh
    BY <1>1, Holders DEF TheMessage
<1>3. /\ x.block = unknown[call.into].block /\ x.fields = call.items
      /\ t.block = x.block /\ t.fields = Tail(x.fields)
    BY <1>1, <1>2 DEF Table
<1>4. f \in Field /\ f.block # NoTable /\ call.fresh.block # NoTable
    <2>1. f \in Field
        BY <1>1
    <2> QED
        BY <2>1, KeepStep DEF Field, NoTable
<1> HIDE DEF x, t, f
<1>5. /\ FieldBlocks(x) = FieldBlocks(t) \cup {f.block}
      /\ f.block \notin FieldBlocks(t) \cup {x.block}
      /\ Distinct(t)
    BY <1>1, <1>3, Pair, OwnedByTail DEF x, f
<1>6. Owned(t) = Owned(x) \ {f.block} /\ f.block \in Owned(x) /\ f.block \notin Owned(t)
    BY <1>3, <1>4, <1>5 DEF Owned
<1>7. f.block \notin FieldBlocks(call.fresh) /\ f.block # call.fresh.block
    BY <1>4, <1>6, Pair DEF Owned, x
<1>8. FieldBlocks(call'.fresh) = FieldBlocks(call.fresh) \cup {f.block} /\ Distinct(call'.fresh)
    BY <1>1, <1>4, <1>7, Pair, OwnedByAppend
<1>9. Owned(call'.fresh) = Owned(call.fresh) \cup {f.block}
    BY <1>1, <1>8 DEF Owned
<1>10. /\ heap' = (heap \ (Owned(x) \cup Owned(call.fresh)))
                      \cup Owned(t) \cup Owned(call'.fresh)
       /\ Owned(t) \cap Owned(call'.fresh) = {}
       /\ Owned(t) \cup Owned(call'.fresh) \subseteq Owned(x) \cup Owned(call.fresh)
    BY <1>1, <1>6, <1>9, Pair DEF x
<1> QED
    BY <1>1, <1>2, <1>5, <1>8, <1>10, Pair, Exchange DEF TheMessage, x, t

LEMMA ClearedKeeps ==
    ASSUME Typed, CallInv, OwnedOnce, Cleared
    PROVE  OwnedOnce'
<1> DEFINE old == unknown[call.into]
<1>1. /\ call.items = <<>> /\ call.does \in {"remove", "items"}
      /\ call.into \in Message /\ old \in Table
      /\ \A n \in Message : unknown'[n] = IF n = call.into THEN call.fresh ELSE unknown[n]
      /\ heap' = heap \ {old.block}
    <2>1. /\ call.items = <<>> /\ call.does \in {"remove", "items"}
          /\ unknown' = [unknown EXCEPT ![call.into] = call.fresh]
          /\ heap' = heap \ {old.block}
        BY DEF Cleared
    <2>2. call.into \in Message /\ old \in Table /\ unknown \in [Message -> Table]
        BY DEF Typed, TypeOK, Call
    <2> QED
        BY <2>1, <2>2
<1>2. call'.fresh = Empty /\ call'.does \notin {"remove", "items"}
    BY AppendingHolds DEF Cleared
<1>3. PICK m \in Message : m = call.into
    BY <1>1
<1>4. /\ Held(<<"message", m>>) = [old EXCEPT !.fields = <<>>]
      /\ Held(<<"message", m>>)' = call.fresh /\ Held(TheCall)' = Empty
      /\ \A n \in Message : n # m => Held(<<"message", n>>)' = Held(<<"message", n>>)
      /\ TheMessage = <<"message", m>>
    <2>1. \A n \in Message : Held(<<"message", n>>)' = unknown'[n]
        BY <1>2, Holders
    <2>2. \A n \in Message : n # m => Held(<<"message", n>>) = unknown[n]
        BY <1>3, Holders
    <2>3. Held(<<"message", m>>) = [old EXCEPT !.fields = <<>>]
        BY <1>1, <1>3, Holders, Zenon
    <2> QED
        BY <1>1, <1>2, <1>3, <2>1, <2>2, <2>3, Holders DEF TheMessage
<1>5. Owned(Held(<<"message", m>>)) = {old.block} \ {NoTable}
    <2>1. [old EXCEPT !.fields = <<>>].block = old.block /\ [old EXCEPT !.fields = <<>>].fields = <<>>
        BY <1>1 DEF Table
    <2>2. FieldBlocks([old EXCEPT !.fields = <<>>]) = {}
        BY <2>1 DEF FieldBlocks
    <2> QED
        BY <1>4, <2>1, <2>2 DEF Owned
<1>6. /\ Held(TheCall) = call.fresh /\ Distinct(call.fresh) /\ Owned(call.fresh) \subseteq heap
      /\ ({old.block} \ {NoTable}) \cap Owned(call.fresh) = {} /\ NoTable \notin heap
    BY <1>4, <1>5, Pair
<1> HIDE DEF old
<1>7. heap' = (heap \ (({old.block} \ {NoTable}) \cup Owned(call.fresh))) \cup Owned(call.fresh)
    BY <1>1, <1>6
<1> QED
    BY <1>4, <1>5, <1>6, <1>7, OwnedByEmpty, Exchange

LEMMA FailsKeeps ==
    ASSUME ~MessageSet, Typed, CallInv, OwnedOnce, OutOfMemory \/ BadInput
    PROVE  OwnedOnce'
<1>1. /\ call.does # "items"
      /\ call.does = "remove" => call.items = unknown[call.into].fields
    BY DEF CallInv, OutOfMemory, BadInput, NeedsTable, Copying, Shrinking, Running
<1>2. /\ unknown' = unknown /\ call'.fresh = Empty /\ call'.does = "none"
      /\ heap' = heap \ (Blocks(call.fresh) \cup {call.fresh.block})
    BY <1>1, SMTT(30) DEF OutOfMemory, BadInput, Fails, Return, NoCall, Running
<1>3. PICK m \in Message : m = call.into
    BY Pair
<1>4. /\ Held(TheCall)' = Empty
      /\ \A n \in Message : Held(<<"message", n>>)' = Held(<<"message", n>>)
    <2>1. \A n \in Message : [unknown[n] EXCEPT !.fields = unknown[n].fields] = unknown[n]
        BY DEF Typed, TypeOK, Table
    <2>2. \A n \in Message : Held(<<"message", n>>) = unknown[n]
        <3>1. TAKE n \in Message
        <3>2. CASE n = call.into /\ call.does \in {"remove", "items"}
            <4>1. call.items = unknown[n].fields
                BY <1>1, <3>2
            <4> QED
                BY <2>1, <3>2, <4>1, Holders, ZenonT(60)
        <3>3. CASE ~(n = call.into /\ call.does \in {"remove", "items"})
            BY <3>3, Holders, ZenonT(60)
        <3> QED
            BY <3>2, <3>3
    <2> QED
        BY <1>2, <2>2, Holders
<1>5. TheMessage = <<"message", m>>
    BY <1>3 DEF TheMessage
<1>6. Blocks(call.fresh) \cup {call.fresh.block} = Owned(call.fresh) \cup {call.fresh.block}
    <2>1. call.fresh.fields = <<>> => FieldBlocks(call.fresh) = {}
        BY DEF FieldBlocks
    <2> QED
        BY <2>1 DEF Blocks, Owned
<1>7. call.fresh.block \in Owned(call.fresh) \cup {NoTable}
    BY DEF Owned
<1>8. heap' = (heap \ (Owned(Held(<<"message", m>>)) \cup Owned(call.fresh)))
                  \cup Owned(Held(<<"message", m>>))
    BY <1>2, <1>5, <1>6, <1>7, Pair
<1> QED
    BY <1>4, <1>5, <1>8, Pair, OwnedByEmpty, Exchange

-----------------------------------------------------------------------------
(* Every variable keeps its type, for every set of messages and inputs.    *)
THEOREM TypeCorrect == Spec => []TypeOK
<1>1. IInv => TypeOK
    BY DEF IInv, Typed
<1> QED
    BY <1>1, Invariance, PTL

(* The table of a message is allocated exactly when it has fields, at      *)
(* every step of every call.                                               *)
THEOREM TablesStayFull == Spec => []TablesHoldFields
<1>1. IInv => TablesHoldFields
    BY DEF IInv
<1> QED
    BY <1>1, Invariance, PTL

(* Each field that a message stores, whatever calls stored it, is one      *)
(* whole field to the loop that decodes the type; in a type decoded by     *)
(* nextTag that is a field that validateRawField accepts.                  *)
THEOREM FieldsStayValid == Spec => []StoredFieldsValid
<1>1. IInv => StoredFieldsValid
    <2>1. SUFFICES ASSUME IInv, NEW m \in Message, NEW i \in DOMAIN unknown[m].fields,
                          NEW s, s = unknown[m].fields[i].bytes
                   PROVE  IF RawTags THEN WholeField(s, MaxVarint) ELSE validateRawField(s)
        BY Zenon DEF StoredFieldsValid
    <2>2. WholeField(s, LongestTag)
        BY <2>1, Zenon DEF IInv, StoredWhole
    <2>3. WholeField(s, MaxTag) => validateRawField(s)
        BY ValidWhole
    <2> QED
        BY <2>2, <2>3, Zenon DEF LongestTag
<1> QED
    BY <1>1, Invariance, PTL

\* What a message stores are whole fields to the loop of its type.
LEMMA StoredFields ==
    ASSUME IInv, NEW m \in Message
    PROVE  Stored(m) \in Seq(Seq(Byte)) /\ AllWhole(Stored(m), LongestTag)
<1>1. unknown[m] \in Table /\ StoredWhole
    BY DEF IInv, Typed, TypeOK
<1>2. PICK fields : fields = unknown[m].fields
    OBVIOUS
<1>3. fields \in Seq(Field) /\ WholeFields(fields)
    BY <1>1, <1>2 DEF Table, StoredWhole, WholeFields
<1>4. Bytes(fields) \in Seq(Seq(Byte)) /\ AllWhole(Bytes(fields), LongestTag)
    BY <1>3, BytesTyped
<1> QED
    BY <1>2, <1>4 DEF Stored

\* And valid raw fields where that is the loop of nextTag.
LEMMA StoredValid ==
    ASSUME IInv, NEW m \in Message, ~RawTags
    PROVE  Stored(m) \in Seq(Seq(Byte)) /\ AllValid(Stored(m))
<1>1. PICK raws : raws = Stored(m)
    OBVIOUS
<1>2. raws \in Seq(Seq(Byte)) /\ AllWhole(raws, LongestTag)
    BY <1>1, StoredFields
<1>3. \A i \in DOMAIN raws : WholeField(raws[i], MaxTag)
    BY <1>2, Zenon DEF AllWhole, LongestTag
<1>4. AllValid(raws)
    BY <1>3, ValidWhole, Zenon DEF AllValid
<1> QED
    BY <1>1, <1>2, <1>4

(* What a message encodes, its unknown fields one behind the other, is     *)
(* decoded as the same fields: for every sequence of calls and all bytes.  *)
THEOREM FieldsReadBack == Spec => []RoundTrip
<1>1. IInv => RoundTrip
    <2>1. SUFFICES ASSUME IInv, NEW m \in Message
                   PROVE  ReadMessage(FlattenSeq(Stored(m))) = [ok |-> TRUE, fields |-> Stored(m)]
        BY Zenon DEF RoundTrip
    <2>2. PICK raws : raws = Stored(m)
        OBVIOUS
    <2>3. raws \in Seq(Seq(Byte)) /\ AllWhole(raws, LongestTag)
        BY <2>1, <2>2, StoredFields
    <2> QED
        BY <2>2, <2>3, ReadsBack DEF ReadMessage
<1> QED
    BY <1>1, Invariance, PTL

(* The matcher, the runs and their binary search, and rawFieldNumber agree *)
(* on which stored fields have a number, canonical tag or not.             *)
THEOREM NumbersAreFound == Spec => []QueriesAgree
<1>1. IInv => QueriesAgree
    <2>1. SUFFICES ASSUME IInv, ~RawTags, NEW m \in Message, NEW number \in Asked
                   PROVE  /\ \A i \in DOMAIN Stored(m) :
                                matches(number, Stored(m)[i])
                                    <=> rawFieldNumber(Stored(m)[i]) = number
                          /\ rawFieldNumberRunCount(NumberRuns(Stored(m)), number)
                                = Len(FieldsByNumber(Stored(m), number))
        BY Zenon DEF QueriesAgree
    <2>2. PICK raws : raws = Stored(m)
        OBVIOUS
    <2>3. raws \in Seq(Seq(Byte)) /\ AllValid(raws)
        BY <2>1, <2>2, StoredValid
    <2>4. number \in FieldNumber
        BY NumberAssumption
    <2>5. \A i \in DOMAIN raws : raws[i] \in Seq(Byte) /\ validateRawField(raws[i])
        <3>1. \A i \in DOMAIN raws : raws[i] \in Seq(Byte)
            BY <2>3
        <3> QED
            BY <2>3, <3>1 DEF AllValid
    <2>6. \A i \in DOMAIN raws : matches(number, raws[i]) <=> rawFieldNumber(raws[i]) = number
        BY <2>4, <2>5, MatchesNumber, Zenon
    <2>7. rawFieldNumberRunCount(NumberRuns(raws), number) = Len(FieldsByNumber(raws, number))
        BY <2>3, <2>4, QueriesCount
    <2> QED
        BY <2>2, <2>6, <2>7
<1> QED
    BY <1>1, Invariance, PTL

(* Fields that came in another order are encoded the same way when the     *)
(* encoding is deterministic: the order of raw fields is total, and an     *)
(* insertion sort by it has one outcome.                                   *)
THEOREM OrderDoesNotMatter == Spec => []DeterministicAgrees
<1>1. IInv => DeterministicAgrees
    <2>1. SUFFICES ASSUME IInv, ~RawTags, NEW m \in Message,
                          NEW p \in Bijection(DOMAIN Stored(m), DOMAIN Stored(m))
                   PROVE  Deterministic([i \in DOMAIN Stored(m) |-> Stored(m)[p[i]]])
                              = Deterministic(Stored(m))
        BY Zenon DEF DeterministicAgrees
    <2>2. PICK raws : raws = Stored(m)
        OBVIOUS
    <2>3. raws \in Seq(Seq(Byte)) /\ AllValid(raws)
        BY <2>1, <2>2, StoredValid
    <2>4. ASSUME NEW i \in DOMAIN raws PROVE Tagged(raws[i])
        <3>1. raws[i] \in Seq(Byte) /\ validateRawField(raws[i])
            BY <2>3 DEF AllValid
        <3> QED
            BY <3>1, ValidTag, Zenon DEF Tagged
    <2>5. AllTagged(raws)
        BY <2>3, <2>4 DEF AllTagged
    <2>6. p \in Bijection(DOMAIN raws, DOMAIN raws)
        BY <2>2
    <2>7. Deterministic([i \in DOMAIN raws |-> raws[p[i]]]) = Deterministic(raws)
        BY <2>5, <2>6, OrderIrrelevant
    <2> QED
        BY <2>2, <2>7
<1> QED
    BY <1>1, Invariance, PTL


(* decodeRaw says of an item of a message set what its fields mean, in any *)
(* order and among others: it reads them where validateRawField found them *)
(* and stops at the end of the same group.                                 *)
THEOREM ItemsAreRead == Spec => []ItemsAgree
<1>1. IInv => ItemsAgree
    <2>1. SUFFICES ASSUME IInv, ~RawTags, NEW m \in Message, NEW s \in ToSet(Stored(m)),
                          FirstTag(s).number = 1, FirstTag(s).wire_type = StartGroup
                   PROVE  DecodeRaw(s, Extension) = ItemMeaning(s, Extension)
        BY LoopAssumption, Zenon DEF ItemsAgree
    <2>2. PICK raws : raws = Stored(m)
        OBVIOUS
    <2>3. raws \in Seq(Seq(Byte)) /\ AllValid(raws)
        BY <2>1, <2>2, StoredValid
    <2>4. PICK i \in DOMAIN raws : s = raws[i]
        BY <2>2 DEF ToSet
    <2>5. s \in Seq(Byte) /\ validateRawField(s)
        BY <2>3, <2>4 DEF AllValid
    <2>6. Extension \in FieldNumber
        BY NumberAssumption
    <2> QED
        BY <2>1, <2>5, <2>6, ItemAgrees, Zenon
<1> QED
    BY <1>1, Invariance, PTL
(* For every type without message_set_wire_format, no call leaks a block,  *)
(* frees one in use or shares one between messages, wherever it fails.     *)
THEOREM OwnershipKept ==
    ASSUME ~MessageSet
    PROVE  Spec => []OwnedOnce
<1>1. Init => OwnedOnce
    <2>1. SUFFICES ASSUME Init PROVE OwnedOnce
        OBVIOUS
    <2>2. \A h \in Holder : Held(h) = Empty
        BY <2>1, Holders DEF Init, NoCall
    <2>3. heap = {}
        BY <2>1 DEF Init
    <2> QED
        BY <2>2, <2>3, OwnedByEmpty DEF OwnedOnce
<1>2. IInv /\ OwnedOnce /\ [Next]_vars => OwnedOnce'
    <2>1. SUFFICES ASSUME IInv, OwnedOnce, [Next]_vars PROVE OwnedOnce'
        OBVIOUS
    <2>2. CASE UNCHANGED vars
        <3>1. UNCHANGED heap /\ \A h \in Holder : Held(h)' = Held(h)
            BY <2>2 DEF vars, Held
        <3> QED
            BY <2>1, <3>1, SameHolders
    <2>3. CASE Next
        BY <2>1, <2>3, CallsKeep, AllocateKeeps, CopyKeeps, AppendedKeeps, DecodedKeeps,
            FreeKeeps, KeepKeeps, ClearedKeeps, FailsKeeps, Zenon DEF IInv, Next
    <2> QED
        BY <2>1, <2>2, <2>3
<1> QED
    BY <1>1, <1>2, Invariance, PTL DEF Spec

-----------------------------------------------------------------------------
(* What the calls do to the bytes of the fields: UnknownFieldLog.           *)

\* Whether a field stays when the fields of a number, or the values of the
\* extension, are cleared.
Stays(does, number, s) == IF does = "remove" THEN NumberOf(s) # number ELSE ~OfExtension(s)

\* Which of the first n do.
Staying(does, number, all, n) == {i \in 1 .. n : Stays(does, number, all[i].bytes)}

\* Of all, items are still to be looked at and kept are those before that stay.
Sifted(does, number, all, items, kept) ==
    /\ Len(items) <= Len(all)
    /\ \A i \in DOMAIN items : items[i] = all[Len(all) - Len(items) + i]
    /\ kept = AtPositions(all, Staying(does, number, all, Len(all) - Len(items)))

\* Verdict finds nothing to remove in a field exactly when it stays.
Spares(does, number, s) ==
    IF does = "remove" THEN rawFieldNumber(s) \notin {0, number}
    ELSE DecodeRaw(s, Extension) = "none"

Agree(does, number, all) ==
    \A i \in DOMAIN all :
        Spares(does, number, all[i].bytes) <=> Stays(does, number, all[i].bytes)

OneRaw(raws) == \E raw \in Raw : raws = <<raw>>

OneValid(raws) == OneRaw(raws) /\ AllValid(raws)

\* The bytes a call stores when it ends.
Copied == Bytes(call.fresh.fields) \o call.todo

CopiesOK ==
    /\ Running("append") =>
            \/ call.into \in defined /\ OneValid(Copied)
            \/ \E other \in defined : Copied = Stored(other)
    /\ Running("decode") =>
            \E s \in Encoded : Copied = ReadMessage(s).fields /\ (call.broken <=> ~ReadMessage(s).ok)

RemovesOK ==
    call.does \in {"remove", "items"} =>
        LET all == unknown[call.into].fields
        IN  /\ Running("remove") => call.number \in Asked
            /\ call.then = <<>> \/ OneRaw(call.then)
            /\ Agree(call.does, call.number, all)
            /\ Sifted(call.does, call.number, all, call.items, call.fresh.fields)

LogInv == CopiesOK /\ RemovesOK

LEMMA BytesIs ==
    ASSUME NEW fields \in Seq(Field)
    PROVE  /\ Len(Bytes(fields)) = Len(fields)
           /\ \A i \in 1 .. Len(fields) : Bytes(fields)[i] = fields[i].bytes
           /\ Bytes(fields) = <<>> <=> fields = <<>>
<1>1. DOMAIN Bytes(fields) = 1 .. Len(fields) /\ Len(fields) \in Nat
    BY DEF Bytes
<1>2. Bytes(fields) \in Seq(Seq(Byte))
    BY BytesTyped
<1>3. Len(Bytes(fields)) = Len(fields)
    BY <1>1, <1>2
<1>4. \A i \in 1 .. Len(fields) : Bytes(fields)[i] = fields[i].bytes
    BY DEF Bytes
<1>5. Bytes(fields) = <<>> <=> fields = <<>>
    BY <1>2, <1>3, EmptySeq
<1> QED
    BY <1>3, <1>4, <1>5

LEMMA BytesAppend ==
    ASSUME NEW fields \in Seq(Field), NEW f \in Field
    PROVE  Bytes(Append(fields, f)) = Append(Bytes(fields), f.bytes)
<1> DEFINE a == Bytes(Append(fields, f))
           c == Append(Bytes(fields), f.bytes)
<1>1. /\ Append(fields, f) \in Seq(Field) /\ Len(Append(fields, f)) = Len(fields) + 1
      /\ \A i \in 1 .. Len(fields) : Append(fields, f)[i] = fields[i]
      /\ Append(fields, f)[Len(fields) + 1] = f
    BY AppendProperties
<1>2. /\ Bytes(fields) \in Seq(Seq(Byte)) /\ f.bytes \in Seq(Byte)
      /\ Len(Bytes(fields)) = Len(fields) /\ Len(fields) \in Nat
      /\ \A i \in 1 .. Len(fields) : Bytes(fields)[i] = fields[i].bytes
    <2>1. f.bytes \in Seq(Byte)
        BY DEF Field
    <2> QED
        BY <2>1, BytesTyped, BytesIs
<1>3. /\ a \in Seq(Seq(Byte)) /\ Len(a) = Len(fields) + 1
      /\ \A i \in 1 .. Len(fields) + 1 : a[i] = Append(fields, f)[i].bytes
    BY <1>1, BytesTyped, BytesIs
<1>4. /\ c \in Seq(Seq(Byte)) /\ Len(c) = Len(fields) + 1
      /\ \A i \in 1 .. Len(fields) : c[i] = Bytes(fields)[i]
      /\ c[Len(fields) + 1] = f.bytes
    <2> DEFINE b == Bytes(fields)
               y == f.bytes
    <2>1. b \in Seq(Seq(Byte)) /\ y \in Seq(Byte) /\ Len(b) = Len(fields)
        BY <1>2
    <2> HIDE DEF b, y
    <2>2. /\ Append(b, y) \in Seq(Seq(Byte)) /\ Len(Append(b, y)) = Len(b) + 1
          /\ \A i \in 1 .. Len(b) : Append(b, y)[i] = b[i]
          /\ Append(b, y)[Len(b) + 1] = y
        BY <2>1, AppendProperties
    <2> QED
        BY <2>1, <2>2 DEF b, y
<1> HIDE DEF a, c
<1>5. \A i \in 1 .. Len(fields) + 1 : a[i] = c[i]
    <2> TAKE i \in 1 .. Len(fields) + 1
    <2>1. CASE i = Len(fields) + 1
        BY <1>1, <1>3, <1>4, <2>1
    <2>2. CASE i # Len(fields) + 1
        <3>1. i \in 1 .. Len(fields)
            BY <1>2, <2>2
        <3> QED
            BY <1>1, <1>2, <1>3, <1>4, <3>1
    <2> QED
        BY <2>1, <2>2
<1> QED
    BY <1>3, <1>4, <1>5, SeqEqual DEF a, c

LEMMA BytesConcat ==
    ASSUME NEW s \in Seq(Field), NEW t \in Seq(Field)
    PROVE  Bytes(s \o t) = Bytes(s) \o Bytes(t)
<1> DEFINE a == Bytes(s \o t)
           b == Bytes(s)
           d == Bytes(t)
           c == b \o d
<1>1. /\ s \o t \in Seq(Field) /\ Len(s \o t) = Len(s) + Len(t)
      /\ \A i \in 1 .. Len(s) + Len(t) : (s \o t)[i] = IF i <= Len(s) THEN s[i] ELSE t[i - Len(s)]
      /\ Len(s) \in Nat /\ Len(t) \in Nat
    BY ConcatProperties
<1>2. /\ b \in Seq(Seq(Byte)) /\ d \in Seq(Seq(Byte))
      /\ Len(b) = Len(s) /\ Len(d) = Len(t)
      /\ \A i \in 1 .. Len(s) : b[i] = s[i].bytes
      /\ \A i \in 1 .. Len(t) : d[i] = t[i].bytes
    BY BytesTyped, BytesIs
<1>3. /\ a \in Seq(Seq(Byte)) /\ Len(a) = Len(s) + Len(t)
      /\ \A i \in 1 .. Len(s) + Len(t) : a[i] = (s \o t)[i].bytes
    BY <1>1, BytesTyped, BytesIs
<1> HIDE DEF a, b, d
<1>4. /\ c \in Seq(Seq(Byte)) /\ Len(c) = Len(s) + Len(t)
      /\ \A i \in 1 .. Len(s) + Len(t) : c[i] = IF i <= Len(s) THEN b[i] ELSE d[i - Len(s)]
    <2> DEFINE B == Seq(Byte)
    <2>1. b \in Seq(B) /\ d \in Seq(B)
        BY <1>2
    <2> HIDE DEF B
    <2>2. /\ b \o d \in Seq(B) /\ Len(b \o d) = Len(b) + Len(d)
          /\ \A i \in 1 .. Len(b) + Len(d) :
                (b \o d)[i] = IF i <= Len(b) THEN b[i] ELSE d[i - Len(b)]
        BY <2>1, ConcatProperties
    <2> QED
        BY <1>2, <2>2 DEF B
<1> HIDE DEF c
<1>5. \A i \in 1 .. Len(s) + Len(t) : a[i] = c[i]
    <2> TAKE i \in 1 .. Len(s) + Len(t)
    <2>1. CASE i <= Len(s)
        <3>1. i \in 1 .. Len(s)
            BY <1>1, <2>1
        <3> QED
            BY <1>1, <1>2, <1>3, <1>4, <2>1, <3>1
    <2>2. CASE i > Len(s)
        <3>1. i - Len(s) \in 1 .. Len(t) /\ ~(i <= Len(s))
            BY <1>1, <2>2
        <3> QED
            BY <1>1, <1>2, <1>3, <1>4, <3>1
    <2> QED
        BY <1>1, <2>1, <2>2
<1> QED
    BY <1>3, <1>4, <1>5, SeqEqual DEF a, b, c, d

(* A sifting begins with all fields, takes one after the other, and ends   *)
(* with those that stay.                                                   *)
LEMMA StayingIs ==
    ASSUME NEW does, NEW number, NEW all, NEW n \in Nat
    PROVE  /\ Positions(Staying(does, number, all, n))
           /\ \A i \in Staying(does, number, all, n) : i < n + 1
           /\ Staying(does, number, all, n + 1) =
                Staying(does, number, all, n)
                    \cup (IF Stays(does, number, all[n + 1].bytes) THEN {n + 1} ELSE {})
<1> DEFINE I == Staying(does, number, all, n)
<1>1. I \subseteq 1 .. n /\ I \subseteq Int
    BY DEF Staying
<1>2. IsFiniteSet(1 .. n)
    BY FS_Interval
<1>3. IsFiniteSet(I)
    BY <1>1, <1>2, FS_Subset
<1>4. \A i : i \in 1 .. n + 1 <=> i \in 1 .. n \/ i = n + 1
    OBVIOUS
<1> QED
    BY <1>1, <1>3, <1>4 DEF Staying, Positions

LEMMA SiftStart ==
    ASSUME NEW does, NEW number, NEW all \in Seq(Field)
    PROVE  Sifted(does, number, all, all, <<>>)
<1>1. Len(all) \in Nat /\ DOMAIN all = 1 .. Len(all)
    OBVIOUS
<1>2. Staying(does, number, all, Len(all) - Len(all)) = {}
    BY <1>1 DEF Staying
<1>3. \A i \in DOMAIN all : all[i] = all[Len(all) - Len(all) + i]
    BY <1>1
<1>4. AtPositions(all, Staying(does, number, all, Len(all) - Len(all))) = <<>>
    BY <1>2, NoPositions, Zenon
<1> QED
    BY <1>1, <1>3, <1>4 DEF Sifted

LEMMA SiftStep ==
    ASSUME NEW does, NEW number, NEW all \in Seq(Field), NEW items \in Seq(Field), NEW kept,
           items # <<>>, Sifted(does, number, all, items, kept)
    PROVE  /\ \E i \in DOMAIN all : Head(items) = all[i]
           /\ Sifted(does, number, all, Tail(items),
                     IF Stays(does, number, Head(items).bytes) THEN Append(kept, Head(items))
                     ELSE kept)
<1> DEFINE n == Len(all) - Len(items)
           I == Staying(does, number, all, n)
           f == Head(items)
<1>1. /\ Len(items) \in Nat /\ Len(items) >= 1 /\ f = items[1]
      /\ Tail(items) \in Seq(Field) /\ Len(Tail(items)) = Len(items) - 1
      /\ \A i \in 1 .. Len(items) - 1 : Tail(items)[i] = items[i + 1]
      /\ DOMAIN Tail(items) = 1 .. Len(items) - 1 /\ DOMAIN items = 1 .. Len(items)
    OBVIOUS
<1>2. Len(all) \in Nat /\ DOMAIN all = 1 .. Len(all) /\ Len(items) <= Len(all)
    BY DEF Sifted
<1>3. n \in Nat /\ n + 1 \in DOMAIN all /\ Len(all) - Len(Tail(items)) = n + 1
    BY <1>1, <1>2
<1>4. \A i \in 1 .. Len(items) : items[i] = all[n + i]
    BY <1>1 DEF Sifted
<1>5. f = all[n + 1]
    BY <1>1, <1>4
<1>6. kept = AtPositions(all, I)
    BY DEF Sifted
<1> HIDE DEF n, f, I
<1>7. \A i \in DOMAIN Tail(items) : Tail(items)[i] = all[n + 1 + i]
    <2> TAKE i \in DOMAIN Tail(items)
    <2>1. i \in 1 .. Len(items) - 1 /\ i + 1 \in 1 .. Len(items) /\ n + (i + 1) = n + 1 + i
        BY <1>1, <1>3
    <2>2. Tail(items)[i] = all[n + (i + 1)]
        BY <1>1, <1>4, <2>1
    <2> QED
        BY <2>1, <2>2
<1>8. /\ Positions(I) /\ \A i \in I : i < n + 1
      /\ Staying(does, number, all, n + 1) =
            I \cup (IF Stays(does, number, f.bytes) THEN {n + 1} ELSE {})
    BY <1>3, <1>5, StayingIs DEF I
<1>9. CASE Stays(does, number, f.bytes)
    <2>1. \A i \in I \cup {n + 1} : all[i] \in Field
        <3>1. \A i \in I \cup {n + 1} : i \in DOMAIN all
            BY <1>2, <1>3 DEF I, Staying
        <3> QED
            BY <3>1
    <2>2. AtPositions(all, I \cup {n + 1}) = Append(AtPositions(all, I), all[n + 1])
        <3>1. n + 1 \in Int /\ Positions(I) /\ \A i \in I : i < n + 1
            BY <1>3, <1>8
        <3> QED
            BY <2>1, <3>1, LastOfPositions
    <2>3. Append(kept, f) = AtPositions(all, Staying(does, number, all, n + 1))
        BY <1>5, <1>6, <1>8, <1>9, <2>2
    <2> QED
        BY <1>1, <1>2, <1>3, <1>5, <1>7, <1>9, <2>3 DEF Sifted, f
<1>10. CASE ~Stays(does, number, f.bytes)
    <2>1. kept = AtPositions(all, Staying(does, number, all, n + 1))
        BY <1>6, <1>8, <1>10
    <2> QED
        BY <1>1, <1>2, <1>3, <1>5, <1>7, <1>10, <2>1 DEF Sifted, f
<1> QED
    BY <1>9, <1>10

LEMMA SiftEnd ==
    ASSUME NEW does, NEW number, NEW all \in Seq(Field), NEW kept,
           Sifted(does, number, all, <<>>, kept)
    PROVE  Bytes(kept) = AtPositions(Bytes(all),
                {i \in DOMAIN Bytes(all) : Stays(does, number, Bytes(all)[i])})
<1> DEFINE n == Len(all)
           I == Staying(does, number, all, n)
<1>1. n \in Nat /\ DOMAIN all = 1 .. n /\ n - Len(<<>>) = n
    OBVIOUS
<1>2. kept = AtPositions(all, I)
    BY <1>1 DEF Sifted
<1>3. DOMAIN Bytes(all) = DOMAIN all /\ \A i \in DOMAIN all : Bytes(all)[i] = all[i].bytes
    BY DEF Bytes
<1>4. {i \in DOMAIN Bytes(all) : Stays(does, number, Bytes(all)[i])} = I
    BY <1>1, <1>3 DEF Staying
<1>5. Positions(I) /\ I \subseteq DOMAIN all
    <2>1. Positions(I)
        BY <1>1, StayingIs
    <2> QED
        BY <1>1, <2>1 DEF Staying
<1> HIDE DEF I, n
<1>6. /\ DOMAIN kept = 1 .. Cardinality(I)
      /\ \A k \in 1 .. Cardinality(I) : kept[k] = all[Nth(I, k)]
    BY <1>2 DEF AtPositions
<1>7. \A k \in 1 .. Cardinality(I) : kept[k].bytes = Bytes(all)[Nth(I, k)]
    <2> TAKE k \in 1 .. Cardinality(I)
    <2>1. Nth(I, k) \in DOMAIN all
        BY <1>5, NthExists
    <2> QED
        BY <1>3, <1>6, <2>1
<1>8. Bytes(kept) = [k \in 1 .. Cardinality(I) |-> Bytes(all)[Nth(I, k)]]
    BY <1>6, <1>7, Zenon DEF Bytes
<1> QED
    BY <1>4, <1>8 DEF AtPositions

-----------------------------------------------------------------------------
LEMMA LogSame ==
    ASSUME UNCHANGED unknown
    PROVE  FieldsStored' = FieldsStored
BY DEF FieldsStored, Stored

LEMMA LogSet ==
    ASSUME TypeOK, NEW m \in Message, NEW t, unknown' = [unknown EXCEPT ![m] = t]
    PROVE  FieldsStored' = [FieldsStored EXCEPT ![m] = Bytes(t.fields)]
<1>1. \A n \in Message : unknown'[n] = IF n = m THEN t ELSE unknown[n]
    BY DEF TypeOK
<1>2. \A n \in Message : Stored(n)' = IF n = m THEN Bytes(t.fields) ELSE Stored(n)
    BY <1>1 DEF Stored
<1>3. FieldsStored' = [n \in Message |-> IF n = m THEN Bytes(t.fields) ELSE Stored(n)]
    BY <1>2, Zenon DEF FieldsStored
<1> QED
    BY <1>3 DEF FieldsStored

LEMMA LogStutters ==
    ASSUME UNCHANGED <<unknown, defined>>
    PROVE  UNCHANGED Log!vars
BY LogSame DEF Log!vars

LEMMA LogAt ==
    ASSUME NEW m \in Message
    PROVE  FieldsStored[m] = Bytes(unknown[m].fields)
BY DEF FieldsStored, Stored

LEMMA NothingLogged ==
    ASSUME call'.does = "none"
    PROVE  LogInv'
BY DEF LogInv, CopiesOK, RemovesOK, Running

LEMMA AppendLogged ==
    ASSUME NEW m \in Message, NEW raws \in Seq(Seq(Byte)),
           call' = [NoCall EXCEPT !.does = "append", !.into = m, !.todo = raws],
           (m \in defined' /\ OneValid(raws)) \/ \E other \in defined' : raws = Stored(other)'
    PROVE  LogInv'
<1>1. /\ call'.does = "append" /\ call'.into = m /\ call'.todo = raws
      /\ call'.fresh = Empty
    BY AppendFields
<1>2. Bytes(Empty.fields) = <<>>
    <2>1. Empty.fields = <<>> /\ <<>> \in Seq(Field)
        BY DEF Empty
    <2> QED
        BY <2>1, BytesIs
<1>3. Copied' = raws
    <2>1. <<>> \o raws = raws
        OBVIOUS
    <2>2. Copied' = Bytes(call'.fresh.fields) \o call'.todo
        BY DEF Copied
    <2> QED
        BY <1>1, <1>2, <2>1, <2>2
<1>4. CopiesOK'
    BY <1>1, <1>3 DEF CopiesOK, Running, OneValid, OneRaw
<1>5. RemovesOK'
    BY <1>1 DEF RemovesOK
<1> QED
    BY <1>4, <1>5 DEF LogInv

LEMMA AppendingLogged ==
    ASSUME NEW m \in Message, NEW raws \in Seq(Seq(Byte)), Appending(m, raws), m \in defined',
           raws = <<>> \/ OneRaw(raws) \/ \E other \in defined' : raws = Stored(other)'
    PROVE  LogInv'
<1>1. CASE raws # <<>> /\ AllValid(raws)
    <2>1. call' = [NoCall EXCEPT !.does = "append", !.into = m, !.todo = raws]
        BY <1>1, Zenon DEF Appending, AllValid
    <2> QED
        BY <1>1, <2>1, AppendLogged DEF OneValid
<1>2. CASE ~(raws # <<>> /\ AllValid(raws))
    <2>1. call' = NoCall
        BY <1>2, Zenon DEF Appending, AllValid
    <2> QED
        BY <2>1, NothingLogged DEF NoCall
<1> QED
    BY <1>1, <1>2

(* Nothing is no field: the first tag is missing.                          *)
LEMMA EmptyRefused == ~WholeField(<<>>, LongestTag)
<1>1. PICK s, none : s = <<>> /\ none = <<>>
    OBVIOUS
<1>2. s \in Seq(Byte) /\ none \in Seq(Nat) /\ Len(s) = 0 /\ 0 \in Nat
    BY <1>1
<1>3. PICK i, L : i = 0 /\ L = LongestTag
    OBVIOUS
<1>4. SUFFICES ASSUME FieldEndOf(s, i, L) = Len(s) PROVE FALSE
    BY <1>1, <1>3, Zenon DEF WholeField
<1>5. FieldEndOf(s, i, L) # Failed /\ i \in Nat
    BY <1>2, <1>3, <1>4 DEF Failed
<1>6. i < FieldEndOf(s, i, L)
    BY <1>2, <1>5, FieldEndInside
<1> QED
    BY <1>2, <1>3, <1>4, <1>6

(* A field that clearing by number has looked at stays when its number is  *)
(* another: it has bytes and a number.                                     *)
LEMMA NumbersAgree ==
    ASSUME NEW number \in Asked, NEW s, WholeField(s, LongestTag), s # <<>> => FirstTag(s).ok
    PROVE  rawFieldNumber(s) \notin {0, number} <=> NumberOf(s) # number
<1>1. s # <<>> /\ FirstTag(s).ok
    BY EmptyRefused
<1>2. FirstTag(s).number # 0
    BY <1>1, Zenon DEF FirstTag, readTag
<1>3. rawFieldNumber(s) = FirstTag(s).number
    BY <1>1 DEF rawFieldNumber
<1>4. number # 0
    <2>1. number \in FieldNumber
        BY NumberAssumption
    <2> QED
        BY <2>1, FieldNumberIs, SMT
<1> QED
    BY <1>2, <1>3, <1>4 DEF NumberOf

\* What a step of UnknownFields is to the log.
LogStep == LogInv' /\ [Log!Next]_Log!vars

LEMMA RemoveLogged ==
    ASSUME Typed, StoredWhole, NEW m \in Message, NEW number \in Asked,
           NEW then \in Seq(Seq(Byte)), then = <<>> \/ OneRaw(then), CallRemove(m, number, then)
    PROVE  LogStep
<1> DEFINE all == unknown[m].fields
<1>1. /\ UNCHANGED <<heap, unknown, defined>> /\ m \in defined' /\ m \in defined
      /\ all \in Seq(Field)
    BY DEF CallRemove, Typed, TypeOK, Table
<1>2. CASE Malformed(m)
    BY <1>1, <1>2, NothingLogged, LogStutters DEF CallRemove, Return, NoCall, LogStep
<1>3. CASE Appending(m, then)
    BY <1>1, <1>3, AppendingLogged, LogStutters DEF LogStep
<1>4. CASE /\ ~Malformed(m)
           /\ call' = [NoCall EXCEPT !.does = "remove", !.into = m, !.number = number,
                          !.then = then, !.items = unknown[m].fields]
    <2>1. call' = [does |-> "remove", into |-> m, fresh |-> Empty, todo |-> <<>>,
                   items |-> all, then |-> then, number |-> number,
                   reuse |-> FALSE, broken |-> FALSE]
        BY <1>4 DEF NoCall
    <2>2. /\ call'.does = "remove" /\ call'.into = m /\ call'.items = all /\ call'.then = then
          /\ call'.number = number /\ call'.fresh = Empty
        BY <2>1
    <2>3. Sifted("remove", number, all, all, <<>>)
        BY <1>1, SiftStart
    <2>4. ASSUME NEW i \in DOMAIN all
          PROVE  Spares("remove", number, all[i].bytes) <=> Stays("remove", number, all[i].bytes)
        <3>1. WholeField(all[i].bytes, LongestTag)
            BY DEF StoredWhole
        <3>2. all[i].bytes # <<>> => FirstTag(all[i].bytes).ok
            BY <1>4 DEF Malformed
        <3> QED
            BY <3>1, <3>2, NumbersAgree DEF Stays, Spares
    <2>5. unknown'[call'.into].fields = all
        BY <1>1, <2>2
    <2> HIDE DEF all
    <2>6. RemovesOK'
        <3>1. Agree("remove", number, all)
            BY <2>4 DEF Agree
        <3>2. Empty.fields = <<>>
            BY DEF Empty
        <3> QED
            BY <2>2, <2>3, <2>5, <3>1, <3>2 DEF RemovesOK, Running, OneRaw
    <2>7. CopiesOK'
        BY <2>2 DEF CopiesOK, Running
    <2> QED
        BY <1>1, <2>6, <2>7, LogStutters DEF LogStep, LogInv
<1> QED
    BY <1>2, <1>3, <1>4, Zenon DEF CallRemove

LEMMA ItemsLogged ==
    ASSUME Typed, NEW m \in Message,
           NEW then \in Seq(Seq(Byte)), then = <<>> \/ OneRaw(then), CallClearItems(m, then)
    PROVE  LogStep
<1> DEFINE all == unknown[m].fields
<1>1. /\ UNCHANGED <<heap, unknown, defined>> /\ m \in defined' /\ m \in defined
      /\ all \in Seq(Field)
    BY DEF CallClearItems, Typed, TypeOK, Table
<1>2. CASE Appending(m, then)
    BY <1>1, <1>2, AppendingLogged, LogStutters DEF LogStep
<1>3. CASE call' = [NoCall EXCEPT !.does = "items", !.into = m, !.then = then,
                       !.items = unknown[m].fields]
    <2>1. call' = [does |-> "items", into |-> m, fresh |-> Empty, todo |-> <<>>,
                   items |-> all, then |-> then, number |-> 0,
                   reuse |-> FALSE, broken |-> FALSE]
        BY <1>3 DEF NoCall
    <2>2. /\ call'.does = "items" /\ call'.into = m /\ call'.items = all /\ call'.then = then
          /\ call'.number = 0 /\ call'.fresh = Empty
        BY <2>1
    <2>3. Sifted("items", 0, all, all, <<>>)
        BY <1>1, SiftStart
    <2>4. ASSUME NEW i \in DOMAIN all
          PROVE  Spares("items", 0, all[i].bytes) <=> Stays("items", 0, all[i].bytes)
        BY DEF Spares, Stays, OfExtension
    <2>5. unknown'[call'.into].fields = all
        BY <1>1, <2>2
    <2> HIDE DEF all
    <2>6. RemovesOK'
        <3>1. Agree("items", 0, all)
            BY <2>4 DEF Agree
        <3>2. Empty.fields = <<>>
            BY DEF Empty
        <3> QED
            BY <2>2, <2>3, <2>5, <3>1, <3>2 DEF RemovesOK, Running, OneRaw
    <2>7. CopiesOK'
        BY <2>2 DEF CopiesOK, Running
    <2> QED
        BY <1>1, <2>6, <2>7, LogStutters DEF LogStep, LogInv
<1> QED
    BY <1>2, <1>3, Zenon DEF CallClearItems

-----------------------------------------------------------------------------
LEMMA FreedLogs ==
    ASSUME TypeOK, NEW m \in Message, Freed(m)
    PROVE  FieldsStored' = [FieldsStored EXCEPT ![m] = <<>>]
<1>1. Empty.fields = <<>> /\ <<>> \in Seq(Field)
    BY DEF Empty
<1>2. Bytes(Empty.fields) = <<>>
    BY <1>1, BytesIs
<1>3. FieldsStored' = [FieldsStored EXCEPT ![m] = Bytes(Empty.fields)]
    BY LogSet DEF Freed
<1> QED
    BY <1>2, <1>3

LEMMA NothingStored ==
    ASSUME NEW m \in Message, unknown[m] = Empty
    PROVE  FieldsStored[m] = <<>>
<1>1. Empty.fields = <<>> /\ <<>> \in Seq(Field)
    BY DEF Empty
<1> QED
    BY <1>1, BytesIs, LogAt

LEMMA DecodeLogged ==
    ASSUME TypeOK, TablesHoldFields, NEW m \in Message, NEW s \in Encoded, CallDecode(m, s)
    PROVE  LogStep
<1>1. call' = [does |-> "decode", into |-> m, fresh |-> Empty,
               todo |-> ReadMessage(s).fields, items |-> <<>>, then |-> <<>>,
               number |-> 0, reuse |-> m \in defined, broken |-> ~ReadMessage(s).ok]
    BY Zenon DEF CallDecode, NoCall
<1>2. /\ call'.does = "decode" /\ call'.fresh = Empty /\ call'.todo = ReadMessage(s).fields
      /\ call'.broken <=> ~ReadMessage(s).ok
    BY <1>1
<1>3. Copied' = ReadMessage(s).fields
    <2> DEFINE raws == ReadMessage(s).fields
    <2>1. raws \in Seq(Seq(Byte))
        <3>1. s \in Seq(Byte)
            BY RawAssumption
        <3> QED
            BY <3>1, StreamValid DEF ReadMessage, ReadResult
    <2>2. Empty.fields = <<>> /\ <<>> \in Seq(Field)
        BY DEF Empty
    <2>3. Bytes(Empty.fields) = <<>>
        BY <2>2, BytesIs
    <2>4. Copied' = Bytes(call'.fresh.fields) \o call'.todo
        BY DEF Copied
    <2>5. Copied' = <<>> \o raws
        BY <1>2, <2>3, <2>4
    <2> HIDE DEF raws
    <2>6. <<>> \o raws = raws
        BY <2>1
    <2> QED
        BY <2>5, <2>6 DEF raws
<1>4. CopiesOK'
    BY <1>2, <1>3, Zenon DEF CopiesOK, Running
<1>5. RemovesOK'
    BY <1>2 DEF RemovesOK
<1>6. CASE m \in defined
    <2>1. Log!Clear(m)
        BY <1>6, FreedLogs DEF CallDecode, Log!Clear, Log!Gets
    <2>2. Log!Next
        BY <2>1, Zenon DEF Log!Next
    <2> QED
        BY <1>4, <1>5, <2>2 DEF LogStep, LogInv
<1>7. CASE m \notin defined
    <2>1. unknown' = unknown /\ defined' = defined
        <3>1. unknown[m] = Empty
            BY <1>7 DEF TablesHoldFields
        <3> QED
            BY <3>1 DEF CallDecode, Freed, TypeOK
    <2> QED
        BY <1>4, <1>5, <2>1, LogStutters DEF LogStep, LogInv
<1> QED
    BY <1>6, <1>7

LEMMA CloneLogged ==
    ASSUME Typed, TablesHoldFields, NEW m \in Message, NEW other \in Message,
           CloneOwned(m, other)
    PROVE  LogStep
<1> DEFINE raws == Bytes(unknown[other].fields)
<1>1. /\ raws \in Seq(Seq(Byte)) /\ raws = Stored(other)
      /\ m \notin defined /\ other \in defined /\ call.does = "none" /\ unknown' = unknown
    BY BytesTyped DEF CloneOwned, Idle, Stored, Typed, TypeOK, Table
<1>2. CASE raws = <<>>
    <2>1. defined' = defined \cup {m} /\ call' = call
        BY <1>2, Zenon DEF CloneOwned
    <2>2. unknown[m] = Empty
        BY <1>1 DEF TablesHoldFields
    <2>3. FieldsStored[m] = <<>> /\ FieldsStored[other] = <<>> /\ FieldsStored' = FieldsStored
        BY <1>1, <1>2, <2>2, NothingStored, LogAt, LogSame
    <2>4. FieldsStored' = [FieldsStored EXCEPT ![m] = FieldsStored[other]]
        BY <2>3 DEF FieldsStored
    <2>5. Log!Clone(m, other)
        BY <1>1, <2>1, <2>4, Zenon DEF Log!Clone, Log!Gets
    <2>6. Log!Next
        BY <2>5, Zenon DEF Log!Next
    <2> QED
        BY <1>1, <2>1, <2>6, NothingLogged DEF LogStep
<1>3. CASE raws # <<>>
    <2>1. /\ call' = [NoCall EXCEPT !.does = "append", !.into = m, !.todo = raws]
          /\ defined' = defined
        BY <1>3, Zenon DEF CloneOwned
    <2>2. Stored(other)' = raws
        BY <1>1 DEF Stored
    <2> HIDE DEF raws
    <2>3. LogInv'
        BY <1>1, <2>1, <2>2, AppendLogged
    <2> QED
        BY <1>1, <2>1, <2>3, LogStutters DEF LogStep
<1> QED
    BY <1>2, <1>3

LEMMA CallsLogged ==
    ASSUME Typed, TablesHoldFields, StoredWhole, NEW m \in Message, Calls(m)
    PROVE  LogStep
<1>1. TypeOK /\ Typed
    BY DEF Typed
<1>2. ASSUME call.does = "none", call' = call
      PROVE  LogInv'
    BY <1>2, NothingLogged
<1>3. CASE Construct(m)
    <2>1. Log!Construct(m)
        BY <1>3, LogSame DEF Construct, Log!Construct
    <2>2. Log!Next
        BY <2>1, Zenon DEF Log!Next
    <2> QED
        BY <1>2, <1>3, <2>2 DEF Construct, Idle, LogStep
<1>4. CASE Deinit(m)
    <2>1. Log!Deinit(m)
        BY <1>1, <1>4, FreedLogs DEF Deinit, Log!Deinit, Log!Gets
    <2>2. Log!Next
        BY <2>1, Zenon DEF Log!Next
    <2> QED
        BY <1>2, <1>4, <2>2 DEF Deinit, Idle, LogStep
<1>5. CASE ClearUnknownFields(m)
    <2>1. Log!Clear(m)
        BY <1>1, <1>5, FreedLogs DEF ClearUnknownFields, Log!Clear, Log!Gets
    <2>2. Log!Next
        BY <2>1, Zenon DEF Log!Next
    <2> QED
        BY <1>2, <1>5, <2>2 DEF ClearUnknownFields, Idle, LogStep
<1>6. ASSUME NEW raw \in Raw, AppendUnknownRaw(m, raw)
      PROVE  LogStep
    <2>1. Appending(m, <<raw>>) /\ m \in defined' /\ UNCHANGED <<unknown, defined>>
        BY <1>6 DEF AppendUnknownRaw
    <2>2. OneRaw(<<raw>>)
        BY Zenon DEF OneRaw
    <2> QED
        BY <2>1, <2>2, RawTyped, AppendingLogged, LogStutters DEF LogStep
<1>7. ASSUME NEW other \in Message, MergeFrom(m, other)
      PROVE  LogStep
    <2> DEFINE raws == Bytes(unknown[other].fields)
    <2>1. /\ Appending(m, raws) /\ m \in defined' /\ other \in defined'
          /\ UNCHANGED <<unknown, defined>> /\ raws = Stored(other)'
        BY <1>7 DEF MergeFrom, Stored
    <2>2. raws \in Seq(Seq(Byte))
        BY <1>1, BytesTyped DEF TypeOK, Table
    <2> HIDE DEF raws
    <2> QED
        BY <2>1, <2>2, AppendingLogged, LogStutters DEF LogStep
<1>8. <<>> \in Seq(Seq(Byte)) /\ \A raw \in Raw : <<raw>> \in Seq(Seq(Byte)) /\ OneRaw(<<raw>>)
    BY RawTyped DEF OneRaw
<1> QED
    BY <1>1, <1>3, <1>4, <1>5, <1>6, <1>7, <1>8, CloneLogged, DecodeLogged, RemoveLogged,
        ItemsLogged, Zenon DEF Calls, EncodedValue, EncodedItem

-----------------------------------------------------------------------------
LEMMA AllocateLogged ==
    ASSUME Typed, LogInv, AllocateTable
    PROVE  LogStep
<1>1. call \in Call /\ call.fresh \in Table
    BY DEF Typed, TypeOK, Call
<1>2. /\ call'.does = call.does /\ call'.into = call.into /\ call'.items = call.items
      /\ call'.todo = call.todo /\ call'.number = call.number /\ call'.then = call.then
      /\ call'.broken = call.broken
      /\ call'.fresh.fields = call.fresh.fields
      /\ unknown' = unknown /\ defined' = defined
    BY <1>1 DEF AllocateTable, Call, Table
<1>3. Copied' = Copied /\ \A m : Stored(m)' = Stored(m)
    BY <1>2 DEF Copied, Stored
<1>4. CopiesOK'
    BY <1>2, <1>3, Zenon DEF LogInv, CopiesOK, Running, OneValid, OneRaw
<1>5. RemovesOK'
    BY <1>2 DEF LogInv, RemovesOK, Running, OneRaw
<1> QED
    BY <1>2, <1>4, <1>5, LogStutters DEF LogStep, LogInv

LEMMA MoveHead ==
    ASSUME NEW S, NEW a \in Seq(S), NEW t \in Seq(S), t # <<>>
    PROVE  Append(a, Head(t)) \o Tail(t) = a \o t
<1>1. /\ Len(a) \in Nat /\ Len(t) \in Nat /\ Len(t) >= 1
      /\ Head(t) \in S /\ Tail(t) \in Seq(S) /\ Len(Tail(t)) = Len(t) - 1 /\ Head(t) = t[1]
      /\ \A i \in 1 .. Len(t) - 1 : Tail(t)[i] = t[i + 1]
    OBVIOUS
<1>2. /\ Append(a, Head(t)) \in Seq(S) /\ Len(Append(a, Head(t))) = Len(a) + 1
      /\ \A i \in 1 .. Len(a) : Append(a, Head(t))[i] = a[i]
      /\ Append(a, Head(t))[Len(a) + 1] = Head(t)
    BY <1>1, AppendProperties
<1> DEFINE b == Append(a, Head(t))
           d == Tail(t)
<1> HIDE DEF b, d
<1>3. /\ b \o d \in Seq(S) /\ Len(b \o d) = Len(b) + Len(d)
      /\ \A i \in 1 .. Len(b) + Len(d) : (b \o d)[i] = IF i <= Len(b) THEN b[i] ELSE d[i - Len(b)]
    BY <1>1, <1>2, ConcatProperties DEF b, d
<1>4. /\ a \o t \in Seq(S) /\ Len(a \o t) = Len(a) + Len(t)
      /\ \A i \in 1 .. Len(a) + Len(t) : (a \o t)[i] = IF i <= Len(a) THEN a[i] ELSE t[i - Len(a)]
    BY ConcatProperties
<1>5. Len(b) = Len(a) + 1 /\ Len(d) = Len(t) - 1
    BY <1>1, <1>2 DEF b, d
<1>6. Len(b) + Len(d) = Len(a) + Len(t)
    BY <1>1, <1>5
<1>7. \A i \in 1 .. Len(a) + Len(t) : (b \o d)[i] = (a \o t)[i]
    <2> TAKE i \in 1 .. Len(a) + Len(t)
    <2>1. CASE i <= Len(a)
        <3>1. i \in 1 .. Len(a) /\ i <= Len(b)
            BY <1>1, <1>5, <2>1
        <3>2. (b \o d)[i] = b[i] /\ (a \o t)[i] = a[i]
            BY <1>3, <1>4, <1>6, <2>1, <3>1
        <3> QED
            BY <1>2, <3>1, <3>2 DEF b
    <2>2. CASE i = Len(a) + 1
        <3>1. i <= Len(b) /\ ~(i <= Len(a)) /\ i - Len(a) = 1
            BY <1>1, <1>5, <2>2
        <3>2. (b \o d)[i] = b[Len(a) + 1] /\ (a \o t)[i] = t[1]
            BY <1>3, <1>4, <1>6, <2>2, <3>1
        <3> QED
            BY <1>1, <1>2, <3>2 DEF b
    <2>3. CASE i > Len(a) + 1
        <3>1. /\ ~(i <= Len(b)) /\ ~(i <= Len(a)) /\ i - Len(b) \in 1 .. Len(t) - 1
              /\ (i - Len(b)) + 1 = i - Len(a)
            BY <1>1, <1>5, <2>3
        <3>2. (b \o d)[i] = d[i - Len(b)] /\ (a \o t)[i] = t[i - Len(a)]
            BY <1>3, <1>4, <1>6, <3>1
        <3>3. d[i - Len(b)] = t[(i - Len(b)) + 1]
            BY <1>1, <3>1 DEF d
        <3> QED
            BY <3>1, <3>2, <3>3
    <2>4. i <= Len(a) \/ i = Len(a) + 1 \/ i > Len(a) + 1
        BY <1>1
    <2> QED
        BY <2>1, <2>2, <2>3, <2>4, Zenon
<1>8. b \o d = a \o t
    BY <1>3, <1>4, <1>6, <1>7, SeqEqual
<1> QED
    BY <1>8 DEF b, d

LEMMA CopyLogged ==
    ASSUME Typed, LogInv, CopyField
    PROVE  LogStep
<1> DEFINE f == [block |-> Block, bytes |-> Head(call.todo)]
<1>1. /\ call \in Call /\ call.fresh \in Table /\ call.fresh.fields \in Seq(Field)
      /\ call.todo \in Seq(Seq(Byte)) /\ call.todo # <<>>
      /\ call.does \in {"append", "decode"}
    BY DEF Typed, TypeOK, Call, Table, CopyField, Copying
<1>2. /\ f \in Field /\ f.bytes = Head(call.todo)
    BY <1>1, FreshBlock DEF Field
<1> HIDE DEF f
<1>3. /\ call'.does = call.does /\ call'.into = call.into /\ call'.broken = call.broken
      /\ call'.todo = Tail(call.todo)
      /\ call'.fresh.fields = Append(call.fresh.fields, f)
      /\ unknown' = unknown /\ defined' = defined
    BY <1>1 DEF CopyField, Call, Table, f
<1>4. Copied' = Copied
    <2>1. Bytes(call'.fresh.fields) = Append(Bytes(call.fresh.fields), Head(call.todo))
        BY <1>1, <1>2, <1>3, BytesAppend
    <2>2. Bytes(call.fresh.fields) \in Seq(Seq(Byte))
        BY <1>1, BytesTyped
    <2>3. Append(Bytes(call.fresh.fields), Head(call.todo)) \o Tail(call.todo)
            = Bytes(call.fresh.fields) \o call.todo
        BY <1>1, <2>2, MoveHead
    <2> QED
        BY <1>3, <2>1, <2>3 DEF Copied
<1>5. \A m : Stored(m)' = Stored(m)
    BY <1>3 DEF Stored
<1>6. CopiesOK'
    BY <1>3, <1>4, <1>5, Zenon DEF LogInv, CopiesOK, Running, OneValid, OneRaw
<1>7. RemovesOK'
    BY <1>1, <1>3 DEF RemovesOK
<1> QED
    BY <1>3, <1>6, <1>7, LogStutters DEF LogStep, LogInv

LEMMA SiftLogged ==
    ASSUME Typed, CallInv, LogInv, FreeField \/ KeepField
    PROVE  LogStep
<1> DEFINE all == unknown[call.into].fields
           f == Head(call.items)
<1>1. /\ call \in Call /\ call.fresh \in Table /\ call.items \in Seq(Field) /\ call.items # <<>>
      /\ call.does \in {"remove", "items"} /\ all \in Seq(Field)
    BY DEF Typed, TypeOK, Call, Table, FreeField, KeepField, NextIs, CallInv
<1>2. /\ call'.does = call.does /\ call'.into = call.into /\ call'.items = Tail(call.items)
      /\ call'.number = call.number /\ call'.then = call.then
      /\ call'.fresh.fields = IF Verdict(f) = "none" THEN Append(call.fresh.fields, f)
                              ELSE call.fresh.fields
      /\ unknown' = unknown /\ defined' = defined
    <2>1. CASE FreeField
        <3>1. Verdict(f) = "value"
            BY <2>1 DEF FreeField, NextIs
        <3> QED
            BY <1>1, <2>1, <3>1 DEF FreeField, Call
    <2>2. CASE KeepField
        <3>1. Verdict(f) = "none"
            BY <2>2 DEF KeepField, NextIs
        <3> QED
            BY <1>1, <2>2, <3>1 DEF KeepField, Call, Table
    <2> QED
        BY <2>1, <2>2, Zenon
<1>3. Verdict(f) = "none" <=> Spares(call.does, call.number, f.bytes)
    BY <1>1 DEF Verdict, Running, Spares
<1>4. /\ Sifted(call.does, call.number, all, call.items, call.fresh.fields)
      /\ Agree(call.does, call.number, all)
      /\ Running("remove") => call.number \in Asked
      /\ call.then = <<>> \/ OneRaw(call.then)
    BY <1>1 DEF LogInv, RemovesOK
<1> HIDE DEF all
<1>5. /\ \E i \in DOMAIN all : f = all[i]
      /\ Sifted(call.does, call.number, all, Tail(call.items),
                IF Stays(call.does, call.number, f.bytes) THEN Append(call.fresh.fields, f)
                ELSE call.fresh.fields)
    BY <1>1, <1>4, SiftStep
<1>6. Spares(call.does, call.number, f.bytes) <=> Stays(call.does, call.number, f.bytes)
    BY <1>4, <1>5 DEF Agree
<1>7. Sifted(call.does, call.number, all, Tail(call.items), call'.fresh.fields)
    <2> HIDE DEF f
    <2> QED
        BY <1>2, <1>3, <1>5, <1>6
<1>8. unknown'[call'.into].fields = all
    BY <1>2 DEF all
<1>9. RemovesOK'
    BY <1>1, <1>2, <1>4, <1>7, <1>8 DEF RemovesOK, Running, OneRaw
<1>10. CopiesOK'
    BY <1>1, <1>2 DEF CopiesOK, Running
<1> QED
    BY <1>2, <1>9, <1>10, LogStutters DEF LogStep, LogInv

LEMMA AppendedLogged ==
    ASSUME Typed, CallInv, TablesHoldFields, LogInv, Appended
    PROVE  LogStep
<1> DEFINE m == call.into
           old == unknown[m].fields
           new == call.fresh.fields
<1>1. /\ m \in Message /\ old \in Seq(Field) /\ new \in Seq(Field)
      /\ call.does = "append" /\ call.todo = <<>> /\ TypeOK
      /\ defined \subseteq Message
    BY DEF Typed, TypeOK, Call, Table, Appended, Running
<1>2. Copied = Bytes(new)
    <2> DEFINE b == Bytes(new)
    <2>1. b \in Seq(Seq(Byte))
        BY <1>1, BytesTyped
    <2> HIDE DEF b
    <2>2. b \o <<>> = b
        BY <2>1
    <2> QED
        BY <1>1, <2>2 DEF Copied, b
<1>3. FieldsStored' = [FieldsStored EXCEPT ![m] = FieldsStored[m] \o Bytes(new)]
    <2> DEFINE t == [block |-> call.fresh.block, fields |-> old \o new]
    <2>1. unknown' = [unknown EXCEPT ![m] = t] /\ t.fields = old \o new
        BY DEF Appended
    <2> HIDE DEF t
    <2>2. FieldsStored' = [FieldsStored EXCEPT ![m] = Bytes(t.fields)]
        BY <1>1, <2>1, LogSet
    <2>3. Bytes(old \o new) = Bytes(old) \o Bytes(new)
        BY <1>1, BytesConcat
    <2> QED
        BY <1>1, <2>1, <2>2, <2>3, LogAt
<1>4. defined' = defined \cup {m} /\ LogInv'
    BY NothingLogged DEF Appended, Return, NoCall
<1>5. CASE m \in defined /\ OneValid(Bytes(new))
    <2>1. PICK raw \in Raw : Bytes(new) = <<raw>>
        BY <1>5 DEF OneValid, OneRaw
    <2>2. validateRawField(raw)
        <3>1. 1 \in DOMAIN Bytes(new) /\ Bytes(new)[1] = raw
            BY <2>1
        <3> QED
            BY <1>5, <3>1, Zenon DEF OneValid, AllValid
    <2>3. FieldsStored[m] \o <<raw>> = Append(FieldsStored[m], raw)
        <3>1. FieldsStored[m] \in Seq(Seq(Byte)) /\ raw \in Seq(Byte)
            BY <1>1, LogAt, BytesTyped, RawAssumption
        <3> DEFINE b == FieldsStored[m]
                   B == Seq(Byte)
        <3> HIDE DEF b, B
        <3>2. b \in Seq(B) /\ raw \in B => b \o <<raw>> = Append(b, raw)
            OBVIOUS
        <3> QED
            BY <3>1, <3>2 DEF b, B
    <2>4. Log!AppendRaw(m, raw)
        BY <1>3, <1>4, <1>5, <2>1, <2>2, <2>3, Zenon DEF Log!AppendRaw, Log!Gets
    <2>5. Log!Next
        BY <1>1, <2>4, Zenon DEF Log!Next
    <2> QED
        BY <1>4, <2>5 DEF LogStep
<1>6. ASSUME NEW other \in defined, Bytes(new) = Stored(other)
      PROVE  LogStep
    <2>1. other \in Message /\ FieldsStored[other] = Bytes(new)
        BY <1>1, <1>6, LogAt DEF Stored
    <2>2. CASE m \in defined
        <3>1. Log!Merge(m, other)
            BY <1>3, <1>4, <1>6, <2>1, <2>2 DEF Log!Merge, Log!Gets
        <3>2. Log!Next
            BY <1>1, <2>1, <3>1, Zenon DEF Log!Next
        <3> QED
            BY <1>4, <3>2 DEF LogStep
    <2>3. CASE m \notin defined
        <3>1. FieldsStored[m] = <<>>
            BY <1>1, <2>3, NothingStored DEF TablesHoldFields
        <3>2. <<>> \o Bytes(new) = Bytes(new)
            <4> DEFINE b == Bytes(new)
            <4>1. b \in Seq(Seq(Byte))
                BY <1>1, BytesTyped
            <4> HIDE DEF b
            <4> QED
                BY <4>1 DEF b
        <3>3. Log!Clone(m, other)
            BY <1>3, <1>4, <1>6, <2>1, <2>3, <3>1, <3>2 DEF Log!Clone, Log!Gets
        <3>4. Log!Next
            BY <1>1, <2>1, <3>3, Zenon DEF Log!Next
        <3> QED
            BY <1>4, <3>4 DEF LogStep
    <2> QED
        BY <2>2, <2>3
<1>7. (m \in defined /\ OneValid(Bytes(new))) \/ \E other \in defined : Bytes(new) = Stored(other)
    BY <1>1, <1>2 DEF LogInv, CopiesOK, Running
<1> QED
    BY <1>5, <1>6, <1>7

LEMMA DecodedLogged ==
    ASSUME Typed, CallInv, LogInv, Decoded
    PROVE  LogStep
<1> DEFINE m == call.into
           new == call.fresh.fields
<1>1. /\ m \in Message /\ new \in Seq(Field) /\ TypeOK
      /\ call.does = "decode" /\ call.todo = <<>> /\ ~call.broken
    BY DEF Typed, TypeOK, Call, Table, Decoded, Running
<1>2. Copied = Bytes(new)
    <2> DEFINE b == Bytes(new)
    <2>1. b \in Seq(Seq(Byte))
        BY <1>1, BytesTyped
    <2> HIDE DEF b
    <2>2. b \o <<>> = b
        BY <2>1
    <2> QED
        BY <1>1, <2>2 DEF Copied, b
<1>3. PICK s \in Encoded : Copied = ReadMessage(s).fields /\ (call.broken <=> ~ReadMessage(s).ok)
    BY <1>1 DEF LogInv, CopiesOK, Running
<1>4. FieldsStored' = [FieldsStored EXCEPT ![m] = ReadMessage(s).fields]
    <2>1. unknown' = [unknown EXCEPT ![m] = call.fresh]
        BY DEF Decoded
    <2>2. FieldsStored' = [FieldsStored EXCEPT ![m] = Bytes(new)]
        BY <1>1, <2>1, LogSet
    <2> QED
        BY <1>2, <1>3, <2>2
<1>5. FieldsStored[m] = <<>>
    BY <1>1, NothingStored DEF CallInv, Running
<1>6. ReadMessage(s).ok
    BY <1>1, <1>3
<1>7. defined' = defined \cup {m} /\ LogInv'
    BY NothingLogged DEF Decoded, Return, NoCall
<1>8. Log!Decode(m, s)
    BY <1>4, <1>5, <1>6, <1>7, Zenon DEF Log!Decode, Log!Gets
<1>9. Log!Next
    BY <1>1, <1>8, Zenon DEF Log!Next
<1> QED
    BY <1>7, <1>9 DEF LogStep

LEMMA ClearedLogged ==
    ASSUME Typed, CallInv, LogInv, Cleared
    PROVE  LogStep
<1> DEFINE m == call.into
           all == unknown[m].fields
           new == call.fresh.fields
<1>1. /\ m \in Message /\ all \in Seq(Field) /\ TypeOK
      /\ call.does \in {"remove", "items"} /\ call.items = <<>> /\ m \in defined
      /\ call.then \in Seq(Seq(Byte)) /\ defined' = defined
    BY DEF Typed, TypeOK, Call, Table, Cleared, CallInv
<1>2. /\ call.does = "remove" => call.number \in Asked
      /\ call.then = <<>> \/ OneRaw(call.then)
      /\ Sifted(call.does, call.number, all, <<>>, new)
    BY <1>1 DEF LogInv, RemovesOK, Running
<1>3. LogInv'
    BY <1>1, <1>2, AppendingLogged DEF Cleared
<1>4. FieldsStored' = [FieldsStored EXCEPT ![m] = Bytes(new)]
    BY <1>1, LogSet DEF Cleared
<1>5. Bytes(new) = AtPositions(FieldsStored[m],
            {i \in DOMAIN FieldsStored[m] : Stays(call.does, call.number, FieldsStored[m][i])})
    <2>1. FieldsStored[m] = Bytes(all)
        BY <1>1, LogAt
    <2> HIDE DEF all, new
    <2> QED
        BY <1>1, <1>2, <2>1, SiftEnd
<1>6. \A s, I : Log!AtPositions(s, I) = AtPositions(s, I)
    BY Zenon DEF Log!AtPositions, AtPositions, Log!Nth, Nth, Log!Cardinality, Cardinality
<1>7. CASE call.does = "remove"
    <2>1. Bytes(new) = AtPositions(FieldsStored[m],
                {i \in DOMAIN FieldsStored[m] : NumberOf(FieldsStored[m][i]) # call.number})
        BY <1>5, <1>7 DEF Stays
    <2>2. Log!RemoveNumber(m, call.number)
        BY <1>1, <1>4, <1>6, <2>1 DEF Log!RemoveNumber, Log!Keep, Log!Gets
    <2>3. Log!Next
        BY <1>1, <1>2, <1>7, <2>2, Zenon DEF Log!Next
    <2> QED
        BY <1>3, <2>3 DEF LogStep
<1>8. CASE call.does = "items"
    <2>1. Bytes(new) = AtPositions(FieldsStored[m],
                {i \in DOMAIN FieldsStored[m] : ~OfExtension(FieldsStored[m][i])})
        BY <1>5, <1>8 DEF Stays
    <2>2. Log!RemoveExtension(m)
        BY <1>1, <1>4, <1>6, <2>1 DEF Log!RemoveExtension, Log!Keep, Log!Gets
    <2>3. Log!Next
        BY <1>1, <2>2, Zenon DEF Log!Next
    <2> QED
        BY <1>3, <2>3 DEF LogStep
<1> QED
    BY <1>1, <1>7, <1>8

LEMMA FailsLogged ==
    ASSUME Typed, CallInv, Fails
    PROVE  LogStep
<1> DEFINE m == call.into
<1>1. m \in Message /\ unknown' = unknown /\ FieldsStored' = FieldsStored
    BY LogSame DEF Typed, TypeOK, Call, Fails
<1>2. LogInv'
    BY NothingLogged DEF Fails, Return, NoCall
<1>3. CASE call.does = "decode" /\ m \in defined
    <2>1. FieldsStored[m] = <<>>
        BY <1>1, <1>3, NothingStored DEF CallInv, Running
    <2>2. FieldsStored' = [FieldsStored EXCEPT ![m] = <<>>]
        BY <1>1, <2>1 DEF FieldsStored
    <2>3. defined' = defined \ {m}
        BY <1>3 DEF Fails, Running
    <2>4. Log!Deinit(m)
        BY <1>3, <2>2, <2>3 DEF Log!Deinit, Log!Gets
    <2>5. Log!Next
        BY <1>1, <2>4, Zenon DEF Log!Next
    <2> QED
        BY <1>2, <2>5 DEF LogStep
<1>4. CASE ~(call.does = "decode" /\ m \in defined)
    <2>1. defined' = defined
        BY <1>4 DEF Fails, Running
    <2> QED
        BY <1>1, <1>2, <2>1, LogStutters DEF LogStep
<1> QED
    BY <1>3, <1>4

-----------------------------------------------------------------------------
(* UnknownFields implements UnknownFieldLog: whatever the calls allocate,  *)
(* copy and free, and wherever they fail, the bytes of the fields of every *)
(* message change in one step, all that was asked or nothing, and removal  *)
(* keeps exactly the fields it was not asked to remove, in their order.    *)
THEOREM ImplementsUnknownFieldLog == Spec => ImplementsLog
<1>1. Init => LogInv /\ Log!Init
    <2>1. SUFFICES ASSUME Init PROVE LogInv /\ Log!Init
        OBVIOUS
    <2>2. call.does = "none" /\ defined = {} /\ \A m \in Message : unknown[m] = Empty
        BY <2>1 DEF Init, NoCall
    <2>3. LogInv
        BY <2>2 DEF LogInv, CopiesOK, RemovesOK, Running
    <2>4. \A m \in Message : Stored(m) = <<>>
        BY <2>2, NothingStored, LogAt DEF Stored
    <2>5. FieldsStored = [m \in Message |-> <<>>]
        BY <2>4, Zenon DEF FieldsStored
    <2> QED
        BY <2>2, <2>3, <2>5 DEF Log!Init
<1>2. IInv /\ LogInv /\ [Next]_vars => LogInv' /\ [Log!Next]_Log!vars
    <2>1. SUFFICES ASSUME IInv, LogInv, [Next]_vars PROVE LogStep
        BY DEF LogStep
    <2>2. Typed /\ CallInv /\ TablesHoldFields /\ StoredWhole
        BY <2>1 DEF IInv
    <2>3. CASE Next
        BY <2>1, <2>2, <2>3, CallsLogged, AllocateLogged, CopyLogged, AppendedLogged,
            DecodedLogged, SiftLogged, ClearedLogged, FailsLogged, Zenon
            DEF Next, OutOfMemory, BadInput
    <2>4. CASE UNCHANGED vars
        <3>1. LogInv'
            BY <2>1, <2>4 DEF vars, LogInv, CopiesOK, RemovesOK, Running, Copied, Stored, OneValid, OneRaw
        <3> QED
            BY <2>4, <3>1, LogStutters DEF LogStep, vars
    <2> QED
        BY <2>1, <2>3, <2>4
<1> QED
    BY <1>1, <1>2, Invariance, PTL DEF Spec, ImplementsLog, Log!Spec
=============================================================================
