------------------------ MODULE MessageReaderProofs ------------------------
(***************************************************************************)
(* Proofs about MessageReader, for every input, schema and limit: the      *)
(* Reader stays inside the input, and so do the slices it takes out of it; *)
(* its depth counts the calls in progress; the grammar is well-defined;    *)
(* what is stored of a field the message does not have is a whole field;   *)
(* the dynamic message takes exactly the messages of the grammar, and of   *)
(* one that is decoded the unknown fields are stored, in their order.      *)
(***************************************************************************)
EXTENDS MessageReaderSafety, CommonProofs

-----------------------------------------------------------------------------
(* The inductive invariant.  A position is kept in three places: in the    *)
(* Reader, as the begin of a group being skipped or scanned, and as the    *)
(* place where the caller of a submessage goes on.  They are in order along *)
(* the calls, which is why what is cut out between two of them is a slice. *)

\* A call c of the activation a, as to their positions.
Follows(a, c, len) ==
    IF c.does = "message"
    THEN a.from <= c.index /\ c.index <= c.end /\ c.end <= len
    ELSE a.from <= c.from

CallsOK(cs, ix, len) ==
    /\ cs \in Seq(Activation) /\ Len(cs) # 0
    /\ cs[1].does = "message"
    /\ cs[Len(cs)].from <= ix
    /\ \A k \in 1 .. Len(cs) - 1 : Follows(cs[k], cs[k + 1], len)

DepthOK(cs, depth) == depth = Len(cs) - 1 /\ depth <= RecursionLimit

KeptOK(ks, len) ==
    /\ ks \in Seq(Slice)
    /\ \A i \in DOMAIN ks : ks[i].from < ks[i].to /\ ks[i].to <= len

PayloadsOK(ps, len) ==
    /\ ps \in Seq(GroupSlice)
    /\ \A i \in DOMAIN ps : ps[i].from <= ps[i].to /\ ps[i].to <= len

ReaderOK ==
    /\ input \in Seq(Byte) /\ decoder \in Decoder
    /\ index \in Nat /\ end \in Nat /\ index <= end /\ end <= Len(input)
    /\ outcome \in {"running", "ok", "input", "recursion", "memory"}

IInv ==
    /\ ReaderOK
    /\ CallsOK(calls, index, Len(input))
    /\ DepthOK(calls, recursion_depth)
    /\ KeptOK(kept, Len(input))
    /\ PayloadsOK(payloads, Len(input))

-----------------------------------------------------------------------------
(* Calls *)

LEMMA CallTypes ==
    ASSUME NEW i \in Nat, NEW e \in Nat, NEW d \in {"group", "bytes", "skip"},
           NEW n \in Nat, NEW f \in Nat, NEW k \in BOOLEAN
    PROVE  /\ MessageCall(i, e) \in Activation
           /\ GroupCall(d, n, f, k) \in Activation
  BY DEF MessageCall, GroupCall, Activation

LEMMA Pushed ==
    ASSUME NEW cs, NEW ix \in Nat, NEW len \in Nat, CallsOK(cs, ix, len),
           NEW c \in Activation, NEW jx \in Nat, c.from <= jx,
           Follows(cs[Len(cs)], c, len)
    PROVE  CallsOK(Append(cs, c), jx, len) /\ Len(Append(cs, c)) = Len(cs) + 1
<1> DEFINE ds == Append(cs, c)
<1>1. /\ cs \in Seq(Activation) /\ Len(cs) \in Nat \ {0}
      /\ cs[1].does = "message"
      /\ \A k \in 1 .. Len(cs) - 1 : Follows(cs[k], cs[k + 1], len)
  BY DEF CallsOK
<1>2. /\ ds \in Seq(Activation) /\ Len(ds) = Len(cs) + 1 /\ ds[Len(cs) + 1] = c
      /\ \A k \in 1 .. Len(cs) : ds[k] = cs[k]
  BY <1>1
<1> HIDE DEF ds
<1>3. ASSUME NEW k \in 1 .. Len(ds) - 1 PROVE Follows(ds[k], ds[k + 1], len)
  <2>1. CASE k = Len(cs)
    <3>1. ds[k] = cs[Len(cs)] /\ ds[k + 1] = c
      BY <1>1, <1>2, <2>1
    <3>2. QED
      BY <3>1, Zenon
  <2>2. CASE k # Len(cs)
    <3>1. /\ ds[k] = cs[k] /\ ds[k + 1] = cs[k + 1]
          /\ k \in 1 .. Len(cs) - 1
      BY <1>1, <1>2, <2>2
    <3>2. QED
      BY <1>1, <3>1, Zenon
  <2>3. QED
    BY <2>1, <2>2
<1>4. ds[1] = cs[1] /\ ds[Len(ds)] = c /\ Len(ds) # 0
  BY <1>1, <1>2
<1>5. CallsOK(ds, jx, len)
  BY <1>1, <1>2, <1>3, <1>4, Zenon DEF CallsOK
<1>6. QED
  BY <1>2, <1>5 DEF ds

LEMMA Popped ==
    ASSUME NEW cs, NEW ix \in Nat, NEW len \in Nat, CallsOK(cs, ix, len),
           Len(cs) > 1, NEW jx \in Nat,
           IF Last(cs).does = "message" THEN Last(cs).index <= jx ELSE ix <= jx
    PROVE  CallsOK(Front(cs), jx, len) /\ Len(Front(cs)) = Len(cs) - 1
<1> DEFINE ds == Front(cs)
           n == Len(cs) - 1
<1>1. /\ cs \in Seq(Activation) /\ n \in Nat \ {0}
      /\ cs[1].does = "message"
      /\ cs[n + 1].from <= ix
      /\ \A k \in 1 .. n : Follows(cs[k], cs[k + 1], len)
  BY DEF CallsOK
<1>2. /\ ds \in Seq(Activation) /\ Len(ds) = n
      /\ \A k \in 1 .. n : ds[k] = cs[k]
  BY <1>1 DEF Front
<1>3. cs[n] \in Activation /\ cs[n + 1] \in Activation
  BY <1>1
<1>4. Follows(cs[n], cs[n + 1], len) /\ Last(cs) = cs[n + 1]
  BY <1>1 DEF Last
<1> HIDE DEF ds, n
<1>5. cs[n].from <= jx
  <2>1. /\ cs[n].from \in Nat /\ cs[n + 1].from \in Nat /\ cs[n + 1].index \in Nat
    BY <1>3, Zenon DEF Activation
  <2>2. CASE cs[n + 1].does = "message"
    <3>1. cs[n].from <= cs[n + 1].index /\ cs[n + 1].index <= jx
      BY <1>4, <2>2, Zenon DEF Follows
    <3>2. QED
      BY <2>1, <3>1
  <2>3. CASE cs[n + 1].does # "message"
    <3>1. cs[n].from <= cs[n + 1].from /\ ix <= jx
      BY <1>4, <2>3, Zenon DEF Follows
    <3>2. QED
      BY <1>1, <2>1, <3>1
  <2>4. QED
    BY <2>2, <2>3, Zenon
<1>6. /\ ds[1] = cs[1] /\ ds[Len(ds)] = cs[n] /\ Len(ds) # 0
      /\ \A k \in 1 .. Len(ds) - 1 : k \in 1 .. n /\ ds[k] = cs[k] /\ ds[k + 1] = cs[k + 1]
  BY <1>1, <1>2
<1>7. CallsOK(ds, jx, len)
  BY <1>1, <1>2, <1>5, <1>6, Zenon DEF CallsOK
<1>8. QED
  BY <1>2, <1>7 DEF ds, n

\* The running activation.
LEMMA TopOK ==
    ASSUME IInv
    PROVE  /\ Top \in Activation /\ Top = calls[Len(calls)]
           /\ Top.from \in Nat /\ Top.from <= index
           /\ Len(calls) \in Nat \ {0}
           /\ Top.does # "message" => Len(calls) > 1
<1>1. /\ calls \in Seq(Activation) /\ Len(calls) # 0
      /\ calls[1].does = "message" /\ calls[Len(calls)].from <= index
  BY Zenon DEF IInv, CallsOK
<1>2. Top = calls[Len(calls)]
  BY Zenon DEF Top, Last
<1>3. Len(calls) \in Nat \ {0} /\ calls[Len(calls)] \in Activation
  BY <1>1
<1>4. Top.from \in Nat
  BY <1>2, <1>3, Zenon DEF Activation
<1>5. Top.does # "message" => Len(calls) # 1
  BY <1>1, <1>2, Zenon
<1>6. Top.does # "message" => Len(calls) > 1
  BY <1>3, <1>5
<1>7. QED
  BY <1>1, <1>2, <1>3, <1>4, <1>6, Zenon

LEMMA KeptMore ==
    ASSUME NEW ks, NEW len \in Nat, KeptOK(ks, len),
           NEW from \in Nat, NEW to \in Nat, from < to, to <= len
    PROVE  KeptOK(Append(ks, [from |-> from, to |-> to]), len)
  BY DEF KeptOK, Slice

LEMMA PayloadsMore ==
    ASSUME NEW ps, NEW len \in Nat, PayloadsOK(ps, len), NEW tag \in Nat,
           NEW from \in Nat, NEW to \in Nat, from <= to, to <= len
    PROVE  PayloadsOK(Append(ps, [from |-> from, to |-> to, tag |-> tag]), len)
  BY DEF PayloadsOK, GroupSlice
-----------------------------------------------------------------------------
(* Steps *)

THEOREM InvariantImplies == IInv => TypeOK /\ DepthIsNesting
<1> SUFFICES ASSUME IInv PROVE TypeOK /\ DepthIsNesting
  OBVIOUS
<1>1. /\ calls \in Seq(Activation) /\ Len(calls) # 0
      /\ recursion_depth = Len(calls) - 1 /\ recursion_depth <= RecursionLimit
  BY Zenon DEF IInv, CallsOK, DepthOK
<1>2. recursion_depth \in Nat
  BY <1>1
<1>3. TypeOK
  BY <1>1, <1>2, Zenon DEF IInv, ReaderOK, KeptOK, PayloadsOK, TypeOK
<1>4. QED
  BY <1>1, <1>3, Zenon DEF DepthIsNesting

THEOREM Initially == Init => IInv
<1> SUFFICES ASSUME Init PROVE IInv
  OBVIOUS
<1>1. ReaderOK
  <2>1. input \in Seq(Byte) /\ decoder \in Decoder
    BY InputAssumption, Zenon DEF Init
  <2>2. index = 0 /\ end = Len(input) /\ outcome = "running"
    BY Zenon DEF Init
  <2>3. QED
    BY <2>1, <2>2 DEF ReaderOK
<1>2. CallsOK(calls, index, Len(input)) /\ DepthOK(calls, recursion_depth)
  BY LimitAssumption DEF Init, CallsOK, DepthOK, MessageCall, Activation
<1>3. KeptOK(kept, Len(input)) /\ PayloadsOK(payloads, Len(input))
  BY DEF Init, KeptOK, PayloadsOK
<1>4. QED
  BY <1>1, <1>2, <1>3, Zenon DEF IInv

\* What a step must show when the calls and the depth change or do not.
LEMMA StepOK ==
    ASSUME IInv, UNCHANGED <<input, decoder>>,
           index' \in Nat, end' \in Nat, index' <= end', end' <= Len(input),
           outcome' \in {"running", "ok", "input", "recursion", "memory"},
           CallsOK(calls', index', Len(input)), DepthOK(calls', recursion_depth'),
           KeptOK(kept', Len(input)), PayloadsOK(payloads', Len(input))
    PROVE  IInv'
<1>1. input' = input /\ decoder' = decoder
  OBVIOUS
<1>2. ReaderOK'
  BY <1>1, Zenon DEF IInv, ReaderOK
<1>3. CallsOK(calls, index, Len(input))' /\ DepthOK(calls, recursion_depth)'
  BY <1>1, Zenon DEF CallsOK, DepthOK, Follows
<1>4. KeptOK(kept, Len(input))' /\ PayloadsOK(payloads, Len(input))'
  BY <1>1, Zenon DEF KeptOK, PayloadsOK
<1>5. QED
  BY <1>2, <1>3, <1>4, Zenon DEF IInv

LEMMA FailOK ==
    ASSUME IInv, UNCHANGED <<input, decoder>>,
           NEW error \in {"input", "recursion", "memory"}, Fail(error)
    PROVE  IInv'
<1>1. /\ outcome' = error
      /\ calls' = calls /\ index' = index /\ end' = end
      /\ recursion_depth' = recursion_depth /\ kept' = kept /\ payloads' = payloads
  BY Zenon DEF Fail
<1>2. outcome' \in {"running", "ok", "input", "recursion", "memory"}
  BY <1>1, Zenon
<1>3. QED
  BY <1>1, <1>2, StepOK, Zenon DEF IInv, ReaderOK

LEMMA TagOK ==
    ASSUME IInv, NEW tag \in NextTag
    PROVE  /\ tag.index \in Nat /\ index < tag.index /\ tag.index <= end
           /\ tag.number \in Nat /\ tag.wire_type \in WireType
           /\ tagSize(tag.number) \in 1 .. 5
           /\ tagSize(tag.number) <= tag.index - index
<1>1. tag = readTag(input, index, end, LongestTag) /\ tag.ok
  BY Zenon DEF NextTag
<1>2. /\ input \in Seq(Byte) /\ index \in Nat /\ end \in Nat
      /\ index <= end /\ end <= Len(input)
  BY Zenon DEF IInv, ReaderOK
<1>3. QED
  BY <1>1, <1>2, TagInside, Zenon

\* A value behind the tag: the Reader moves on, and what was stored still is.
LEMMA GoesOK ==
    ASSUME IInv, UNCHANGED <<input, decoder>>, NEW tag \in NextTag, NEW value,
           value.ok => /\ value.index \in Nat /\ tag.index <= value.index
                       /\ value.index <= end,
           Goes(value),
           kept' = kept \/ (value.ok /\ Keeps(index, value.index))
    PROVE  IInv'
<1>1. CASE ~value.ok
  <2>1. Fail("input")
    BY <1>1, Zenon DEF Goes
  <2>2. QED
    BY <2>1, FailOK, Zenon
<1>2. CASE value.ok
  <2>1. /\ index' = value.index /\ calls' = calls /\ end' = end
        /\ recursion_depth' = recursion_depth /\ payloads' = payloads
        /\ outcome' = outcome
    BY <1>2, Zenon DEF Goes
  <2>2. /\ index \in Nat /\ end \in Nat /\ end <= Len(input)
        /\ tag.index \in Nat /\ index < tag.index
        /\ input \in Seq(Byte)
    BY TagOK, Zenon DEF IInv, ReaderOK
  <2>3. /\ value.index \in Nat /\ tag.index <= value.index /\ value.index <= end
    BY <1>2, Zenon
  <2>4. index < value.index /\ value.index <= Len(input) /\ Len(input) \in Nat
    BY <2>2, <2>3
  <2>5. CallsOK(calls, value.index, Len(input))
    <3>1. CallsOK(calls, index, Len(input)) /\ Top = calls[Len(calls)]
          /\ Top.from \in Nat /\ Top.from <= index
      BY TopOK, Zenon DEF IInv
    <3>2. Top.from <= value.index
      BY <2>2, <2>3, <3>1
    <3>3. QED
      BY <3>1, <3>2, Zenon DEF CallsOK
  <2>6. KeptOK(kept', Len(input))
    <3>1. KeptOK(kept, Len(input))
      BY Zenon DEF IInv
    <3>2. CASE kept' = kept
      BY <3>1, <3>2, Zenon
    <3>3. CASE Keeps(index, value.index)
      BY <2>2, <2>3, <2>4, <3>1, <3>3, KeptMore, Zenon DEF Keeps
    <3>4. QED
      BY <3>2, <3>3, Zenon
  <2>7. QED
    BY <2>1, <2>2, <2>3, <2>5, <2>6, StepOK, Zenon DEF IInv, ReaderOK
<1>3. QED
  BY <1>1, <1>2, Zenon
\* A group is entered: the call begins no later than the Reader goes on.
LEMMA EntersOK ==
    ASSUME IInv, UNCHANGED <<input, decoder>>, NEW tag \in NextTag,
           NEW call \in Activation, call.does # "message",
           index <= call.from, call.from <= tag.index,
           Enters(tag, call)
    PROVE  IInv'
<1>1. CASE ~(recursion_depth < RecursionLimit)
  <2>1. Fail("recursion")
    BY <1>1, Zenon DEF Enters
  <2>2. QED
    BY <2>1, FailOK, Zenon
<1>2. CASE recursion_depth < RecursionLimit
  <2>1. /\ recursion_depth' = recursion_depth + 1
        /\ calls' = Append(calls, call) /\ index' = tag.index
        /\ end' = end /\ kept' = kept /\ payloads' = payloads /\ outcome' = outcome
    BY <1>2, Zenon DEF Enters
  <2>2. /\ tag.index \in Nat /\ index < tag.index /\ tag.index <= end
        /\ index \in Nat /\ end \in Nat /\ end <= Len(input)
        /\ CallsOK(calls, index, Len(input)) /\ Top = calls[Len(calls)]
        /\ Top.from \in Nat /\ Top.from <= index
        /\ input \in Seq(Byte)
    BY TagOK, TopOK, Zenon DEF IInv, ReaderOK
  <2>3. Len(input) \in Nat
    BY <2>2
  <2>4. Follows(calls[Len(calls)], call, Len(input))
    <3>1. call.from \in Nat
      BY Zenon DEF Activation
    <3>2. Top.from <= call.from
      BY <2>2, <3>1
    <3>3. QED
      BY <2>2, <3>2, Zenon DEF Follows
  <2>5. CallsOK(calls', index', Len(input)) /\ Len(calls') = Len(calls) + 1
    BY <2>1, <2>2, <2>3, <2>4, Pushed, Zenon
  <2>6. DepthOK(calls', recursion_depth')
    <3>1. Len(calls) \in Nat /\ DepthOK(calls, recursion_depth)
      BY TopOK, Zenon DEF IInv
    <3>2. QED
      BY <1>2, <2>1, <2>5, <3>1, LimitAssumption DEF DepthOK
  <2>7. QED
    BY <2>1, <2>2, <2>5, <2>6, StepOK, Zenon DEF IInv, ReaderOK
<1>3. QED
  BY <1>1, <1>2, Zenon

\* An end tag: the Reader is behind the group the caller is in.
LEMMA LeavesOK ==
    ASSUME IInv, UNCHANGED <<input, decoder>>, NEW tag \in NextTag,
           Top.does # "message", Leaves(tag),
           kept' = kept \/ Keeps(Top.from, tag.index)
    PROVE  IInv'
<1>1. /\ recursion_depth' = recursion_depth - 1
      /\ calls' = Front(calls) /\ index' = tag.index
      /\ end' = end /\ payloads' = payloads /\ outcome' = outcome
  BY Zenon DEF Leaves
<1>2. /\ tag.index \in Nat /\ index < tag.index /\ tag.index <= end
      /\ index \in Nat /\ end \in Nat /\ end <= Len(input)
      /\ CallsOK(calls, index, Len(input)) /\ Len(calls) > 1
      /\ Top.from \in Nat /\ Top.from <= index
      /\ input \in Seq(Byte)
  BY TagOK, TopOK, Zenon DEF IInv, ReaderOK
<1>3. /\ Len(input) \in Nat /\ index <= tag.index
      /\ Top.from < tag.index /\ tag.index <= Len(input)
  BY <1>2
<1>4. CallsOK(calls', index', Len(input)) /\ Len(calls') = Len(calls) - 1
  BY <1>1, <1>2, <1>3, Popped, Zenon DEF Top
<1>5. DepthOK(calls', recursion_depth')
  <2>1. Len(calls) \in Nat /\ DepthOK(calls, recursion_depth)
    BY TopOK, Zenon DEF IInv
  <2>2. QED
    BY <1>1, <1>4, <2>1, LimitAssumption DEF DepthOK
<1>6. KeptOK(kept', Len(input))
  <2>1. KeptOK(kept, Len(input))
    BY Zenon DEF IInv
  <2>2. CASE kept' = kept
    BY <2>1, <2>2, Zenon
  <2>3. CASE Keeps(Top.from, tag.index)
    BY <1>2, <1>3, <2>1, <2>3, KeptMore, Zenon DEF Keeps
  <2>4. QED
    BY <2>2, <2>3, Zenon
<1>7. QED
  BY <1>1, <1>2, <1>4, <1>5, <1>6, StepOK, Zenon DEF IInv, ReaderOK

LEMMA ReturnOK ==
    ASSUME IInv, ReturnFromMessage
    PROVE  IInv'
<1>1. /\ Top.does = "message" /\ Len(calls) > 1
      /\ calls' = Front(calls) /\ index' = Top.index /\ end' = Top.end
      /\ recursion_depth' = recursion_depth - 1
      /\ UNCHANGED <<input, decoder>>
      /\ kept' = kept /\ payloads' = payloads /\ outcome' = outcome
  BY Zenon DEF ReturnFromMessage
<1>2. /\ index \in Nat /\ input \in Seq(Byte)
      /\ calls \in Seq(Activation) /\ Len(calls) \in Nat \ {0}
      /\ Top \in Activation /\ Top = calls[Len(calls)]
      /\ CallsOK(calls, index, Len(input))
      /\ DepthOK(calls, recursion_depth)
  BY TopOK, Zenon DEF IInv, ReaderOK, CallsOK
<1>3. Len(input) \in Nat
  BY <1>2
<1>4. Top.index \in Nat /\ Top.end \in Nat
  BY <1>2, Zenon DEF Activation
<1>5. Top.index <= Top.end /\ Top.end <= Len(input)
  <2> DEFINE k == Len(calls) - 1
  <2>1. k \in 1 .. Len(calls) - 1 /\ k + 1 = Len(calls)
    BY <1>1, <1>2
  <2>2. Follows(calls[k], calls[k + 1], Len(input))
    BY <1>2, <2>1, Zenon DEF CallsOK
  <2>3. Follows(calls[k], Top, Len(input))
    BY <1>2, <2>1, <2>2, Zenon
  <2>4. QED
    BY <1>1, <2>3, Zenon DEF Follows
<1>6. Top.index <= Top.index
  BY <1>4
<1>7. CallsOK(calls', index', Len(input)) /\ Len(calls') = Len(calls) - 1
  BY <1>1, <1>2, <1>3, <1>4, <1>6, Popped, Zenon DEF Top
<1>8. DepthOK(calls', recursion_depth')
  BY <1>1, <1>2, <1>7, LimitAssumption DEF DepthOK
<1>9. QED
  BY <1>1, <1>4, <1>5, <1>7, <1>8, StepOK, Zenon DEF IInv, ReaderOK

LEMMA ReadMessageOK ==
    ASSUME IInv, NEW tag \in NextTag, ReadMessage(tag)
    PROVE  IInv'
<1> DEFINE payload == readBytes(input, tag.index, end)
<1>1. UNCHANGED <<input, decoder>>
  BY Zenon DEF ReadMessage, OnTag
<1>2. CASE Fail("input") \/ Fail("recursion")
  BY <1>1, <1>2, FailOK, Zenon
<1>3. CASE ~(Fail("input") \/ Fail("recursion"))
  <2>1. /\ recursion_depth # RecursionLimit
        /\ calls' = Append(calls, MessageCall(payload.index, end))
        /\ index' = payload.start /\ end' = payload.index
        /\ recursion_depth' = recursion_depth + 1
        /\ kept' = kept /\ payloads' = payloads /\ outcome' = outcome
    BY <1>3, Zenon DEF ReadMessage
  <2>2. /\ tag.index \in Nat /\ index < tag.index /\ tag.index <= end
        /\ index \in Nat /\ end \in Nat /\ end <= Len(input)
        /\ CallsOK(calls, index, Len(input)) /\ Top = calls[Len(calls)]
        /\ Top.from \in Nat /\ Top.from <= index
        /\ input \in Seq(Byte)
    BY TagOK, TopOK, Zenon DEF IInv, ReaderOK
  <2>3. /\ payload.start \in Nat /\ payload.index \in Nat
        /\ tag.index <= payload.start /\ payload.start <= payload.index
        /\ payload.index <= end
    BY <2>2, BytesInside, Zenon
  <2> HIDE DEF payload
  <2>4. /\ Len(input) \in Nat /\ payload.index <= Len(input)
        /\ Top.from <= payload.index /\ 0 <= payload.start
    BY <2>2, <2>3
  <2> DEFINE call == MessageCall(payload.index, end)
  <2>5. /\ call.does = "message" /\ call.from = 0
        /\ call.index = payload.index /\ call.end = end
    BY DEF MessageCall
  <2>6. call \in Activation
    BY <2>2, <2>3, CallTypes, Zenon
  <2>7. Follows(calls[Len(calls)], call, Len(input))
    BY <2>2, <2>3, <2>4, <2>5, Zenon DEF Follows
  <2>8. call.from <= payload.start
    BY <2>4, <2>5, Zenon
  <2> HIDE DEF call
  <2>9. CallsOK(Append(calls, call), payload.start, Len(input))
        /\ Len(Append(calls, call)) = Len(calls) + 1
    BY <2>2, <2>3, <2>4, <2>6, <2>7, <2>8, Pushed, Zenon
  <2>10. CallsOK(calls', index', Len(input)) /\ Len(calls') = Len(calls) + 1
    BY <2>1, <2>9, Zenon DEF call
  <2>11. DepthOK(calls', recursion_depth')
    <3>1. Len(calls) \in Nat /\ DepthOK(calls, recursion_depth)
      BY TopOK, Zenon DEF IInv
    <3>2. QED
      BY <2>1, <2>10, <3>1, LimitAssumption DEF DepthOK
  <2>12. QED
    BY <1>1, <2>1, <2>3, <2>4, <2>10, <2>11, StepOK, Zenon DEF IInv, ReaderOK
<1>4. QED
  BY <1>2, <1>3, Zenon
\* The slice of a group: the canonical size of its end tag is taken off what
\* was read, which is never more than the tag itself.
LEMMA GroupBytesReadOK ==
    ASSUME IInv, NEW tag \in NextTag, GroupBytesRead(tag)
    PROVE  IInv'
<1> DEFINE to == tag.index - tagSize(tag.number)
           call == MessageCall(tag.index, end)
<1>1. /\ UNCHANGED <<input, decoder>> /\ Top.does = "bytes"
      /\ payloads' = Append(payloads, [from |-> Top.from, to |-> to, tag |-> index])
      /\ calls' = Append(Front(calls), call)
      /\ index' = Top.from /\ end' = to
      /\ recursion_depth' = recursion_depth /\ kept' = kept /\ outcome' = outcome
  BY Zenon DEF GroupBytesRead, AtEndTag, OnTag
<1>2. Top.does # "message"
  BY <1>1
<1>3. /\ tag.index \in Nat /\ index < tag.index /\ tag.index <= end
      /\ tagSize(tag.number) \in 1 .. 5 /\ tagSize(tag.number) <= tag.index - index
      /\ index \in Nat /\ end \in Nat /\ end <= Len(input)
      /\ CallsOK(calls, index, Len(input)) /\ Len(calls) \in Nat /\ Len(calls) > 1
      /\ Top.from \in Nat /\ Top.from <= index
      /\ input \in Seq(Byte)
  BY <1>2, TagOK, TopOK, Zenon DEF IInv, ReaderOK
<1>4. /\ to \in Nat /\ Top.from <= to /\ to <= Len(input) /\ Len(input) \in Nat
      /\ index <= index /\ tag.index <= Len(input)
  <2> DEFINE from == Top.from  next == tag.index  size == tagSize(tag.number)
             length == Len(input)
  <2>1. length \in Nat
    BY <1>3, LenProperties, Zenon
  <2>2. /\ from \in Nat /\ index \in Nat /\ next \in Nat /\ end \in Nat /\ size \in 1 .. 5
        /\ from <= index /\ index < next /\ next <= end /\ end <= length
        /\ size <= next - index
    BY <1>3, Zenon
  <2> HIDE DEF from, next, size, length
  <2>3. /\ next - size \in Nat /\ from <= next - size /\ next - size <= length
        /\ length \in Nat /\ index <= index /\ next <= length
    BY <2>1, <2>2
  <2>4. QED
    BY <2>3, Zenon DEF from, next, size, length
<1>5. /\ call.does = "message" /\ call.from = 0
      /\ call.index = tag.index /\ call.end = end
  BY DEF MessageCall
<1>6. call \in Activation
  BY <1>3, CallTypes, Zenon
<1> HIDE DEF to, call
<1> DEFINE cs == Front(calls)
<1>7. CallsOK(cs, index, Len(input)) /\ Len(cs) = Len(calls) - 1
  BY <1>2, <1>3, <1>4, Popped, Zenon DEF Top
<1> HIDE DEF cs
<1>8. cs[Len(cs)] \in Activation /\ cs[Len(cs)].from <= index
  <2>1. cs \in Seq(Activation) /\ cs[Len(cs)].from <= index
    BY <1>7, Zenon DEF CallsOK
  <2>2. Len(cs) \in Nat \ {0}
    BY <1>3, <1>7
  <2>3. QED
    BY <2>1, <2>2
<1>9. Follows(cs[Len(cs)], call, Len(input))
  <2>1. cs[Len(cs)].from \in Nat
    BY <1>8, Zenon DEF Activation
  <2>2. cs[Len(cs)].from <= tag.index
    BY <1>3, <1>8, <2>1
  <2>3. QED
    BY <1>3, <1>5, <2>2, Zenon DEF Follows
<1>10. call.from <= Top.from
  BY <1>3, <1>5
<1>11. CallsOK(Append(cs, call), Top.from, Len(input))
       /\ Len(Append(cs, call)) = Len(cs) + 1
  BY <1>3, <1>4, <1>6, <1>7, <1>9, <1>10, Pushed, Zenon
<1>12. calls' = Append(cs, call)
  BY <1>1, Zenon DEF cs
<1>13. CallsOK(calls', index', Len(input)) /\ Len(calls') = Len(calls)
  <2>1. CallsOK(calls', index', Len(input)) /\ Len(calls') = Len(cs) + 1
    BY <1>1, <1>11, <1>12, Zenon
  <2>2. QED
    BY <1>3, <1>7, <2>1
<1>14. DepthOK(calls', recursion_depth')
  BY <1>1, <1>13, Zenon DEF IInv, DepthOK
<1>15. PayloadsOK(payloads', Len(input))
  <2>1. PayloadsOK(payloads, Len(input))
    BY Zenon DEF IInv
  <2>2. QED
    BY <1>1, <1>3, <1>4, <2>1, PayloadsMore, Zenon
<1>16. QED
  BY <1>1, <1>3, <1>4, <1>13, <1>14, <1>15, StepOK, Zenon DEF IInv, ReaderOK

LEMMA TagStepOK ==
    ASSUME IInv, NEW tag \in NextTag,
           \/ WrongWireType(tag) \/ ReadScalar(tag) \/ ReadMessage(tag) \/ ReadGroup(tag)
           \/ Skip(tag) \/ OutOfMemory(tag) \/ SkipGroup(tag)
           \/ SkippedGroup(tag) \/ OutOfMemoryForGroup(tag)
           \/ GroupDecoded(tag) \/ GroupBytesRead(tag)
           \/ WrongEnd(tag)
    PROVE  IInv'
<1>1. /\ tag.index \in Nat /\ index < tag.index /\ tag.index <= end
      /\ tag.number \in Nat /\ tag.wire_type \in WireType
      /\ index \in Nat /\ end \in Nat /\ end <= Len(input)
      /\ input \in Seq(Byte)
  BY TagOK, Zenon DEF IInv, ReaderOK
<1>2. index <= tag.index /\ tag.index <= tag.index
  BY <1>1
<1>3. CASE WrongWireType(tag) \/ WrongEnd(tag) \/ OutOfMemory(tag) \/ OutOfMemoryForGroup(tag)
  <2>1. UNCHANGED <<input, decoder>> /\ (Fail("input") \/ Fail("memory"))
    BY <1>3, Zenon DEF WrongWireType, WrongEnd, OutOfMemory, OutOfMemoryForGroup,
                       AtEndTag, FieldToSkip, OnTag
  <2>2. QED
    BY <2>1, FailOK, Zenon
<1>4. CASE ReadScalar(tag)
  <2> DEFINE value == readVarint(input, tag.index, end)
  <2>1. UNCHANGED <<input, decoder>> /\ Goes(value) /\ kept' = kept
    BY <1>4, Zenon DEF ReadScalar, OnTag
  <2>2. value.index \in Nat /\ tag.index <= value.index /\ value.index <= end
    BY <1>1, VarintInside, Zenon
  <2> HIDE DEF value
  <2>3. QED
    BY <2>1, <2>2, GoesOK, Zenon
<1>5. CASE ReadMessage(tag)
  BY <1>5, ReadMessageOK, Zenon
<1>6. CASE ReadGroup(tag)
  <2> DEFINE does == IF decoder = "dynamic" THEN "group" ELSE "bytes"
             call == GroupCall(does, tag.number, tag.index, FALSE)
  <2>1. UNCHANGED <<input, decoder>> /\ Enters(tag, call)
    BY <1>6, Zenon DEF ReadGroup, OnTag
  <2>2. does \in {"group", "bytes", "skip"} /\ does # "message"
    OBVIOUS
  <2> HIDE DEF does
  <2>3. call \in Activation
    BY <1>1, <2>2, CallTypes, Zenon
  <2>4. call.does # "message" /\ call.from = tag.index
    BY <2>2, Zenon DEF GroupCall
  <2> HIDE DEF call
  <2>5. QED
    BY <1>2, <2>1, <2>3, <2>4, EntersOK, Zenon
<1>7. CASE Skip(tag)
  <2> DEFINE value == skipValue(input, tag.index, end, tag.wire_type)
  <2>1. UNCHANGED <<input, decoder>> /\ Goes(value)
        /\ (kept' = kept \/ (value.ok /\ Keeps(index, value.index)))
    BY <1>7, Zenon DEF Skip, FieldToSkip, OnTag
  <2>2. value.index \in Nat /\ tag.index <= value.index /\ value.index <= end
    BY <1>1, ValueInside, Zenon
  <2> HIDE DEF value
  <2>3. QED
    BY <2>1, <2>2, GoesOK, Zenon
<1>8. CASE SkipGroup(tag)
  <2> DEFINE call == GroupCall("skip", tag.number, index, InMessage)
  <2>1. UNCHANGED <<input, decoder>> /\ Enters(tag, call)
    BY <1>8, Zenon DEF SkipGroup, FieldToSkip, OnTag
  <2>2. InMessage \in BOOLEAN /\ "skip" \in {"group", "bytes", "skip"}
    BY DEF InMessage
  <2>3. call \in Activation
    BY <1>1, <2>2, CallTypes, Zenon
  <2>4. call.does # "message" /\ call.from = index
    BY DEF GroupCall
  <2> HIDE DEF call
  <2>5. index <= call.from /\ call.from <= tag.index
    BY <1>1, <2>4
  <2>6. QED
    BY <2>1, <2>3, <2>4, <2>5, EntersOK, Zenon
<1>9. CASE SkippedGroup(tag) \/ GroupDecoded(tag)
  <2>1. /\ UNCHANGED <<input, decoder>> /\ Leaves(tag)
        /\ Top.does = "skip" \/ Top.does = "group"
        /\ kept' = kept \/ Keeps(Top.from, tag.index)
    BY <1>9, Zenon DEF SkippedGroup, GroupDecoded, AtEndTag, OnTag
  <2>2. Top.does # "message"
    BY <2>1
  <2>3. QED
    BY <2>1, <2>2, LeavesOK, Zenon
<1>10. CASE GroupBytesRead(tag)
  BY <1>10, GroupBytesReadOK, Zenon
<1>11. QED
  BY <1>3, <1>4, <1>5, <1>6, <1>7, <1>8, <1>9, <1>10, Zenon

THEOREM Stepwise == IInv /\ [Next]_vars => IInv'
<1> SUFFICES ASSUME IInv, [Next]_vars PROVE IInv'
  OBVIOUS
<1>1. CASE ReturnFromMessage
  BY <1>1, ReturnOK, Zenon
<1>2. CASE Complete
  <2>1. /\ UNCHANGED <<input, decoder>> /\ outcome' = "ok"
        /\ calls' = calls /\ index' = index /\ end' = end
        /\ recursion_depth' = recursion_depth /\ kept' = kept /\ payloads' = payloads
    BY <1>2, Zenon DEF Complete
  <2>2. outcome' \in {"running", "ok", "input", "recursion", "memory"}
    BY <2>1, Zenon
  <2>3. QED
    BY <2>1, <2>2, StepOK, Zenon DEF IInv, ReaderOK
<1>3. CASE Broken
  BY <1>3, FailOK, Zenon DEF Broken
<1>4. CASE UNCHANGED vars
  BY <1>4, StepOK, Zenon DEF vars, IInv, ReaderOK
<1>5. CASE Next /\ ~(ReturnFromMessage \/ Complete \/ Broken)
  <2>1. PICK tag \in NextTag :
            \/ WrongWireType(tag) \/ ReadScalar(tag) \/ ReadMessage(tag) \/ ReadGroup(tag)
            \/ Skip(tag) \/ OutOfMemory(tag) \/ SkipGroup(tag)
            \/ SkippedGroup(tag) \/ OutOfMemoryForGroup(tag)
            \/ GroupDecoded(tag) \/ GroupBytesRead(tag)
            \/ WrongEnd(tag)
    BY <1>5, Zenon DEF Next
  <2>2. QED
    BY <2>1, TagStepOK, Zenon
<1>6. QED
  BY <1>1, <1>2, <1>3, <1>4, <1>5, Zenon

-----------------------------------------------------------------------------
(* Theorems of the specification *)

THEOREM Invariance == Spec => []IInv
  BY Initially, Stepwise, PTL DEF Spec

\* The Reader never leaves the input, and every slice it hands out, a group's
\* payload (readGroupBytes) and a stored field included, lies inside it with
\* its begin before its end: no slice expression of the reader is out of bounds.
THEOREM TypeCorrect == Spec => []TypeOK
  BY Invariance, InvariantImplies, PTL

\* enterRecursion, leaveRecursion and nested count the calls in progress: no
\* input makes a decode nest deeper than recursion_limit.
THEOREM DepthCounts == Spec => []DepthIsNesting
  BY Invariance, InvariantImplies, PTL

-----------------------------------------------------------------------------
(* The grammar *)

Wrong(tag, typed) ==
    /\ typed
    /\ \/ tag.number \in ScalarField /\ tag.wire_type # Varint
       \/ tag.number \in MessageField /\ tag.wire_type # LengthDelimited
       \/ tag.number \in GroupField /\ tag.wire_type # StartGroup

\* The field from i to to, and what parse says of the fields behind it.
FieldTo(parse, i, e, typed, to, known, inside) ==
    Followed(to, IF known THEN inside
                 ELSE IF typed THEN {[from |-> i, to |-> to]} ELSE {},
             parse[<<to, e, typed>>])

WithGroup(s, i, e, typed, parse, tag, inner, group, closing) ==
    IF group.close # None /\ closing.number = tag.number
    THEN FieldTo(parse, i, e, typed, closing.index, inner, group.unknown)
    ELSE NoField

WithMessage(i, e, typed, parse, known, payload, message) ==
    IF payload.ok /\ message.done
    THEN FieldTo(parse, i, e, typed, payload.index, known, message.unknown)
    ELSE NoField

WithValue(i, e, typed, parse, scalar, value) ==
    IF value.ok THEN FieldTo(parse, i, e, typed, value.index, scalar, {}) ELSE NoField

LEMMA ParsedEnd ==
    ASSUME NEW s, NEW e, NEW typed, NEW parse
    PROVE  Parsed(s, e, e, typed, parse) = [NoField EXCEPT !.done = TRUE]
  BY Zenon DEF Parsed

LEMMA ParsedTag ==
    ASSUME NEW s, NEW i, NEW e, i # e, NEW typed, NEW parse,
           NEW tag, tag = readTag(s, i, e, MaxTag)
    PROVE  /\ ~tag.ok => Parsed(s, i, e, typed, parse) = NoField
           /\ tag.ok /\ tag.wire_type = EndGroup =>
                Parsed(s, i, e, typed, parse) = [NoField EXCEPT !.close = i]
           /\ tag.ok /\ tag.wire_type # EndGroup /\ Wrong(tag, typed) =>
                Parsed(s, i, e, typed, parse) = NoField
<1>1. CASE ~tag.ok
  BY <1>1, Zenon DEF Parsed
<1>2. CASE tag.ok /\ tag.wire_type = EndGroup
  BY <1>2, Zenon DEF Parsed
<1>3. CASE tag.ok /\ tag.wire_type # EndGroup
  BY <1>3, Zenon DEF Parsed, Wrong
<1>4. QED
  BY <1>1, <1>2, <1>3, Zenon

LEMMA ParsedGroup ==
    ASSUME NEW s, NEW i, NEW e, i # e, NEW typed \in BOOLEAN, NEW parse,
           NEW tag, tag = readTag(s, i, e, MaxTag),
           tag.ok, tag.wire_type = StartGroup, ~Wrong(tag, typed),
           NEW inner, inner = (typed /\ tag.number \in GroupField),
           NEW group, group = parse[<<tag.index, e, inner>>],
           NEW closing, closing = readTag(s, group.close, e, MaxTag)
    PROVE  Parsed(s, i, e, typed, parse) =
               WithGroup(s, i, e, typed, parse, tag, inner, group, closing)
<1>1. tag.wire_type # EndGroup
  BY DEF StartGroup, EndGroup
<1>2. QED
  BY <1>1, Zenon DEF Parsed, Wrong, FieldTo, WithGroup

IsParsed(s, i, e, typed, parse, r) == Parsed(s, i, e, typed, parse) = r

LEMMA ParsedMessage ==
    ASSUME NEW s, NEW i, NEW e, i # e, NEW typed \in BOOLEAN, NEW parse,
           NEW tag, tag = readTag(s, i, e, MaxTag),
           tag.ok, tag.wire_type = LengthDelimited, ~Wrong(tag, typed),
           NEW known, known = (typed /\ tag.number \in MessageField), known,
           NEW payload, payload = readBytes(s, tag.index, e),
           NEW message, message = parse[<<payload.start, payload.index, known>>]
    PROVE  IsParsed(s, i, e, typed, parse,
                WithMessage(i, e, typed, parse, known, payload, message))
<1>1. tag.wire_type # EndGroup /\ tag.wire_type # StartGroup
  BY DEF StartGroup, EndGroup, LengthDelimited
<1>2. known = TRUE /\ typed /\ tag.number \in MessageField
  BY Zenon
<1>3. message = parse[<<payload.start, payload.index, TRUE>>]
  BY <1>2, Zenon
<1>4. WithMessage(i, e, typed, parse, known, payload, message) =
        (IF payload.ok /\ message.done
         THEN FieldTo(parse, i, e, typed, payload.index, TRUE, message.unknown)
         ELSE NoField)
  BY <1>2, Zenon DEF WithMessage
<1>5. Parsed(s, i, e, typed, parse) =
        (IF payload.ok /\ message.done
         THEN FieldTo(parse, i, e, typed, payload.index, TRUE, message.unknown)
         ELSE NoField)
  BY <1>1, <1>2, <1>3, Zenon DEF Parsed, Wrong, FieldTo
<1>6. QED
  BY <1>4, <1>5, Zenon DEF IsParsed

LEMMA ParsedValue ==
    ASSUME NEW s, NEW i, NEW e, i # e, NEW typed \in BOOLEAN, NEW parse,
           NEW tag, tag = readTag(s, i, e, MaxTag),
           tag.ok, tag.wire_type # StartGroup, tag.wire_type # EndGroup, ~Wrong(tag, typed),
           ~(typed /\ tag.number \in MessageField),
           NEW value, value = skipValue(s, tag.index, e, tag.wire_type)
    PROVE  Parsed(s, i, e, typed, parse) =
               WithValue(i, e, typed, parse, typed /\ tag.number \in ScalarField, value)
  BY Zenon DEF Parsed, Wrong, FieldTo, WithValue

Result == [field : Int, close : Int, done : BOOLEAN, unknown : SUBSET Slice]

EndsGroup(tag) == tag.ok /\ tag.wire_type = EndGroup

\* What is said of a slice stays inside it, and a group closes with an end tag.
WellFormed(s, i, e, r) ==
    /\ r \in Result
    /\ r.field # None => i < r.field /\ r.field <= e
    /\ r.close # None =>
          i <= r.close /\ r.close < e /\ EndsGroup(readTag(s, r.close, e, MaxTag))

\* f and g say the same of what begins behind i.
Agree(s, i, f, g) ==
    \A j, e \in 0 .. Len(s), t \in BOOLEAN :
        i < j /\ j <= e => /\ f[<<j, e, t>>] = g[<<j, e, t>>]
                           /\ WellFormed(s, j, e, f[<<j, e, t>>])

LEMMA NoFieldFormed ==
    ASSUME NEW s, NEW i \in Nat, NEW e \in Nat
    PROVE  /\ WellFormed(s, i, e, NoField)
           /\ WellFormed(s, i, e, [NoField EXCEPT !.done = TRUE])
<1>1. NoField \in Result /\ NoField.field = None /\ NoField.close = None
  BY DEF NoField, None, Result
<1>2. [NoField EXCEPT !.done = TRUE] \in Result
  BY <1>1 DEF Result
<1>3. [NoField EXCEPT !.done = TRUE].field = None /\ [NoField EXCEPT !.done = TRUE].close = None
  BY DEF NoField
<1>4. QED
  BY <1>1, <1>2, <1>3, Zenon DEF WellFormed

LEMMA CloseFormed ==
    ASSUME NEW s, NEW i \in Nat, NEW e \in Nat, i < e, EndsGroup(readTag(s, i, e, MaxTag))
    PROVE  WellFormed(s, i, e, [NoField EXCEPT !.close = i])
<1> DEFINE r == [NoField EXCEPT !.close = i]
<1>1. r \in Result
  <2>1. NoField \in Result
    BY DEF NoField, None, Result
  <2>2. QED
    BY <2>1 DEF Result
<1>a. r.field = None /\ r.close = i
  BY DEF NoField
<1> HIDE DEF r
<1>2. i <= i
  OBVIOUS
<1>3. WellFormed(s, i, e, r)
  BY <1>1, <1>a, <1>2, Zenon DEF WellFormed
<1>4. QED
  BY <1>3, Zenon DEF r

\* The parts of Followed.
PartsAre(r, to, unknown, rest) ==
    /\ r \in Result /\ r.field = to /\ r.close = rest.close /\ r.done = rest.done
    /\ r.unknown = unknown \cup rest.unknown

LEMMA FollowedParts ==
    ASSUME NEW rest \in Result, NEW to \in Int, NEW unknown, unknown \in SUBSET Slice,
           NEW r, r = Followed(to, unknown, rest)
    PROVE  PartsAre(r, to, unknown, rest)
<1>1. r \in Result
  BY DEF Followed, Result
<1>2. r.field = to
  BY DEF Followed, Result
<1>3. r.close = rest.close
  BY DEF Followed, Result
<1>4. r.done = rest.done
  BY DEF Followed, Result
<1>5. r.unknown = unknown \cup rest.unknown
  BY DEF Followed, Result
<1>6. QED
  BY <1>1, <1>2, <1>3, <1>4, <1>5, Zenon DEF PartsAre

LEMMA FollowedFormed ==
    ASSUME NEW s, NEW i \in Nat, NEW e \in Nat, NEW to \in Nat, i < to, to <= e,
           NEW unknown, unknown \in SUBSET Slice, NEW rest, WellFormed(s, to, e, rest)
    PROVE  WellFormed(s, i, e, Followed(to, unknown, rest))
<1>r. PICK r : r = Followed(to, unknown, rest)
  OBVIOUS
<1>1. rest \in Result
  BY Zenon DEF WellFormed
<1>2. r \in Result /\ r.field = to /\ r.close = rest.close
  <2>1. to \in Int
    OBVIOUS
  <2>2. PartsAre(r, to, unknown, rest)
    BY <1>r, <1>1, <2>1, FollowedParts, Zenon
  <2>3. QED
    BY <2>2, Zenon DEF PartsAre
<1>3. rest.close # None =>
          to <= rest.close /\ rest.close < e /\ EndsGroup(readTag(s, rest.close, e, MaxTag))
  BY Zenon DEF WellFormed
<1>4. rest.close # None => i <= rest.close
  <2>1. rest.close \in Int
    BY <1>1 DEF Result
  <2>2. QED
    BY <1>3, <2>1
<1>5. WellFormed(s, i, e, r)
  BY <1>2, <1>3, <1>4, Zenon DEF WellFormed
<1>6. QED
  BY <1>r, <1>5, Zenon

LEMMA FieldToFormed ==
    ASSUME NEW s, NEW i \in Nat, NEW e \in Nat, NEW to \in Nat, i < to, to <= e, e <= Len(s),
           s \in Seq(Byte), NEW f, NEW g, Agree(s, i, f, g), NEW typed \in BOOLEAN,
           NEW known, NEW inside, inside \in SUBSET Slice
    PROVE  /\ FieldTo(f, i, e, typed, to, known, inside)
                 = FieldTo(g, i, e, typed, to, known, inside)
           /\ WellFormed(s, i, e, FieldTo(f, i, e, typed, to, known, inside))
<1>1. to \in 0 .. Len(s) /\ e \in 0 .. Len(s)
  OBVIOUS
<1>2. f[<<to, e, typed>>] = g[<<to, e, typed>>] /\ WellFormed(s, to, e, f[<<to, e, typed>>])
  BY <1>1, Zenon DEF Agree
<1> DEFINE unknown == IF known THEN inside
                      ELSE IF typed THEN {[from |-> i, to |-> to]} ELSE {}
<1>3. unknown \in SUBSET Slice
  BY DEF Slice
<1> HIDE DEF unknown
<1>4. WellFormed(s, i, e, Followed(to, unknown, f[<<to, e, typed>>]))
  BY <1>2, <1>3, FollowedFormed, Zenon
<1>5. QED
  BY <1>2, <1>4, Zenon DEF FieldTo, unknown

\* What is said of a slice depends on what is said of slices further on.
LEMMA Local ==
    ASSUME NEW s \in Seq(Byte), NEW i \in Nat, NEW e \in Nat, i <= e, e <= Len(s),
           NEW typed \in BOOLEAN, NEW f, NEW g, Agree(s, i, f, g)
    PROVE  /\ Parsed(s, i, e, typed, f) = Parsed(s, i, e, typed, g)
           /\ WellFormed(s, i, e, Parsed(s, i, e, typed, f))
<1>1. PICK tag : tag = readTag(s, i, e, MaxTag)
  OBVIOUS
<1>2. CASE i = e
  <2>1. /\ Parsed(s, e, e, typed, f) = [NoField EXCEPT !.done = TRUE]
        /\ Parsed(s, e, e, typed, g) = [NoField EXCEPT !.done = TRUE]
    BY ParsedEnd, Zenon
  <2>2. WellFormed(s, i, e, [NoField EXCEPT !.done = TRUE])
    BY NoFieldFormed, Zenon
  <2>3. QED
    BY <1>2, <2>1, <2>2, Zenon
<1>3. CASE i # e /\ (~tag.ok \/ (tag.wire_type # EndGroup /\ Wrong(tag, typed)))
  <2>1. /\ Parsed(s, i, e, typed, f) = NoField
        /\ Parsed(s, i, e, typed, g) = NoField
    BY <1>3, <1>1, ParsedTag
  <2>2. QED
    BY <2>1, NoFieldFormed, Zenon
<1>4. CASE i # e /\ tag.ok /\ tag.wire_type = EndGroup
  <2>1. /\ Parsed(s, i, e, typed, f) = [NoField EXCEPT !.close = i]
        /\ Parsed(s, i, e, typed, g) = [NoField EXCEPT !.close = i]
    BY <1>4, <1>1, ParsedTag
  <2>2. i < e /\ EndsGroup(tag)
    BY <1>4 DEF EndsGroup
  <2>3. QED
    BY <1>1, <2>1, <2>2, CloseFormed, Zenon
<1>5. CASE i # e /\ tag.ok /\ tag.wire_type # EndGroup /\ ~Wrong(tag, typed)
  <2>1. /\ tag.index \in Nat /\ i < tag.index /\ tag.index <= e
        /\ tag.number \in Nat /\ tag.wire_type \in WireType
    BY <1>5, <1>1, TagInside, Zenon
  <2>2. tag.index \in 0 .. Len(s) /\ e \in 0 .. Len(s)
    BY <2>1
  <2>3. CASE tag.wire_type = StartGroup
    <3>a. PICK inner, group, closing :
              /\ inner = (typed /\ tag.number \in GroupField)
              /\ group = f[<<tag.index, e, inner>>]
              /\ closing = readTag(s, group.close, e, MaxTag)
      OBVIOUS
    <3>b. inner \in BOOLEAN
      BY <3>a
    <3>1. group = g[<<tag.index, e, inner>>] /\ WellFormed(s, tag.index, e, group)
      BY <2>1, <2>2, <3>a, <3>b, Zenon DEF Agree
    <3>2. Parsed(s, i, e, typed, f) = WithGroup(s, i, e, typed, f, tag, inner, group, closing)
      BY <1>5, <2>3, <1>1, <3>a, ParsedGroup
    <3>3. Parsed(s, i, e, typed, g) = WithGroup(s, i, e, typed, g, tag, inner, group, closing)
      BY <1>5, <2>3, <3>1, <1>1, <3>a, ParsedGroup
    <3>4. CASE ~(group.close # None /\ closing.number = tag.number)
      BY <3>2, <3>3, <3>4, NoFieldFormed, Zenon DEF WithGroup
    <3>5. CASE group.close # None /\ closing.number = tag.number
      <4>1. /\ tag.index <= group.close /\ group.close < e
            /\ EndsGroup(closing) /\ group \in Result
        BY <3>1, <3>5, <3>a, Zenon DEF WellFormed
      <4>2. group.close \in Nat
        <5>1. group.close \in Int
          BY <4>1 DEF Result
        <5>2. QED
          BY <2>1, <4>1, <5>1
      <4>3. closing.index \in Nat /\ group.close < closing.index /\ closing.index <= e
        <5>1. group.close <= e
          BY <4>1, <4>2
        <5>2. QED
          BY <4>1, <4>2, <5>1, <3>a, TagInside, Zenon DEF EndsGroup
      <4>4. i < closing.index
        BY <2>1, <4>1, <4>2, <4>3
      <4>5. group.unknown \in SUBSET Slice
        BY <4>1 DEF Result
      <4>6. /\ FieldTo(f, i, e, typed, closing.index, inner, group.unknown)
               = FieldTo(g, i, e, typed, closing.index, inner, group.unknown)
            /\ WellFormed(s, i, e, FieldTo(f, i, e, typed, closing.index, inner, group.unknown))
        <5>1. PICK to, within : to = closing.index /\ within = group.unknown
          OBVIOUS
        <5>2. to \in Nat /\ i < to /\ to <= e /\ within \in SUBSET Slice
          BY <4>3, <4>4, <4>5, <5>1
        <5>3. /\ FieldTo(f, i, e, typed, to, inner, within)
                   = FieldTo(g, i, e, typed, to, inner, within)
              /\ WellFormed(s, i, e, FieldTo(f, i, e, typed, to, inner, within))
          BY <5>2, FieldToFormed
        <5>4. QED
          BY <5>1, <5>3
      <4>7. QED
        BY <3>2, <3>3, <3>5, <4>6, Zenon DEF WithGroup
    <3>6. QED
      BY <3>4, <3>5, Zenon
  <2>4. CASE typed /\ tag.number \in MessageField /\ tag.wire_type = LengthDelimited
    <3>a. PICK known, payload, message :
              /\ known = (typed /\ tag.number \in MessageField)
              /\ payload = readBytes(s, tag.index, e)
              /\ message = f[<<payload.start, payload.index, known>>]
      OBVIOUS
    <3>b. known /\ known \in BOOLEAN
      BY <2>4, <3>a, Zenon
    <3>1. /\ payload.start \in Nat /\ payload.index \in Nat /\ tag.index <= payload.start
          /\ payload.start <= payload.index /\ payload.index <= e
      BY <2>1, <3>a, BytesInside, Zenon
    <3>2. payload.start \in 0 .. Len(s) /\ payload.index \in 0 .. Len(s)
          /\ i < payload.start /\ i < payload.index
      BY <2>1, <3>1
    <3>3. message = g[<<payload.start, payload.index, known>>]
          /\ WellFormed(s, payload.start, payload.index, message)
      BY <3>1, <3>2, <3>a, <3>b, Zenon DEF Agree
    <3>4. IsParsed(s, i, e, typed, f, WithMessage(i, e, typed, f, known, payload, message))
      BY <1>5, <2>4, <1>1, <3>a, <3>b, ParsedMessage
    <3>5. IsParsed(s, i, e, typed, g, WithMessage(i, e, typed, g, known, payload, message))
      BY <1>5, <2>4, <3>3, <1>1, <3>a, <3>b, ParsedMessage
    <3>6. message.unknown \in SUBSET Slice
      <4>1. message \in Result
        BY <3>3, Zenon DEF WellFormed
      <4>2. QED
        BY <4>1 DEF Result
    <3>7. /\ FieldTo(f, i, e, typed, payload.index, known, message.unknown)
             = FieldTo(g, i, e, typed, payload.index, known, message.unknown)
          /\ WellFormed(s, i, e, FieldTo(f, i, e, typed, payload.index, known, message.unknown))
      BY <3>1, <3>2, <3>6, FieldToFormed
    <3>8. CASE payload.ok /\ message.done
      BY <3>4, <3>5, <3>7, <3>8, Zenon DEF WithMessage, IsParsed
    <3>9. CASE ~(payload.ok /\ message.done)
      BY <3>4, <3>5, <3>9, NoFieldFormed, Zenon DEF WithMessage, IsParsed
    <3>10. QED
      BY <3>8, <3>9, Zenon
  <2>5. CASE tag.wire_type # StartGroup /\ ~(typed /\ tag.number \in MessageField)
    <3>a. PICK value, known :
              /\ value = skipValue(s, tag.index, e, tag.wire_type)
              /\ known = (typed /\ tag.number \in ScalarField)
      OBVIOUS
    <3>1. value.index \in Nat /\ tag.index <= value.index /\ value.index <= e
      BY <2>1, <3>a, ValueInside, Zenon
    <3>2. Parsed(s, i, e, typed, f) = WithValue(i, e, typed, f, known, value)
      BY <1>5, <2>5, <1>1, <3>a, ParsedValue
    <3>3. Parsed(s, i, e, typed, g) = WithValue(i, e, typed, g, known, value)
      BY <1>5, <2>5, <1>1, <3>a, ParsedValue
    <3>4. i < value.index
      BY <2>1, <3>1
    <3>5. {} \in SUBSET Slice
      BY Zenon
    <3>6. /\ FieldTo(f, i, e, typed, value.index, known, {})
             = FieldTo(g, i, e, typed, value.index, known, {})
          /\ WellFormed(s, i, e, FieldTo(f, i, e, typed, value.index, known, {}))
      BY <3>1, <3>4, <3>5, FieldToFormed
    <3>7. CASE value.ok
      BY <3>2, <3>3, <3>6, <3>7, Zenon DEF WithValue
    <3>8. CASE ~value.ok
      BY <3>2, <3>3, <3>8, NoFieldFormed, Zenon DEF WithValue
    <3>9. QED
      BY <3>7, <3>8, Zenon
  <2>6. typed /\ tag.number \in MessageField /\ tag.wire_type # StartGroup
            => tag.wire_type = LengthDelimited
    BY <1>5, Zenon DEF Wrong
  <2>7. QED
    BY <2>3, <2>4, <2>5, <2>6, Zenon
<1>6. QED
  BY <1>2, <1>3, <1>4, <1>5

\* The equation of the grammar holds of f for all slices from k on.
SolvesFrom(s, k, f) ==
    \A i, e \in 0 .. Len(s), t \in BOOLEAN :
        k <= i /\ i <= e => /\ f[<<i, e, t>>] = Parsed(s, i, e, t, f)
                            /\ WellFormed(s, i, e, f[<<i, e, t>>])

LEMMA PlacesAre ==
    ASSUME NEW s \in Seq(Byte), NEW i \in 0 .. Len(s), NEW e \in 0 .. Len(s), i <= e,
           NEW t \in BOOLEAN
    PROVE  <<i, e, t>> \in Places(s)
  BY DEF Places

LEMMA SolvesMore ==
    ASSUME NEW s \in Seq(Byte), NEW k \in Nat, k <= Len(s),
           NEW f, SolvesFrom(s, k + 1, f)
    PROVE  \E g : SolvesFrom(s, k, g)
<1> DEFINE g == [p \in Places(s) |-> IF p[1] = k THEN Parsed(s, k, p[2], p[3], f) ELSE f[p]]
<1>1. ASSUME NEW i \in 0 .. Len(s), NEW e \in 0 .. Len(s), i <= e, NEW t \in BOOLEAN
      PROVE  g[<<i, e, t>>] = IF i = k THEN Parsed(s, k, e, t, f) ELSE f[<<i, e, t>>]
  BY <1>1, PlacesAre
<1> HIDE DEF g
<1>2. ASSUME NEW i \in 0 .. Len(s), k <= i
      PROVE  Agree(s, i, f, g)
  <2> SUFFICES ASSUME NEW j \in 0 .. Len(s), NEW e \in 0 .. Len(s), NEW t \in BOOLEAN,
                      i < j, j <= e
               PROVE  f[<<j, e, t>>] = g[<<j, e, t>>] /\ WellFormed(s, j, e, f[<<j, e, t>>])
    BY Zenon DEF Agree
  <2>1. k + 1 <= j /\ j # k
    BY <1>2
  <2>2. WellFormed(s, j, e, f[<<j, e, t>>])
    BY <2>1, Zenon DEF SolvesFrom
  <2>3. g[<<j, e, t>>] = f[<<j, e, t>>]
    BY <1>1, <2>1, Zenon
  <2>4. QED
    BY <2>2, <2>3, Zenon
<1>3. SolvesFrom(s, k, g)
  <2> SUFFICES ASSUME NEW i \in 0 .. Len(s), NEW e \in 0 .. Len(s), NEW t \in BOOLEAN,
                      k <= i, i <= e
               PROVE  /\ g[<<i, e, t>>] = Parsed(s, i, e, t, g)
                      /\ WellFormed(s, i, e, g[<<i, e, t>>])
    BY Zenon DEF SolvesFrom
  <2>1. i \in Nat /\ e \in Nat /\ e <= Len(s)
    OBVIOUS
  <2>2. /\ Parsed(s, i, e, t, f) = Parsed(s, i, e, t, g)
        /\ WellFormed(s, i, e, Parsed(s, i, e, t, f))
    BY <1>2, <2>1, Local
  <2>3. g[<<i, e, t>>] = Parsed(s, i, e, t, f)
    <3>1. CASE i = k
      BY <1>1, <3>1, Zenon
    <3>2. CASE i # k
      <4>1. k + 1 <= i
        BY <2>1, <3>2
      <4>2. f[<<i, e, t>>] = Parsed(s, i, e, t, f)
        BY <4>1, Zenon DEF SolvesFrom
      <4>3. QED
        BY <1>1, <3>2, <4>2, Zenon
    <3>3. QED
      BY <3>1, <3>2, Zenon
  <2>4. QED
    BY <2>2, <2>3, Zenon
<1>4. QED
  BY <1>3, Zenon

Solution(s, f) ==
    f = [place \in Places(s) |-> Parsed(s, place[1], place[2], place[3], f)]

LEMMA SolutionIs ==
    ASSUME NEW s \in Seq(Byte), NEW f, Solution(s, f),
           NEW i \in 0 .. Len(s), NEW e \in 0 .. Len(s), i <= e, NEW t \in BOOLEAN
    PROVE  f[<<i, e, t>>] = Parsed(s, i, e, t, f)
<1>1. <<i, e, t>> \in Places(s)
  BY PlacesAre, Zenon
<1> DEFINE p == <<i, e, t>>
<1>2. p[1] = i /\ p[2] = e /\ p[3] = t
  OBVIOUS
<1> HIDE DEF p
<1>3. f[p] = Parsed(s, p[1], p[2], p[3], f)
  <2>1. p \in Places(s)
    BY <1>1, Zenon DEF p
  <2> DEFINE g == [place \in Places(s) |-> Parsed(s, place[1], place[2], place[3], f)]
  <2>2. g[p] = Parsed(s, p[1], p[2], p[3], f)
    BY <2>1, Zenon
  <2>3. f = g
    BY Zenon DEF Solution
  <2> HIDE DEF g
  <2>4. QED
    BY <2>2, <2>3, Zenon
<1>4. f[p] = Parsed(s, i, e, t, f)
  BY <1>2, <1>3, Zenon
<1>5. QED
  BY <1>4, Zenon DEF p

LEMMA Solvable ==
    ASSUME NEW s \in Seq(Byte)
    PROVE  \E f : Solution(s, f)
<1> DEFINE T == {k \in Nat : k <= Len(s) + 1 /\ \E f : SolvesFrom(s, k, f)}
<1>1. Len(s) \in Nat
  OBVIOUS
<1>2. Len(s) + 1 \in T
  <2>1. SolvesFrom(s, Len(s) + 1, {})
    BY <1>1 DEF SolvesFrom
  <2>2. QED
    BY <1>1, <2>1
<1>3. T \subseteq Nat /\ T # {}
  BY <1>2
<1>4. PICK m \in T : \A j \in T : ~(j < m)
  BY <1>3, LeastPosition, Zenon
<1>5. m \in Nat /\ m <= Len(s) + 1 /\ \E f : SolvesFrom(s, m, f)
  BY <1>4
<1>6. m = 0
  <2> SUFFICES ASSUME m # 0 PROVE FALSE
    OBVIOUS
  <2>1. PICK k \in Nat : m = k + 1 /\ k <= Len(s)
    <3>1. m - 1 \in Nat /\ m = (m - 1) + 1 /\ m - 1 <= Len(s)
      BY <1>1, <1>5
    <3>2. QED
      BY <3>1, Zenon
  <2>2. \E g : SolvesFrom(s, k, g)
    BY <1>5, <2>1, SolvesMore, Zenon
  <2>3. k \in T /\ k < m
    BY <1>1, <2>1, <2>2
  <2>4. QED
    BY <1>4, <2>3, Zenon
<1>7. PICK f : SolvesFrom(s, 0, f)
  BY <1>5, <1>6, Zenon
<1> DEFINE h == [p \in Places(s) |-> f[p]]
<1>8. ASSUME NEW i \in 0 .. Len(s), NEW e \in 0 .. Len(s), i <= e, NEW t \in BOOLEAN
      PROVE  h[<<i, e, t>>] = f[<<i, e, t>>]
  BY <1>8, PlacesAre
<1> HIDE DEF T
<1>9. ASSUME NEW i \in 0 .. Len(s), NEW e \in 0 .. Len(s), i <= e, NEW t \in BOOLEAN
      PROVE  f[<<i, e, t>>] = Parsed(s, i, e, t, h)
  <2> HIDE DEF h
  <2>1. i \in Nat /\ e \in Nat /\ e <= Len(s) /\ 0 <= i
    BY <1>9
  <2>2. Agree(s, i, f, h)
    <3> SUFFICES ASSUME NEW j \in 0 .. Len(s), NEW z \in 0 .. Len(s), NEW u \in BOOLEAN,
                        i < j, j <= z
                 PROVE  f[<<j, z, u>>] = h[<<j, z, u>>] /\ WellFormed(s, j, z, f[<<j, z, u>>])
      BY Zenon DEF Agree
    <3>1. 0 <= j
      OBVIOUS
    <3>2. WellFormed(s, j, z, f[<<j, z, u>>])
      BY <1>7, <3>1, Zenon DEF SolvesFrom
    <3>3. QED
      BY <1>8, <3>2, Zenon
  <2>3. Parsed(s, i, e, t, f) = Parsed(s, i, e, t, h)
    BY <1>9, <2>1, <2>2, Local
  <2>4. f[<<i, e, t>>] = Parsed(s, i, e, t, f)
    BY <1>7, <1>9, <2>1, Zenon DEF SolvesFrom
  <2>5. QED
    BY <2>3, <2>4, Zenon
<1>10. ASSUME NEW p \in Places(s) PROVE f[p] = Parsed(s, p[1], p[2], p[3], h)
  <2>1. /\ p[1] \in 0 .. Len(s) /\ p[2] \in 0 .. Len(s) /\ p[3] \in BOOLEAN
        /\ p[1] <= p[2] /\ p = <<p[1], p[2], p[3]>>
    BY DEF Places
  <2> HIDE DEF h
  <2>2. PICK i, e, t : i = p[1] /\ e = p[2] /\ t = p[3]
    OBVIOUS
  <2>3. f[<<i, e, t>>] = Parsed(s, i, e, t, h) /\ p = <<i, e, t>>
    <3>1. i \in 0 .. Len(s) /\ e \in 0 .. Len(s) /\ t \in BOOLEAN /\ i <= e
      BY <2>1, <2>2
    <3>2. p = <<i, e, t>>
      BY <2>1, <2>2
    <3>3. QED
      BY <1>9, <3>1, <3>2, Zenon
  <2>4. f[p] = Parsed(s, i, e, t, h)
    BY <2>3, Zenon
  <2>5. QED
    BY <2>2, <2>4, Zenon
<1>11. Solution(s, h)
  <2> DEFINE P(p) == Parsed(s, p[1], p[2], p[3], h)
  <2>1. \A p \in Places(s) : f[p] = P(p)
    BY <1>10, Zenon
  <2>2. h = [p \in Places(s) |-> f[p]]
    BY Zenon
  <2> HIDE DEF P, h
  <2>3. h = [p \in Places(s) |-> P(p)]
    BY <2>1, <2>2
  <2>4. QED
    BY <2>3, Zenon DEF P, Solution
<1>12. QED
  BY <1>11, Zenon

\* The grammar is what its equation says.
LEMMA GrammarIs ==
    ASSUME NEW s \in Seq(Byte), NEW i \in 0 .. Len(s), NEW e \in 0 .. Len(s), i <= e,
           NEW t \in BOOLEAN
    PROVE  Grammar(s)[<<i, e, t>>] = Parsed(s, i, e, t, Grammar(s))
<1>1. Grammar(s) = CHOOSE f : Solution(s, f)
  BY Zenon DEF Grammar, Solution
<1>2. Solution(s, Grammar(s))
  BY <1>1, Solvable, Zenon
<1>3. QED
  BY <1>2, SolutionIs, Zenon

\* What the grammar says of a slice stays inside it.
LEMMA GrammarFormed ==
    ASSUME NEW s \in Seq(Byte), NEW i \in 0 .. Len(s), NEW e \in 0 .. Len(s), i <= e,
           NEW t \in BOOLEAN
    PROVE  WellFormed(s, i, e, Grammar(s)[<<i, e, t>>])
<1> DEFINE G == Grammar(s)
           T == {k \in Nat : k <= Len(s) + 1 /\ SolvesFrom(s, k, G)}
<1> HIDE DEF G
<1>1. Len(s) \in Nat
  OBVIOUS
<1>2. Len(s) + 1 \in T
  <2>1. SolvesFrom(s, Len(s) + 1, G)
    BY <1>1 DEF SolvesFrom
  <2>2. QED
    BY <1>1, <2>1
<1>3. T \subseteq Nat /\ T # {}
  BY <1>2
<1>4. PICK m \in T : \A j \in T : ~(j < m)
  BY <1>3, LeastPosition, Zenon
<1>5. m \in Nat /\ m <= Len(s) + 1 /\ SolvesFrom(s, m, G)
  BY <1>4
<1>6. m = 0
  <2> SUFFICES ASSUME m # 0 PROVE FALSE
    OBVIOUS
  <2>1. PICK k \in Nat : m = k + 1 /\ k <= Len(s)
    <3>1. m - 1 \in Nat /\ m = (m - 1) + 1 /\ m - 1 <= Len(s)
      BY <1>1, <1>5
    <3>2. QED
      BY <3>1, Zenon
  <2>2. SolvesFrom(s, k, G)
    <3> SUFFICES ASSUME NEW j \in 0 .. Len(s), NEW z \in 0 .. Len(s), NEW u \in BOOLEAN,
                        k <= j, j <= z
                 PROVE  /\ G[<<j, z, u>>] = Parsed(s, j, z, u, G)
                        /\ WellFormed(s, j, z, G[<<j, z, u>>])
      BY Zenon DEF SolvesFrom
    <3>0. j \in Nat /\ z \in Nat /\ z <= Len(s)
      OBVIOUS
    <3>1. Agree(s, j, G, G)
      <4> SUFFICES ASSUME NEW x \in 0 .. Len(s), NEW y \in 0 .. Len(s), NEW v \in BOOLEAN,
                          j < x, x <= y
                   PROVE  WellFormed(s, x, y, G[<<x, y, v>>])
        BY Zenon DEF Agree
      <4>1. m <= x
        BY <2>1
      <4>2. QED
        BY <1>5, <4>1, Zenon DEF SolvesFrom
    <3>2. WellFormed(s, j, z, Parsed(s, j, z, u, G))
      BY <3>0, <3>1, Local
    <3>3. G[<<j, z, u>>] = Parsed(s, j, z, u, G)
      BY GrammarIs, Zenon DEF G
    <3>4. QED
      BY <3>2, <3>3, Zenon
  <2>3. k \in T /\ k < m
    BY <1>1, <2>1, <2>2
  <2>4. QED
    BY <1>4, <2>3, Zenon
<1>7. m <= i
  BY <1>6
<1>8. WellFormed(s, i, e, G[<<i, e, t>>])
  BY <1>5, <1>7, Zenon DEF SolvesFrom
<1>9. QED
  BY <1>8, Zenon DEF G

\* What the grammar says of the slice from i to e.
Said(s, i, e, typed) == Grammar(s)[<<i, e, typed>>]

\* A whole field up to to, of which unknown is not declared, and what is behind it.
Continues(s, i, e, typed, to, unknown) ==
    LET r    == Said(s, i, e, typed)
        rest == Said(s, to, e, typed)
    IN  /\ r.field = to /\ r.close = rest.close /\ r.done = rest.done
        /\ r.unknown = unknown \cup rest.unknown

\* What a field stores: nothing, its own bytes, or what its message stores.
Stores(i, typed, to, known, inside) ==
    IF known THEN inside ELSE IF typed THEN {[from |-> i, to |-> to]} ELSE {}

Place(s, i, e) == i \in 0 .. Len(s) /\ e \in 0 .. Len(s) /\ i <= e

LEMMA Formed ==
    ASSUME NEW s \in Seq(Byte), NEW i, NEW e, Place(s, i, e), NEW typed \in BOOLEAN
    PROVE  /\ WellFormed(s, i, e, Said(s, i, e, typed))
           /\ Said(s, i, e, typed) \in Result
           /\ Said(s, i, e, typed) = Parsed(s, i, e, typed, Grammar(s))
<1>1. WellFormed(s, i, e, Said(s, i, e, typed))
  BY GrammarFormed, Zenon DEF Place, Said
<1>2. Said(s, i, e, typed) = Parsed(s, i, e, typed, Grammar(s))
  BY GrammarIs, Zenon DEF Place, Said
<1>3. QED
  BY <1>1, <1>2, Zenon DEF WellFormed

LEMMA Continuing ==
    ASSUME NEW s \in Seq(Byte), NEW i, NEW e, Place(s, i, e), NEW typed \in BOOLEAN,
           NEW to \in Nat, i < to, to <= e, NEW known, NEW inside, inside \in SUBSET Slice,
           Said(s, i, e, typed) = FieldTo(Grammar(s), i, e, typed, to, known, inside)
    PROVE  Continues(s, i, e, typed, to, Stores(i, typed, to, known, inside))
<1>1. Place(s, to, e) /\ i \in Nat
  BY DEF Place
<1>2. Said(s, to, e, typed) \in Result
  BY <1>1, Formed, Zenon
<1> DEFINE unknown == Stores(i, typed, to, known, inside)
<1>3. unknown \in SUBSET Slice
  BY <1>1 DEF Slice, Stores
<1>4. Said(s, i, e, typed) = Followed(to, unknown, Said(s, to, e, typed))
  BY Zenon DEF FieldTo, Stores, Said
<1>5. to \in Int
  OBVIOUS
<1> HIDE DEF unknown
<1>6. Continues(s, i, e, typed, to, unknown)
  <2>1. PICK rest, r : rest = Said(s, to, e, typed) /\ r = Followed(to, unknown, rest)
    OBVIOUS
  <2>2. rest \in Result
    BY <1>2, <2>1, Zenon
  <2>3. /\ r.field = to /\ r.close = rest.close /\ r.done = rest.done
        /\ r.unknown = unknown \cup rest.unknown
    <3>1. PartsAre(r, to, unknown, rest)
      BY <1>3, <1>5, <2>1, <2>2, FollowedParts, Zenon
    <3>2. QED
      BY <3>1, Zenon DEF PartsAre
  <2>4. r = Said(s, i, e, typed)
    BY <1>4, <2>1, Zenon
  <2>5. QED
    BY <2>1, <2>3, <2>4, Zenon DEF Continues
<1>7. QED
  BY <1>6, Zenon DEF unknown

LEMMA EndMeans ==
    ASSUME NEW s \in Seq(Byte), NEW e \in 0 .. Len(s), NEW typed \in BOOLEAN
    PROVE  /\ Said(s, e, e, typed).done = TRUE /\ Said(s, e, e, typed).close = None
           /\ Said(s, e, e, typed).unknown = {}
<1>1. Place(s, e, e)
  BY DEF Place
<1>2. Said(s, e, e, typed) = [NoField EXCEPT !.done = TRUE]
  <2>1. Parsed(s, e, e, typed, Grammar(s)) = [NoField EXCEPT !.done = TRUE]
    BY ParsedEnd, Zenon
  <2>2. QED
    BY <1>1, <2>1, Formed, Zenon
<1>3. QED
  BY <1>2 DEF NoField

LEMMA NoneMeans ==
    ASSUME NEW s \in Seq(Byte), NEW i, NEW e, Place(s, i, e), i # e, NEW typed \in BOOLEAN,
           NEW tag, tag = readTag(s, i, e, MaxTag),
           ~tag.ok \/ (tag.wire_type # EndGroup /\ Wrong(tag, typed))
    PROVE  Said(s, i, e, typed) = NoField
<1>1. Said(s, i, e, typed) = Parsed(s, i, e, typed, Grammar(s))
  BY Formed, Zenon
<1>2. Parsed(s, i, e, typed, Grammar(s)) = NoField
  BY ParsedTag
<1>3. QED
  BY <1>1, <1>2, Zenon

\* The end tag of the group the slice is in.
Closes(s, i, e, typed) ==
    LET r == Said(s, i, e, typed)
    IN  r.close = i /\ r.done = FALSE /\ r.unknown = {} /\ r.field = None

LEMMA CloseMeans ==
    ASSUME NEW s \in Seq(Byte), NEW i, NEW e, Place(s, i, e), i # e, NEW typed \in BOOLEAN,
           NEW tag, tag = readTag(s, i, e, MaxTag), tag.ok, tag.wire_type = EndGroup
    PROVE  Closes(s, i, e, typed)
<1>1. Said(s, i, e, typed) = Parsed(s, i, e, typed, Grammar(s))
  BY Formed, Zenon
<1>2. Said(s, i, e, typed) = [NoField EXCEPT !.close = i]
  BY <1>1, ParsedTag
<1>3. QED
  BY <1>2 DEF NoField, None, Closes

LEMMA GroupMeans ==
    ASSUME NEW s \in Seq(Byte), NEW i, NEW e, Place(s, i, e), i # e, NEW typed \in BOOLEAN,
           NEW tag, tag = readTag(s, i, e, MaxTag),
           tag.ok, tag.wire_type = StartGroup, ~Wrong(tag, typed),
           NEW inner, inner = (typed /\ tag.number \in GroupField),
           NEW group, group = Said(s, tag.index, e, inner),
           NEW closing, closing = readTag(s, group.close, e, MaxTag)
    PROVE  /\ group.close # None /\ closing.number = tag.number =>
                Continues(s, i, e, typed, closing.index,
                          Stores(i, typed, closing.index, inner, group.unknown))
           /\ ~(group.close # None /\ closing.number = tag.number) =>
                Said(s, i, e, typed) = NoField
           /\ group.close # None =>
                /\ closing.index \in Nat /\ tag.index <= group.close
                /\ group.close < closing.index /\ closing.index <= e
                /\ closing.ok /\ closing.wire_type = EndGroup
<1>1. /\ tag.index \in Nat /\ i < tag.index /\ tag.index <= e /\ i \in Nat /\ e \in Nat
      /\ e <= Len(s) /\ i <= e
  <2>1. i \in Nat /\ e \in Nat /\ i <= e /\ e <= Len(s)
    BY DEF Place
  <2>2. QED
    BY <2>1, TagInside, Zenon
<1>2. Place(s, tag.index, e) /\ inner \in BOOLEAN
  BY <1>1 DEF Place
<1>3. WellFormed(s, tag.index, e, group) /\ group \in Result
  BY <1>2, Formed, Zenon
<1>4. group = Grammar(s)[<<tag.index, e, inner>>]
  BY Zenon DEF Said
<1>5. Said(s, i, e, typed) = WithGroup(s, i, e, typed, Grammar(s), tag, inner, group, closing)
  <2>1. Parsed(s, i, e, typed, Grammar(s))
          = WithGroup(s, i, e, typed, Grammar(s), tag, inner, group, closing)
    BY <1>4, ParsedGroup
  <2>2. Said(s, i, e, typed) = Parsed(s, i, e, typed, Grammar(s))
    BY Formed, Zenon
  <2>3. QED
    BY <2>1, <2>2, Zenon
<1>6. ASSUME group.close # None
      PROVE  /\ closing.index \in Nat /\ tag.index <= group.close
             /\ group.close < closing.index /\ closing.index <= e
             /\ closing.ok /\ closing.wire_type = EndGroup
  <2>1. /\ tag.index <= group.close /\ group.close < e /\ EndsGroup(closing)
    BY <1>3, <1>6, Zenon DEF WellFormed
  <2>2. group.close \in Nat
    <3>1. group.close \in Int
      BY <1>3 DEF Result
    <3>2. QED
      BY <1>1, <2>1, <3>1
  <2>3. group.close <= e
    BY <1>1, <2>1, <2>2
  <2>4. closing.ok /\ closing.wire_type = EndGroup
    BY <2>1, Zenon DEF EndsGroup
  <2>5. QED
    BY <1>1, <2>1, <2>2, <2>3, <2>4, TagInside, Zenon
<1>7. CASE group.close # None /\ closing.number = tag.number
  <2>1. group.unknown \in SUBSET Slice
    BY <1>3 DEF Result
  <2>2. i < closing.index /\ closing.index \in Nat /\ closing.index <= e
    <3>1. group.close \in Int
      BY <1>3 DEF Result
    <3>2. QED
      BY <1>1, <1>6, <1>7, <3>1
  <2>3. Said(s, i, e, typed) =
          FieldTo(Grammar(s), i, e, typed, closing.index, inner, group.unknown)
    BY <1>5, <1>7, Zenon DEF WithGroup
  <2>4. Continues(s, i, e, typed, closing.index,
                  Stores(i, typed, closing.index, inner, group.unknown))
    BY <2>1, <2>2, <2>3, Continuing
  <2>5. QED
    BY <1>6, <1>7, <2>4, Zenon
<1>8. CASE ~(group.close # None /\ closing.number = tag.number)
  <2>1. Said(s, i, e, typed) = NoField
    BY <1>5, <1>8, Zenon DEF WithGroup
  <2>2. QED
    BY <1>6, <1>8, <2>1, Zenon
<1>9. QED
  BY <1>7, <1>8, Zenon

LEMMA MessageMeans ==
    ASSUME NEW s \in Seq(Byte), NEW i, NEW e, Place(s, i, e), i # e, NEW typed \in BOOLEAN,
           NEW tag, tag = readTag(s, i, e, MaxTag),
           tag.ok, tag.wire_type = LengthDelimited, ~Wrong(tag, typed),
           NEW known, known = (typed /\ tag.number \in MessageField), known,
           NEW payload, payload = readBytes(s, tag.index, e),
           NEW message, message = Said(s, payload.start, payload.index, known)
    PROVE  /\ payload.ok /\ message.done =>
                Continues(s, i, e, typed, payload.index, message.unknown)
           /\ ~(payload.ok /\ message.done) => Said(s, i, e, typed) = NoField
<1>1. /\ tag.index \in Nat /\ i < tag.index /\ tag.index <= e /\ i \in Nat /\ e \in Nat
      /\ e <= Len(s) /\ i <= e
  <2>1. i \in Nat /\ e \in Nat /\ i <= e /\ e <= Len(s)
    BY DEF Place
  <2>2. QED
    BY <2>1, TagInside, Zenon
<1>2. /\ payload.start \in Nat /\ payload.index \in Nat /\ tag.index <= payload.start
      /\ payload.start <= payload.index /\ payload.index <= e
  BY <1>1, BytesInside, Zenon
<1>3. Place(s, payload.start, payload.index) /\ known \in BOOLEAN /\ i < payload.index
  BY <1>1, <1>2 DEF Place
<1>4. message \in Result
  BY <1>3, Formed, Zenon
<1>5. message = Grammar(s)[<<payload.start, payload.index, known>>]
  BY Zenon DEF Said
<1>6. IsParsed(s, i, e, typed, Grammar(s),
           WithMessage(i, e, typed, Grammar(s), known, payload, message))
  BY <1>5, ParsedMessage
<1>7. Said(s, i, e, typed) = WithMessage(i, e, typed, Grammar(s), known, payload, message)
  BY <1>6, Formed, Zenon DEF IsParsed
<1>8. CASE payload.ok /\ message.done
  <2>1. message.unknown \in SUBSET Slice
    BY <1>4 DEF Result
  <2>2. Said(s, i, e, typed) =
          FieldTo(Grammar(s), i, e, typed, payload.index, known, message.unknown)
    BY <1>7, <1>8, Zenon DEF WithMessage
  <2>3. Continues(s, i, e, typed, payload.index,
                  Stores(i, typed, payload.index, known, message.unknown))
    BY <1>2, <1>3, <2>1, <2>2, Continuing
  <2>4. Stores(i, typed, payload.index, known, message.unknown) = message.unknown
    BY Zenon DEF Stores
  <2>5. QED
    BY <1>8, <2>3, <2>4, Zenon
<1>9. CASE ~(payload.ok /\ message.done)
  BY <1>7, <1>9, Zenon DEF WithMessage
<1>10. QED
  BY <1>8, <1>9, Zenon

LEMMA ValueMeans ==
    ASSUME NEW s \in Seq(Byte), NEW i, NEW e, Place(s, i, e), i # e, NEW typed \in BOOLEAN,
           NEW tag, tag = readTag(s, i, e, MaxTag),
           tag.ok, tag.wire_type # StartGroup, tag.wire_type # EndGroup, ~Wrong(tag, typed),
           ~(typed /\ tag.number \in MessageField),
           NEW known, known = (typed /\ tag.number \in ScalarField),
           NEW value, value = skipValue(s, tag.index, e, tag.wire_type)
    PROVE  /\ value.ok => Continues(s, i, e, typed, value.index,
                                    Stores(i, typed, value.index, known, {}))
           /\ ~value.ok => Said(s, i, e, typed) = NoField
           /\ value.index \in Nat /\ i < value.index /\ value.index <= e
<1>1. /\ tag.index \in Nat /\ i < tag.index /\ tag.index <= e /\ i \in Nat /\ e \in Nat
      /\ e <= Len(s) /\ i <= e /\ tag.wire_type \in WireType
  <2>1. i \in Nat /\ e \in Nat /\ i <= e /\ e <= Len(s)
    BY DEF Place
  <2>2. QED
    BY <2>1, TagInside, Zenon
<1>2. value.index \in Nat /\ tag.index <= value.index /\ value.index <= e
  BY <1>1, ValueInside, Zenon
<1>3. i < value.index
  BY <1>1, <1>2
<1>4. Said(s, i, e, typed) = WithValue(i, e, typed, Grammar(s), known, value)
  <2>1. Parsed(s, i, e, typed, Grammar(s)) = WithValue(i, e, typed, Grammar(s), known, value)
    BY ParsedValue
  <2>2. QED
    BY <2>1, Formed, Zenon
<1>5. CASE value.ok
  <2>1. Said(s, i, e, typed) = FieldTo(Grammar(s), i, e, typed, value.index, known, {})
    BY <1>4, <1>5, Zenon DEF WithValue
  <2>2. {} \in SUBSET Slice
    BY Zenon
  <2>3. Continues(s, i, e, typed, value.index, Stores(i, typed, value.index, known, {}))
    BY <1>2, <1>3, <2>1, <2>2, Continuing
  <2>4. QED
    BY <1>2, <1>3, <1>5, <2>3, Zenon
<1>6. CASE ~value.ok
  BY <1>2, <1>3, <1>4, <1>6, Zenon DEF WithValue
<1>7. QED
  BY <1>5, <1>6, Zenon

-----------------------------------------------------------------------------
(* Fields as validateRawField sees them *)

RawSaid(s, i, e) == Said(s, i, e, FALSE)

\* A field from i to to, and whole fields behind it or not.
RawField(s, i, w, to) ==
    RawSaid(s, i, w).field = to /\ RawSaid(s, i, w).close = RawSaid(s, to, w).close

LEMMA TagShort ==
    ASSUME NEW s, NEW i, NEW e, NEW m, NEW n,
           readTag(s, i, e, m).ok, readTag(s, i, e, m).index - i <= n
    PROVE  readTag(s, i, e, n) = readTag(s, i, e, m)
  BY DEF readTag

\* The field that was skipped, in any slice it fits into.
LEMMA RawValue ==
    ASSUME NEW s \in Seq(Byte), NEW i \in Nat, NEW e \in Nat, i <= e, e <= Len(s),
           NEW tag, tag = readTag(s, i, e, MaxTag), tag.ok,
           tag.wire_type # StartGroup, tag.wire_type # EndGroup,
           NEW value, value = skipValue(s, tag.index, e, tag.wire_type), value.ok,
           NEW w \in Nat, value.index <= w, w <= Len(s)
    PROVE  RawField(s, i, w, value.index)
<1>1. /\ tag.index \in Nat /\ i < tag.index /\ tag.index <= e /\ tag.wire_type \in WireType
  BY TagInside, Zenon
<1>2. value.index \in Nat /\ tag.index <= value.index /\ value.index <= e
  BY <1>1, ValueInside, Zenon
<1>3. tag.index <= w /\ i <= w /\ i # w
  BY <1>1, <1>2
<1>4. tag = readTag(s, i, w, MaxTag)
  BY <1>3, TagFits
<1>5. value = skipValue(s, tag.index, w, tag.wire_type)
  BY <1>1, <1>3, ValueFits
<1>6. Place(s, i, w)
  BY <1>3 DEF Place
<1>7. PICK typed, known : typed = FALSE /\ known = (typed /\ tag.number \in ScalarField)
  OBVIOUS
<1>8. typed \in BOOLEAN /\ ~Wrong(tag, typed) /\ ~(typed /\ tag.number \in MessageField)
  BY <1>7 DEF Wrong
<1>9. Continues(s, i, w, typed, value.index, Stores(i, typed, value.index, known, {}))
  BY <1>3, <1>4, <1>5, <1>6, <1>7, <1>8, ValueMeans
<1>10. QED
  BY <1>7, <1>9, Zenon DEF Continues, RawSaid, RawField

\* The group that was skipped, in any slice it fits into.
LEMMA RawGroup ==
    ASSUME NEW s \in Seq(Byte), NEW f \in Nat, NEW p \in Nat, f <= p, NEW e \in Nat, p <= e,
           e <= Len(s),
           NEW tag, tag = readTag(s, f, p, MaxTag), tag.ok, tag.wire_type = StartGroup,
           NEW closing, closing = readTag(s, p, e, MaxTag), closing.ok,
           closing.wire_type = EndGroup, closing.number = tag.number,
           \A w \in p .. Len(s) : RawSaid(s, tag.index, w).close = RawSaid(s, p, w).close,
           NEW w \in Nat, closing.index <= w, w <= Len(s)
    PROVE  RawField(s, f, w, closing.index)
<1>1. /\ closing.index \in Nat /\ p < closing.index /\ closing.index <= e
  BY TagInside, Zenon
<1>2. p <= Len(s)
  BY <1>1
<1>3. /\ tag.index \in Nat /\ f < tag.index /\ tag.index <= p
  BY <1>2, TagInside, Zenon
<1>4. tag.index <= w /\ f <= w /\ f # w /\ p <= w /\ p # w /\ w \in p .. Len(s)
  BY <1>1, <1>3
<1>5. tag = readTag(s, f, w, MaxTag)
  BY <1>2, <1>4, TagFits
<1>6. closing = readTag(s, p, w, MaxTag)
  BY <1>4, TagFits
<1>7. Place(s, f, w) /\ Place(s, p, w)
  BY <1>4 DEF Place
<1>8. PICK typed, inner, group :
          /\ typed = FALSE /\ inner = (typed /\ tag.number \in GroupField)
          /\ group = Said(s, tag.index, w, inner)
  OBVIOUS
<1>9. typed \in BOOLEAN /\ ~Wrong(tag, typed) /\ inner = FALSE
  BY <1>8 DEF Wrong
<1>10. group.close = p
  <2>1. Closes(s, p, w, typed)
    BY <1>4, <1>6, <1>7, <1>9, CloseMeans, Zenon
  <2>2. RawSaid(s, p, w).close = p
    BY <2>1, <1>8, Zenon DEF RawSaid, Closes
  <2>3. RawSaid(s, tag.index, w).close = RawSaid(s, p, w).close
    BY <1>4, Zenon
  <2>4. QED
    BY <1>8, <1>9, <2>2, <2>3, Zenon DEF RawSaid
<1>11. group.close # None
  BY <1>10 DEF None
<1>12. closing = readTag(s, group.close, w, MaxTag)
  BY <1>6, <1>10, Zenon
<1>13. Continues(s, f, w, typed, closing.index,
                 Stores(f, typed, closing.index, inner, group.unknown))
  BY <1>4, <1>5, <1>7, <1>8, <1>9, <1>11, <1>12, GroupMeans
<1>14. QED
  BY <1>8, <1>13, Zenon DEF Continues, RawSaid, RawField

-----------------------------------------------------------------------------
(* Groups being skipped *)

\* The tag a group begins with, as it was read before p.
Opening(s, c, p) == readTag(s, c.from, p, MaxVarint)

\* Whole fields lead from the tag of the group to p.
SkipFrame(s, c, p) ==
    /\ p \in Nat /\ c.from <= p /\ p <= Len(s)
    /\ Opening(s, c, p).ok /\ Opening(s, c, p).wire_type = StartGroup
    /\ Opening(s, c, p).number = c.number
    /\ ~c.keep => Opening(s, c, p).index - c.from <= MaxTag
    /\ \A w \in p .. Len(s) :
          RawSaid(s, Opening(s, c, p).index, w).close = RawSaid(s, p, w).close

\* How far the activation has come.
Reached(cs, ix, j) == IF j = Len(cs) THEN ix ELSE cs[j + 1].from

\* A skipped group calls nothing but skipGroup, and stores nothing inside.
SkipsOK(s, cs, ix) ==
    /\ \A j \in 1 .. Len(cs) :
          cs[j].does = "skip" => SkipFrame(s, cs[j], Reached(cs, ix, j))
    /\ \A j, k \in 1 .. Len(cs) :
          j < k /\ cs[j].does = "skip" => cs[k].does = "skip" /\ ~cs[k].keep

Whole(s, slice) ==
    \/ readVarint(s, slice.from, slice.to).index - slice.from > MaxTag
    \/ RawSaid(s, slice.from, slice.to).field = slice.to

StoredOK(s, ks) == \A i \in DOMAIN ks : Whole(s, ks[i])

WholeInv == SkipsOK(input, calls, index) /\ StoredOK(input, kept)

\* The Reader moves on in the running activation.
LEMMA SkipsGo ==
    ASSUME NEW s, NEW cs, NEW ix, NEW jx, cs \in Seq(Activation), Len(cs) # 0,
           SkipsOK(s, cs, ix), Last(cs).does = "skip" => SkipFrame(s, Last(cs), jx)
    PROVE  SkipsOK(s, cs, jx)
<1>1. Len(cs) \in Nat \ {0} /\ Last(cs) = cs[Len(cs)]
  BY DEF Last
<1>2. ASSUME NEW j \in 1 .. Len(cs), cs[j].does = "skip"
      PROVE  SkipFrame(s, cs[j], Reached(cs, jx, j))
  <2>1. CASE j = Len(cs)
    BY <1>1, <1>2, <2>1, Zenon DEF Reached
  <2>2. CASE j # Len(cs)
    BY <1>2, <2>2, Zenon DEF Reached, SkipsOK
  <2>3. QED
    BY <2>1, <2>2, Zenon
<1>3. QED
  BY <1>2, Zenon DEF SkipsOK

\* No group is being skipped unless the running activation skips one.
LEMMA NoSkips ==
    ASSUME NEW s, NEW cs, NEW ix, cs \in Seq(Activation), Len(cs) # 0,
           SkipsOK(s, cs, ix), Last(cs).does # "skip"
    PROVE  \A j \in 1 .. Len(cs) : cs[j].does # "skip"
<1>1. Len(cs) \in Nat \ {0} /\ Last(cs) = cs[Len(cs)]
  BY DEF Last
<1>2. Len(cs) \in 1 .. Len(cs) /\ \A j \in 1 .. Len(cs) : j # Len(cs) => j < Len(cs)
  BY <1>1
<1>3. QED
  BY <1>1, <1>2, Zenon DEF SkipsOK

LEMMA SkipsNone ==
    ASSUME NEW s, NEW cs, NEW ix, \A j \in 1 .. Len(cs) : cs[j].does # "skip"
    PROVE  SkipsOK(s, cs, ix)
  BY Zenon DEF SkipsOK

LEMMA SkipsPush ==
    ASSUME NEW s, NEW cs, NEW ix, NEW c \in Activation, NEW jx,
           cs \in Seq(Activation), Len(cs) # 0, SkipsOK(s, cs, ix),
           Last(cs).does = "skip" => c.does = "skip" /\ ~c.keep /\ c.from = ix,
           c.does = "skip" => SkipFrame(s, c, jx)
    PROVE  SkipsOK(s, Append(cs, c), jx)
<1> DEFINE ds == Append(cs, c)
<1>1. /\ Len(cs) \in Nat \ {0} /\ Last(cs) = cs[Len(cs)]
      /\ Len(ds) = Len(cs) + 1 /\ ds[Len(cs) + 1] = c
      /\ \A j \in 1 .. Len(cs) : ds[j] = cs[j]
  BY DEF Last
<1> HIDE DEF ds
<1>2. \A j \in 1 .. Len(ds) : j \in 1 .. Len(cs) \/ j = Len(cs) + 1
  BY <1>1
<1>3. ASSUME NEW j \in 1 .. Len(cs), cs[j].does = "skip" PROVE Last(cs).does = "skip"
  BY <1>3, NoSkips, Zenon
<1>4. ASSUME NEW j \in 1 .. Len(ds), ds[j].does = "skip"
      PROVE  SkipFrame(s, ds[j], Reached(ds, jx, j))
  <2>1. CASE j = Len(cs) + 1
    BY <1>1, <1>4, <2>1, Zenon DEF Reached
  <2>2. CASE j \in 1 .. Len(cs)
    <3>0. ds[j] = cs[j] /\ cs[j].does = "skip"
      BY <1>1, <1>4, <2>2, Zenon
    <3>1. Reached(ds, jx, j) = Reached(cs, ix, j)
      <4>1. CASE j = Len(cs)
        <5>1. Reached(ds, jx, j) = c.from
          BY <1>1, <4>1 DEF Reached
        <5>2. c.from = ix
          BY <1>3, <2>2, <3>0, Zenon
        <5>3. QED
          BY <4>1, <5>1, <5>2, Zenon DEF Reached
      <4>2. CASE j # Len(cs)
        <5>1. j + 1 \in 1 .. Len(cs) /\ j # Len(cs) + 1
          BY <1>1, <2>2, <4>2
        <5>2. ds[j + 1] = cs[j + 1]
          BY <1>1, <5>1, Zenon
        <5>3. QED
          BY <1>1, <4>2, <5>1, <5>2, Zenon DEF Reached
      <4>3. QED
        BY <4>1, <4>2, Zenon
    <3>2. SkipFrame(s, cs[j], Reached(cs, ix, j))
      BY <2>2, <3>0, Zenon DEF SkipsOK
    <3>3. QED
      BY <3>0, <3>1, <3>2, Zenon
  <2>3. QED
    BY <1>2, <2>1, <2>2, Zenon
<1>5. ASSUME NEW j \in 1 .. Len(ds), NEW k \in 1 .. Len(ds), j < k, ds[j].does = "skip"
      PROVE  ds[k].does = "skip" /\ ~ds[k].keep
  <2>1. j \in 1 .. Len(cs)
    BY <1>1, <1>5
  <2>2. cs[j].does = "skip"
    BY <1>1, <1>5, <2>1, Zenon
  <2>3. CASE k = Len(cs) + 1
    BY <1>1, <1>3, <2>1, <2>2, <2>3, Zenon
  <2>4. CASE k \in 1 .. Len(cs)
    BY <1>1, <1>5, <2>1, <2>2, <2>4, Zenon DEF SkipsOK
  <2>5. QED
    BY <1>2, <2>3, <2>4, Zenon
<1>6. SkipsOK(s, ds, jx)
  BY <1>4, <1>5, Zenon DEF SkipsOK
<1>7. QED
  BY <1>6 DEF ds

LEMMA FrontOf ==
    ASSUME NEW cs, cs \in Seq(Activation), Len(cs) > 1
    PROVE  /\ Len(cs) \in Nat \ {0} /\ Front(cs) \in Seq(Activation)
           /\ Len(Front(cs)) = Len(cs) - 1 /\ Len(Front(cs)) \in Nat \ {0}
           /\ \A j \in 1 .. Len(Front(cs)) : Front(cs)[j] = cs[j]
<1>1. Len(cs) \in Nat
  BY LenProperties
<1>a. \A n \in Nat : n > 1 => n \in Nat \ {0} /\ n - 1 \in Nat \ {0}
  BY SMT
<1>2. Len(cs) \in Nat \ {0} /\ Len(cs) - 1 \in Nat \ {0}
  BY <1>1, <1>a, Zenon
<1>3. /\ Front(cs) \in Seq(Activation) /\ Len(Front(cs)) = Len(cs) - 1
      /\ \A j \in 1 .. Len(cs) - 1 : Front(cs)[j] = cs[j]
  BY <1>2 DEF Front
<1>4. QED
  BY <1>2, <1>3

LEMMA SkipsPop ==
    ASSUME NEW s, NEW cs, NEW ix, NEW jx, cs \in Seq(Activation), Len(cs) > 1,
           SkipsOK(s, cs, ix),
           Last(Front(cs)).does = "skip" => SkipFrame(s, Last(Front(cs)), jx)
    PROVE  SkipsOK(s, Front(cs), jx)
<1> DEFINE ds == Front(cs)
<1>1. /\ Len(cs) \in Nat \ {0} /\ ds \in Seq(Activation)
      /\ Len(ds) = Len(cs) - 1 /\ Len(ds) \in Nat \ {0}
      /\ \A j \in 1 .. Len(ds) : ds[j] = cs[j]
  BY FrontOf, Zenon
<1> HIDE DEF ds
<1>2. Last(ds) = ds[Len(ds)] /\ \A j \in 1 .. Len(ds) : j \in 1 .. Len(cs) /\ j # Len(cs)
  BY <1>1 DEF Last
<1>3. ASSUME NEW j \in 1 .. Len(ds), ds[j].does = "skip"
      PROVE  SkipFrame(s, ds[j], Reached(ds, jx, j))
  <2>1. CASE j = Len(ds)
    BY <1>2, <1>3, <2>1, Zenon DEF Reached, ds
  <2>2. CASE j # Len(ds)
    <3>1. j + 1 \in 1 .. Len(ds)
      BY <1>1, <2>2
    <3>2. ds[j + 1] = cs[j + 1] /\ ds[j] = cs[j] /\ j \in 1 .. Len(cs) /\ j # Len(cs)
      BY <1>1, <1>2, <3>1, Zenon
    <3>3. SkipFrame(s, cs[j], Reached(cs, ix, j))
      BY <1>3, <3>2, Zenon DEF SkipsOK
    <3>4. Reached(cs, ix, j) = Reached(ds, jx, j)
      BY <2>2, <3>2, Zenon DEF Reached
    <3>5. QED
      BY <3>2, <3>3, <3>4, Zenon
  <2>3. QED
    BY <2>1, <2>2, Zenon
<1>4. ASSUME NEW j \in 1 .. Len(ds), NEW k \in 1 .. Len(ds), j < k, ds[j].does = "skip"
      PROVE  ds[k].does = "skip" /\ ~ds[k].keep
  BY <1>1, <1>2, <1>4, Zenon DEF SkipsOK
<1>5. SkipsOK(s, ds, jx)
  BY <1>3, <1>4, Zenon DEF SkipsOK
<1>6. QED
  BY <1>5 DEF ds

\* The tag that was read, and the bytes of it.
LEMMA TagRead ==
    ASSUME IInv, NEW tag \in NextTag
    PROVE  /\ tag = readTag(input, index, end, LongestTag) /\ tag.ok
           /\ input \in Seq(Byte) /\ index \in Nat /\ end \in Nat /\ index <= end
           /\ end <= Len(input) /\ Len(input) \in Nat
           /\ tag.index \in Nat /\ index < tag.index /\ tag.index <= end
           /\ tag.index <= Len(input)
           /\ tag.number \in Nat /\ tag.wire_type \in WireType
           /\ tag.index - index <= LongestTag
           /\ readVarint(input, index, end).ok
           /\ readVarint(input, index, end).index = tag.index
<1>1. tag = readTag(input, index, end, LongestTag) /\ tag.ok
  BY Zenon DEF NextTag
<1>2. input \in Seq(Byte) /\ index \in Nat /\ end \in Nat /\ index <= end /\ end <= Len(input)
  BY Zenon DEF IInv, ReaderOK
<1>3. /\ tag.index \in Nat /\ index < tag.index /\ tag.index <= end
      /\ tag.number \in Nat /\ tag.wire_type \in WireType
  BY TagOK, Zenon
<1>4. Len(input) \in Nat
  BY <1>2, LenProperties
<1>5. tag.index <= Len(input)
  BY <1>2, <1>3, <1>4
<1>6. /\ tag.index - index <= LongestTag
      /\ readVarint(input, index, end).ok
      /\ readVarint(input, index, end).index = tag.index
  BY <1>1, Zenon DEF readTag
<1>7. QED
  BY <1>1, <1>2, <1>3, <1>4, <1>5, <1>6, Zenon

LEMMA Longest == /\ LongestTag \in {MaxTag, MaxVarint}
                 /\ ~InMessage => LongestTag = MaxTag
                 /\ decoder # "fast" => LongestTag = MaxTag
  BY DEF LongestTag

\* A tag of at most five bytes is the tag the others read.
LEMMA ShortTag ==
    ASSUME IInv, NEW tag \in NextTag, tag.index - index <= MaxTag
    PROVE  tag = readTag(input, index, end, MaxTag)
<1>1. tag = readTag(input, index, end, LongestTag) /\ tag.ok
  BY TagRead, Zenon
<1>2. QED
  BY <1>1, TagShort

LEMMA NewSkip ==
    ASSUME IInv, NEW tag \in NextTag, tag.wire_type = StartGroup,
           NEW c, c.from = index, c.number = tag.number,
           c.keep \/ ~InMessage
    PROVE  SkipFrame(input, c, tag.index)
<1>1. /\ tag = readTag(input, index, end, LongestTag) /\ tag.ok
      /\ input \in Seq(Byte) /\ index \in Nat /\ end \in Nat /\ end <= Len(input)
      /\ tag.index \in Nat /\ index < tag.index /\ tag.index <= Len(input)
      /\ tag.index - index <= LongestTag
  BY TagRead, Zenon
<1>2. tag.index - index <= MaxVarint
  BY <1>1, Longest DEF MaxTag, MaxVarint
<1>3. tag = readTag(input, index, end, MaxVarint)
  BY <1>1, <1>2, TagShort
<1>4. tag.index <= tag.index
  BY <1>1
<1>5. tag = readTag(input, index, tag.index, MaxVarint)
  BY <1>1, <1>3, <1>4, TagFits
<1>6. Opening(input, c, tag.index) = tag
  BY <1>5, Zenon DEF Opening
<1>7. c.from <= tag.index
  BY <1>1
<1>8. ~c.keep => tag.index - c.from <= MaxTag
  BY <1>1, Longest, Zenon
<1>9. QED
  BY <1>1, <1>6, <1>7, <1>8, Zenon DEF SkipFrame

\* A skipped group moves on behind a field.
LEMMA FrameMoves ==
    ASSUME NEW s \in Seq(Byte), NEW c \in Activation, NEW p, SkipFrame(s, c, p),
           NEW q \in Nat, p <= q, q <= Len(s),
           \A w \in q .. Len(s) : RawSaid(s, p, w).close = RawSaid(s, q, w).close
    PROVE  SkipFrame(s, c, q)
<1>1. /\ p \in Nat /\ c.from <= p /\ p <= Len(s)
      /\ Opening(s, c, p).ok /\ Opening(s, c, p).wire_type = StartGroup
      /\ Opening(s, c, p).number = c.number
      /\ ~c.keep => Opening(s, c, p).index - c.from <= MaxTag
      /\ \A w \in p .. Len(s) :
            RawSaid(s, Opening(s, c, p).index, w).close = RawSaid(s, p, w).close
  BY Zenon DEF SkipFrame
<1>2. c.from \in Nat
  BY Zenon DEF Activation
<1>3. readTag(s, c.from, p, MaxVarint).ok
  BY <1>1, Zenon DEF Opening
<1>4. readTag(s, c.from, p, MaxVarint).index \in Nat
      /\ readTag(s, c.from, p, MaxVarint).index <= p
  BY <1>1, <1>2, <1>3, TagInside, Zenon
<1>5. readTag(s, c.from, p, MaxVarint).index <= q /\ c.from <= q
  BY <1>1, <1>2, <1>4
<1>6. Opening(s, c, q) = Opening(s, c, p)
  BY <1>1, <1>2, <1>3, <1>5, TagFits DEF Opening
<1>7. ASSUME NEW w \in q .. Len(s)
      PROVE  RawSaid(s, Opening(s, c, p).index, w).close = RawSaid(s, q, w).close
  <2>1. w \in p .. Len(s)
    BY <1>1
  <2>2. QED
    BY <1>1, <2>1, Zenon
<1>8. QED
  BY <1>1, <1>5, <1>6, <1>7, Zenon DEF SkipFrame

\* A tag too long for validateRawField stays so in the slice that is stored.
LEMMA LongTag ==
    ASSUME NEW s \in Seq(Byte), NEW i \in Nat, NEW e \in Nat, e <= Len(s),
           readVarint(s, i, e).ok, ~(readVarint(s, i, e).index - i <= MaxTag),
           i <= e, NEW to \in Nat, readVarint(s, i, e).index <= to, to <= Len(s)
    PROVE  readVarint(s, i, to).index - i > MaxTag
<1>1. readVarint(s, i, to) = readVarint(s, i, e)
  BY VarintFits
<1>2. readVarint(s, i, e).index \in Nat
  BY VarintInside, Zenon
<1>3. readVarint(s, i, e).index - i > MaxTag
  BY <1>2 DEF MaxTag
<1>4. QED
  BY <1>1, <1>3, Zenon

\* What skipValue skipped is a whole field.
LEMMA ValueWhole ==
    ASSUME IInv, NEW tag \in NextTag,
           tag.wire_type # StartGroup, tag.wire_type # EndGroup,
           NEW value, value = skipValue(input, tag.index, end, tag.wire_type), value.ok
    PROVE  /\ value.index \in Nat /\ tag.index <= value.index /\ value.index <= end
           /\ value.index <= Len(input)
           /\ Whole(input, [from |-> index, to |-> value.index])
           /\ ~InMessage => \A w \in value.index .. Len(input) :
                  RawSaid(input, index, w).close = RawSaid(input, value.index, w).close
<1>1. /\ tag.ok /\ input \in Seq(Byte) /\ index \in Nat /\ end \in Nat /\ index <= end
      /\ end <= Len(input) /\ Len(input) \in Nat
      /\ tag.index \in Nat /\ index < tag.index /\ tag.index <= end
      /\ tag.wire_type \in WireType /\ tag.index - index <= LongestTag
      /\ readVarint(input, index, end).ok
      /\ readVarint(input, index, end).index = tag.index
  BY TagRead, Zenon
<1>2. value.index \in Nat /\ tag.index <= value.index /\ value.index <= end
  BY <1>1, ValueInside, Zenon
<1>3. value.index <= Len(input) /\ value.index <= value.index
  BY <1>1, <1>2
<1>4. CASE tag.index - index <= MaxTag
  <2>1. tag = readTag(input, index, end, MaxTag)
    BY <1>4, ShortTag, Zenon
  <2>2. ASSUME NEW w \in Nat, value.index <= w, w <= Len(input)
        PROVE  RawField(input, index, w, value.index)
    BY <1>1, <2>1, <2>2, RawValue, Zenon
  <2>3. RawSaid(input, index, value.index).field = value.index
    BY <1>2, <1>3, <2>2, Zenon DEF RawField
  <2>4. Whole(input, [from |-> index, to |-> value.index])
    BY <2>3 DEF Whole
  <2>5. \A w \in value.index .. Len(input) :
            w \in Nat /\ value.index <= w /\ w <= Len(input)
    BY <1>2
  <2>6. QED
    BY <1>2, <1>3, <2>2, <2>4, <2>5, Zenon DEF RawField
<1>5. CASE ~(tag.index - index <= MaxTag)
  <2>1. readVarint(input, index, value.index).index - index > MaxTag
    BY <1>1, <1>2, <1>3, <1>5, LongTag, Zenon
  <2>2. Whole(input, [from |-> index, to |-> value.index])
    BY <2>1 DEF Whole
  <2>3. InMessage
    BY <1>1, <1>5, Longest, Zenon
  <2>4. QED
    BY <1>2, <1>3, <2>2, <2>3, Zenon
<1>6. QED
  BY <1>4, <1>5, Zenon

\* What skipGroup skipped is a whole field.
LEMMA GroupWhole ==
    ASSUME IInv, NEW tag \in NextTag, tag.wire_type = EndGroup, ~InMessage,
           NEW c \in Activation, SkipFrame(input, c, index), tag.number = c.number
    PROVE  /\ Whole(input, [from |-> c.from, to |-> tag.index])
           /\ ~c.keep => \A w \in tag.index .. Len(input) :
                  RawSaid(input, c.from, w).close = RawSaid(input, tag.index, w).close
<1>1. /\ tag.ok /\ input \in Seq(Byte) /\ index \in Nat /\ end \in Nat /\ index <= end
      /\ end <= Len(input) /\ Len(input) \in Nat
      /\ tag.index \in Nat /\ index < tag.index /\ tag.index <= Len(input)
      /\ tag = readTag(input, index, end, LongestTag)
  BY TagRead, Zenon
<1>2. tag = readTag(input, index, end, MaxTag)
  BY <1>1, Longest, Zenon
<1>3. PICK t : t = Opening(input, c, index)
  OBVIOUS
<1>4. /\ index \in Nat /\ c.from <= index /\ index <= Len(input)
      /\ t.ok /\ t.wire_type = StartGroup /\ t.number = c.number
      /\ ~c.keep => t.index - c.from <= MaxTag
      /\ \A w \in index .. Len(input) :
            RawSaid(input, t.index, w).close = RawSaid(input, index, w).close
  BY <1>3, Zenon DEF SkipFrame
<1>5. t = readTag(input, c.from, index, MaxVarint) /\ c.from \in Nat
  BY <1>3, Zenon DEF Opening, Activation
<1>6. t.index \in Nat /\ c.from < t.index /\ t.index <= index
  BY <1>1, <1>4, <1>5, TagInside, Zenon
<1>7. CASE t.index - c.from <= MaxTag
  <2>1. t = readTag(input, c.from, index, MaxTag)
    BY <1>4, <1>5, <1>7, TagShort
  <2>a. tag.number = t.number
    BY <1>4, Zenon
  <2>2. ASSUME NEW w \in Nat, tag.index <= w, w <= Len(input)
        PROVE  RawField(input, c.from, w, tag.index)
    BY <2>a, <1>1, <1>2, <1>4, <1>5, <2>1, <2>2, RawGroup, Zenon
  <2>3. tag.index <= tag.index
    BY <1>1
  <2>4. RawSaid(input, c.from, tag.index).field = tag.index
    BY <1>1, <2>2, <2>3, Zenon DEF RawField
  <2>5. Whole(input, [from |-> c.from, to |-> tag.index])
    BY <2>4 DEF Whole
  <2>6. \A w \in tag.index .. Len(input) : w \in Nat /\ tag.index <= w /\ w <= Len(input)
    BY <1>1
  <2>7. QED
    BY <2>2, <2>5, <2>6, Zenon DEF RawField
<1>8. CASE ~(t.index - c.from <= MaxTag)
  <2>1. /\ readVarint(input, c.from, index).ok
        /\ readVarint(input, c.from, index).index = t.index
    BY <1>4, <1>5, Zenon DEF readTag
  <2>2. t.index <= tag.index
    BY <1>1, <1>6
  <2>3. readVarint(input, c.from, tag.index).index - c.from > MaxTag
    BY <1>1, <1>4, <1>5, <1>8, <2>1, <2>2, LongTag, Zenon
  <2>4. Whole(input, [from |-> c.from, to |-> tag.index])
    BY <2>3 DEF Whole
  <2>5. QED
    BY <1>4, <1>8, <2>4, Zenon
<1>9. QED
  BY <1>7, <1>8, Zenon

LEMMA StoredMore ==
    ASSUME NEW s, NEW ks, ks \in Seq(Slice), StoredOK(s, ks), NEW slice, Whole(s, slice)
    PROVE  StoredOK(s, Append(ks, slice))
<1>1. /\ Len(ks) \in Nat /\ Len(Append(ks, slice)) = Len(ks) + 1
      /\ DOMAIN Append(ks, slice) = 1 .. Len(ks) + 1 /\ DOMAIN ks = 1 .. Len(ks)
      /\ Append(ks, slice)[Len(ks) + 1] = slice
      /\ \A j \in 1 .. Len(ks) : Append(ks, slice)[j] = ks[j]
  OBVIOUS
<1>2. \A j \in 1 .. Len(ks) + 1 : j \in 1 .. Len(ks) \/ j = Len(ks) + 1
  BY <1>1
<1>3. QED
  BY <1>1, <1>2, Zenon DEF StoredOK

LEMMA CallsAre ==
    ASSUME IInv
    PROVE  /\ calls \in Seq(Activation) /\ Len(calls) # 0 /\ Len(calls) \in Nat \ {0}
           /\ Top \in Activation /\ Top = Last(calls) /\ kept \in Seq(Slice)
           /\ index \in Nat /\ input \in Seq(Byte)
<1>1. Top \in Activation /\ Len(calls) \in Nat \ {0}
  BY TopOK, Zenon
<1>2. QED
  BY <1>1, Zenon DEF IInv, CallsOK, KeptOK, ReaderOK, Top

\* What a step must show of the calls and of what is stored.
LEMMA WholeStep ==
    ASSUME WholeInv, input' = input, SkipsOK(input, calls', index'),
           StoredOK(input, kept')
    PROVE  WholeInv'
  BY Zenon DEF WholeInv, SkipsOK, SkipFrame, Opening, RawSaid, Said, Reached, StoredOK, Whole

LEMMA WholeStays ==
    ASSUME WholeInv, input' = input, calls' = calls, index' = index, kept' = kept
    PROVE  WholeInv'
<1>1. SkipsOK(input, calls', index') /\ StoredOK(input, kept')
  BY Zenon DEF WholeInv
<1>2. QED
  BY <1>1, WholeStep, Zenon

LEMMA WholeFails ==
    ASSUME WholeInv, input' = input, NEW error, Fail(error)
    PROVE  WholeInv'
  BY WholeStays, Zenon DEF Fail

\* Nothing is skipped outside skipGroup.
LEMMA OutsideSkips ==
    ASSUME IInv, WholeInv, Top.does # "skip"
    PROVE  \A j \in 1 .. Len(calls) : calls[j].does # "skip"
  BY CallsAre, NoSkips, Zenon DEF WholeInv

\* The stack a call returns to, when nothing is skipped.
LEMMA PoppedOutside ==
    ASSUME IInv, WholeInv, Top.does # "skip", Len(calls) > 1, NEW jx
    PROVE  /\ SkipsOK(input, Front(calls), jx)
           /\ \A j \in 1 .. Len(Front(calls)) : Front(calls)[j].does # "skip"
<1>1. \A j \in 1 .. Len(calls) : calls[j].does # "skip"
  BY OutsideSkips, Zenon
<1>2. /\ Len(calls) \in Nat \ {0} /\ Len(Front(calls)) = Len(calls) - 1
      /\ \A j \in 1 .. Len(Front(calls)) : Front(calls)[j] = calls[j]
  BY CallsAre, FrontOf, Zenon
<1>3. \A j \in 1 .. Len(Front(calls)) : j \in 1 .. Len(calls)
  BY <1>2
<1>4. \A j \in 1 .. Len(Front(calls)) : Front(calls)[j].does # "skip"
  BY <1>1, <1>2, <1>3, Zenon
<1>5. QED
  BY <1>4, SkipsNone, Zenon

LEMMA WholeReturn ==
    ASSUME IInv, WholeInv, ReturnFromMessage
    PROVE  WholeInv'
<1>1. /\ Top.does = "message" /\ Len(calls) > 1 /\ calls' = Front(calls)
      /\ input' = input /\ kept' = kept
  BY Zenon DEF ReturnFromMessage
<1>2. Top.does # "skip"
  BY <1>1
<1>3. SkipsOK(input, Front(calls), index')
  BY <1>1, <1>2, PoppedOutside, Zenon
<1>4. QED
  BY <1>1, <1>3, WholeStep, Zenon DEF WholeInv

LEMMA WholeEnters ==
    ASSUME IInv, WholeInv, input' = input, NEW tag \in NextTag, NEW call \in Activation,
           Enters(tag, call),
           Top.does = "skip" => call.does = "skip" /\ ~call.keep /\ call.from = index,
           call.does = "skip" => SkipFrame(input, call, tag.index)
    PROVE  WholeInv'
<1>1. CASE ~(recursion_depth < RecursionLimit)
  <2>1. Fail("recursion")
    BY <1>1, Zenon DEF Enters
  <2>2. QED
    BY <2>1, WholeFails, Zenon
<1>2. CASE recursion_depth < RecursionLimit
  <2>1. calls' = Append(calls, call) /\ index' = tag.index /\ kept' = kept
    BY <1>2, Zenon DEF Enters
  <2>2. SkipsOK(input, calls, index) /\ StoredOK(input, kept)
    BY Zenon DEF WholeInv
  <2>3. SkipsOK(input, Append(calls, call), tag.index)
    BY <2>2, CallsAre, SkipsPush, Zenon
  <2>4. QED
    BY <2>1, <2>2, <2>3, WholeStep, Zenon
<1>3. QED
  BY <1>1, <1>2, Zenon

LEMMA WholeReadMessage ==
    ASSUME IInv, WholeInv, NEW tag \in NextTag, ReadMessage(tag)
    PROVE  WholeInv'
<1> DEFINE payload == readBytes(input, tag.index, end)
           call == MessageCall(payload.index, end)
<1>1. input' = input /\ InMessage
  BY Zenon DEF ReadMessage, OnTag
<1>2. CASE Fail("input") \/ Fail("recursion")
  BY <1>1, <1>2, WholeFails, Zenon
<1>3. CASE ~(Fail("input") \/ Fail("recursion"))
  <2>1. calls' = Append(calls, call) /\ kept' = kept
    BY <1>3, Zenon DEF ReadMessage
  <2>2. payload.index \in Nat /\ end \in Nat
    BY TagRead, BytesInside, Zenon
  <2>3. call \in Activation /\ call.does # "skip"
    <3>1. call \in Activation
      BY <2>2, CallTypes, Zenon
    <3>2. call.does # "skip"
      BY DEF MessageCall
    <3>3. QED
      BY <3>1, <3>2
  <2>4. Top.does # "skip"
    BY <1>1 DEF InMessage
  <2> HIDE DEF call
  <2>5. SkipsOK(input, calls, index) /\ StoredOK(input, kept)
    BY Zenon DEF WholeInv
  <2>6. SkipsOK(input, Append(calls, call), index')
    BY <2>3, <2>4, <2>5, CallsAre, SkipsPush, Zenon
  <2>7. QED
    BY <1>1, <2>1, <2>5, <2>6, WholeStep, Zenon
<1>4. QED
  BY <1>2, <1>3, Zenon

LEMMA WholeScalar ==
    ASSUME IInv, WholeInv, NEW tag \in NextTag, ReadScalar(tag)
    PROVE  WholeInv'
<1>1. input' = input /\ InMessage /\ kept' = kept
      /\ Goes(readVarint(input, tag.index, end))
  BY Zenon DEF ReadScalar, OnTag
<1>2. calls' = calls
  BY <1>1, Zenon DEF Goes, Fail
<1>3. Top.does # "skip"
  BY <1>1 DEF InMessage
<1>4. SkipsOK(input, calls, index')
  BY <1>3, OutsideSkips, SkipsNone, Zenon
<1>5. QED
  BY <1>1, <1>2, <1>4, WholeStep, Zenon DEF WholeInv

LEMMA WholeSkip ==
    ASSUME IInv, WholeInv, NEW tag \in NextTag, Skip(tag)
    PROVE  WholeInv'
<1>1. PICK value : value = skipValue(input, tag.index, end, tag.wire_type)
  OBVIOUS
<1>2. /\ input' = input /\ Goes(value) /\ tag.wire_type # StartGroup
      /\ tag.wire_type # EndGroup
      /\ IF InMessage /\ value.ok THEN Keeps(index, value.index) ELSE kept' = kept
  BY <1>1, Zenon DEF Skip, FieldToSkip, OnTag
<1>3. CASE ~value.ok
  <2>1. Fail("input")
    BY <1>2, <1>3, Zenon DEF Goes
  <2>2. QED
    BY <1>2, <2>1, WholeFails, Zenon
<1>4. CASE value.ok
  <2>1. calls' = calls /\ index' = value.index
    BY <1>2, <1>4, Zenon DEF Goes
  <2>2. /\ value.index \in Nat /\ tag.index <= value.index /\ value.index <= Len(input)
        /\ Whole(input, [from |-> index, to |-> value.index])
        /\ ~InMessage => \A w \in value.index .. Len(input) :
               RawSaid(input, index, w).close = RawSaid(input, value.index, w).close
    BY <1>1, <1>2, <1>4, ValueWhole, Zenon
  <2>3. index <= value.index /\ input \in Seq(Byte)
    <3>1. tag.index \in Nat /\ index \in Nat /\ index < tag.index /\ input \in Seq(Byte)
      BY TagRead, Zenon
    <3>2. QED
      BY <2>2, <3>1
  <2>4. SkipsOK(input, calls, index) /\ StoredOK(input, kept)
    BY Zenon DEF WholeInv
  <2>5. SkipsOK(input, calls, value.index)
    <3>1. CASE Top.does = "skip"
      <4>1. ~InMessage
        BY <3>1 DEF InMessage
      <4>2. /\ Last(calls) = calls[Len(calls)] /\ Last(calls).does = "skip"
            /\ Last(calls) \in Activation
        BY <3>1, CallsAre, Zenon DEF Last
      <4>3. Len(calls) \in 1 .. Len(calls)
        BY CallsAre
      <4>4. SkipFrame(input, Last(calls), index)
        BY <2>4, <4>2, <4>3, Zenon DEF SkipsOK, Reached
      <4>5. SkipFrame(input, Last(calls), value.index)
        BY <2>2, <2>3, <4>1, <4>2, <4>4, FrameMoves, Zenon
      <4>6. QED
        BY <2>4, <4>5, CallsAre, SkipsGo, Zenon
    <3>2. CASE Top.does # "skip"
      BY <3>2, OutsideSkips, SkipsNone, Zenon
    <3>3. QED
      BY <3>1, <3>2, Zenon
  <2>6. StoredOK(input, kept')
    <3>1. CASE InMessage
      <4>1. kept' = Append(kept, [from |-> index, to |-> value.index])
        BY <1>2, <1>4, <3>1, Zenon DEF Keeps
      <4>2. QED
        BY <2>2, <2>4, <4>1, CallsAre, StoredMore, Zenon
    <3>2. CASE ~InMessage
      BY <1>2, <2>4, <3>2, Zenon
    <3>3. QED
      BY <3>1, <3>2, Zenon
  <2>7. QED
    BY <1>2, <2>1, <2>5, <2>6, WholeStep, Zenon
<1>5. QED
  BY <1>3, <1>4, Zenon

LEMMA WholeSkippedGroup ==
    ASSUME IInv, WholeInv, NEW tag \in NextTag, SkippedGroup(tag)
    PROVE  WholeInv'
<1>1. /\ input' = input /\ tag.wire_type = EndGroup /\ Top.does = "skip"
      /\ tag.number = Top.number /\ Leaves(tag)
      /\ IF Top.keep THEN Keeps(Top.from, tag.index) ELSE kept' = kept
  BY Zenon DEF SkippedGroup, AtEndTag, OnTag
<1>2. calls' = Front(calls) /\ index' = tag.index
  BY <1>1, Zenon DEF Leaves
<1>3. SkipsOK(input, calls, index) /\ StoredOK(input, kept)
  BY Zenon DEF WholeInv
<1>4. /\ calls \in Seq(Activation) /\ Len(calls) \in Nat \ {0} /\ Top \in Activation
      /\ Top = Last(calls) /\ kept \in Seq(Slice) /\ input \in Seq(Byte) /\ index \in Nat
  BY CallsAre, Zenon
<1>5. Top = calls[Len(calls)] /\ Len(calls) \in 1 .. Len(calls)
  <2>1. Top = calls[Len(calls)]
    BY <1>4, Zenon DEF Last
  <2>2. QED
    BY <1>4, <2>1
<1>6. SkipFrame(input, Top, index)
  BY <1>1, <1>3, <1>5, Zenon DEF SkipsOK, Reached
<1>7. ~InMessage /\ Top.does # "message"
  BY <1>1 DEF InMessage
<1>8. Len(calls) > 1
  BY <1>7, TopOK, Zenon
<1>9. /\ Whole(input, [from |-> Top.from, to |-> tag.index])
      /\ ~Top.keep => \A w \in tag.index .. Len(input) :
             RawSaid(input, Top.from, w).close = RawSaid(input, tag.index, w).close
  BY <1>1, <1>4, <1>6, <1>7, GroupWhole, Zenon
<1>10. SkipsOK(input, Front(calls), tag.index)
  <2>1. ASSUME Last(Front(calls)).does = "skip"
        PROVE  SkipFrame(input, Last(Front(calls)), tag.index)
    <3> DEFINE n == Len(calls) - 1
    <3>1. /\ n \in 1 .. Len(calls) /\ n \in 1 .. n /\ n < Len(calls)
          /\ n + 1 = Len(calls) /\ n # Len(calls)
      BY <1>4, <1>8
    <3>2. Last(Front(calls)) = calls[n]
      <4>1. /\ Len(Front(calls)) = n /\ n \in 1 .. n
            /\ \A j \in 1 .. Len(Front(calls)) : Front(calls)[j] = calls[j]
        <5>1. /\ Len(Front(calls)) = Len(calls) - 1
              /\ \A j \in 1 .. Len(Front(calls)) : Front(calls)[j] = calls[j]
          BY <1>4, <1>8, FrontOf, Zenon
        <5>2. QED
          BY <3>1, <5>1, Zenon
      <4>2. Last(Front(calls)) = Front(calls)[n]
        BY <4>1, Zenon DEF Last
      <4>3. QED
        BY <4>1, <4>2, Zenon
    <3> HIDE DEF n
    <3>3. calls[n].does = "skip"
      BY <2>1, <3>2, Zenon
    <3>4. ~Top.keep
      BY <1>3, <1>5, <3>1, <3>3, Zenon DEF SkipsOK
    <3>5. SkipFrame(input, calls[n], Top.from)
      <4>1. SkipFrame(input, calls[n], Reached(calls, index, n))
        BY <1>3, <3>1, <3>3, Zenon DEF SkipsOK
      <4>2. Reached(calls, index, n) = Top.from
        BY <1>5, <3>1, Zenon DEF Reached
      <4>3. QED
        BY <4>1, <4>2, Zenon
    <3>6. Top.from <= tag.index /\ tag.index \in Nat /\ tag.index <= Len(input)
      <4>1. /\ Top.from \in Nat /\ Top.from <= index /\ index \in Nat /\ index < tag.index
            /\ tag.index \in Nat /\ tag.index <= Len(input)
        BY TopOK, TagRead, Zenon
      <4>2. QED
        BY <4>1
    <3>7. calls[n] \in Activation
      BY <1>4, <3>1, ElementOfSeq, Zenon
    <3>8. SkipFrame(input, calls[n], tag.index)
      BY <1>4, <1>9, <3>4, <3>5, <3>6, <3>7, FrameMoves, Zenon
    <3>9. QED
      BY <3>2, <3>8, Zenon
  <2>2. QED
    BY <1>3, <1>4, <1>8, <2>1, SkipsPop, Zenon
<1>11. StoredOK(input, kept')
  <2>1. CASE Top.keep
    <3>1. kept' = Append(kept, [from |-> Top.from, to |-> tag.index])
      BY <1>1, <2>1, Zenon DEF Keeps
    <3>2. QED
      BY <1>3, <1>4, <1>9, <3>1, StoredMore, Zenon
  <2>2. CASE ~Top.keep
    BY <1>1, <1>3, <2>2, Zenon
  <2>3. QED
    BY <2>1, <2>2, Zenon
<1>12. QED
  BY <1>1, <1>2, <1>10, <1>11, WholeStep, Zenon

LEMMA WholeGroupBytes ==
    ASSUME IInv, WholeInv, NEW tag \in NextTag, GroupBytesRead(tag)
    PROVE  WholeInv'
<1> DEFINE call == MessageCall(tag.index, end)
<1>1. /\ input' = input /\ Top.does = "bytes" /\ kept' = kept
      /\ calls' = Append(Front(calls), call)
  BY Zenon DEF GroupBytesRead, AtEndTag, OnTag
<1>2. Top.does # "skip" /\ Top.does # "message"
  BY <1>1
<1>3. Len(calls) > 1
  BY <1>2, TopOK, Zenon
<1>4. /\ SkipsOK(input, Front(calls), index)
      /\ \A j \in 1 .. Len(Front(calls)) : Front(calls)[j].does # "skip"
  BY <1>2, <1>3, PoppedOutside, Zenon
<1>5. Front(calls) \in Seq(Activation) /\ Len(Front(calls)) \in Nat \ {0}
  BY <1>3, CallsAre, FrontOf, Zenon
<1>6. call \in Activation /\ call.does # "skip"
  <2>1. call \in Activation
    BY TagRead, CallTypes, Zenon
  <2>2. call.does # "skip"
    BY DEF MessageCall
  <2>3. QED
    BY <2>1, <2>2
<1> HIDE DEF call
<1>7. Last(Front(calls)).does # "skip" /\ Len(Front(calls)) # 0
  <2>1. Len(Front(calls)) \in 1 .. Len(Front(calls)) /\ Len(Front(calls)) # 0
    BY <1>5
  <2>2. QED
    BY <1>4, <2>1, Zenon DEF Last
<1>8. SkipsOK(input, Append(Front(calls), call), index')
  BY <1>4, <1>5, <1>6, <1>7, SkipsPush, Zenon
<1>9. QED
  BY <1>1, <1>8, WholeStep, Zenon DEF WholeInv

LEMMA WholeTag ==
    ASSUME IInv, WholeInv, NEW tag \in NextTag,
           \/ WrongWireType(tag) \/ ReadScalar(tag) \/ ReadMessage(tag) \/ ReadGroup(tag)
           \/ Skip(tag) \/ OutOfMemory(tag) \/ SkipGroup(tag)
           \/ SkippedGroup(tag) \/ OutOfMemoryForGroup(tag)
           \/ GroupDecoded(tag) \/ GroupBytesRead(tag)
           \/ WrongEnd(tag)
    PROVE  WholeInv'
<1>1. CASE WrongWireType(tag) \/ WrongEnd(tag) \/ OutOfMemory(tag) \/ OutOfMemoryForGroup(tag)
  <2>1. input' = input /\ (Fail("input") \/ Fail("memory"))
    BY <1>1, Zenon DEF WrongWireType, WrongEnd, OutOfMemory, OutOfMemoryForGroup,
                       AtEndTag, FieldToSkip, OnTag
  <2>2. QED
    BY <2>1, WholeFails, Zenon
<1>2. CASE ReadScalar(tag)
  BY <1>2, WholeScalar, Zenon
<1>3. CASE ReadMessage(tag)
  BY <1>3, WholeReadMessage, Zenon
<1>4. CASE ReadGroup(tag)
  <2> DEFINE does == IF decoder = "dynamic" THEN "group" ELSE "bytes"
             call == GroupCall(does, tag.number, tag.index, FALSE)
  <2>1. input' = input /\ Enters(tag, call) /\ InMessage
    BY <1>4, Zenon DEF ReadGroup, OnTag
  <2>2. does \in {"group", "bytes", "skip"} /\ does # "skip"
    OBVIOUS
  <2> HIDE DEF does
  <2>3. call \in Activation
    BY <2>2, TagRead, CallTypes, Zenon
  <2>4. call.does # "skip"
    BY <2>2, Zenon DEF GroupCall
  <2>5. Top.does # "skip"
    BY <2>1 DEF InMessage
  <2> HIDE DEF call
  <2>6. QED
    BY <2>1, <2>3, <2>4, <2>5, WholeEnters, Zenon
<1>5. CASE Skip(tag)
  BY <1>5, WholeSkip, Zenon
<1>6. CASE SkipGroup(tag)
  <2> DEFINE call == GroupCall("skip", tag.number, index, InMessage)
  <2>1. input' = input /\ Enters(tag, call) /\ tag.wire_type = StartGroup
    BY <1>6, Zenon DEF SkipGroup, FieldToSkip, OnTag
  <2>2. InMessage \in BOOLEAN /\ "skip" \in {"group", "bytes", "skip"}
    BY DEF InMessage
  <2>3. call \in Activation
    BY <2>2, TagRead, CallTypes, Zenon
  <2>4. /\ call.does = "skip" /\ call.from = index /\ call.number = tag.number
        /\ call.keep = InMessage
    BY DEF GroupCall
  <2> HIDE DEF call
  <2>5. SkipFrame(input, call, tag.index)
    BY <2>1, <2>4, NewSkip, Zenon
  <2>6. Top.does = "skip" => ~InMessage
    BY DEF InMessage
  <2>7. Top.does = "skip" => call.does = "skip" /\ ~call.keep /\ call.from = index
    BY <2>4, <2>6, Zenon
  <2>8. QED
    BY <2>1, <2>3, <2>5, <2>7, WholeEnters, Zenon
<1>7. CASE SkippedGroup(tag)
  BY <1>7, WholeSkippedGroup, Zenon
<1>8. CASE GroupDecoded(tag)
  <2>1. /\ input' = input /\ Top.does = "group" /\ kept' = kept /\ calls' = Front(calls)
    BY <1>8, Zenon DEF GroupDecoded, AtEndTag, OnTag, Leaves
  <2>2. Top.does # "skip" /\ Top.does # "message"
    BY <2>1
  <2>3. Len(calls) > 1
    BY <2>2, TopOK, Zenon
  <2>4. SkipsOK(input, Front(calls), index')
    BY <2>2, <2>3, PoppedOutside, Zenon
  <2>5. QED
    BY <2>1, <2>4, WholeStep, Zenon DEF WholeInv
<1>9. CASE GroupBytesRead(tag)
  BY <1>9, WholeGroupBytes, Zenon
<1>10. QED
  BY <1>1, <1>2, <1>3, <1>4, <1>5, <1>6, <1>7, <1>8, <1>9, Zenon

LEMMA WholeInit == Init => WholeInv
<1> SUFFICES ASSUME Init PROVE WholeInv
  OBVIOUS
<1>1. calls = <<MessageCall(0, 0)>> /\ kept = <<>>
  BY Zenon DEF Init
<1>2. \A j \in 1 .. Len(calls) : calls[j].does # "skip"
  BY <1>1 DEF MessageCall
<1>3. SkipsOK(input, calls, index)
  BY <1>2, SkipsNone, Zenon
<1>4. StoredOK(input, kept)
  BY <1>1 DEF StoredOK
<1>5. QED
  BY <1>3, <1>4, Zenon DEF WholeInv

LEMMA WholeNext == IInv /\ WholeInv /\ [Next]_vars => WholeInv'
<1> SUFFICES ASSUME IInv, WholeInv, [Next]_vars PROVE WholeInv'
  OBVIOUS
<1>1. CASE ReturnFromMessage
  BY <1>1, WholeReturn, Zenon
<1>2. CASE Complete
  BY <1>2, WholeStays, Zenon DEF Complete
<1>3. CASE Broken
  BY <1>3, WholeFails, Zenon DEF Broken
<1>4. CASE UNCHANGED vars
  BY <1>4, WholeStays, Zenon DEF vars
<1>5. CASE Next /\ ~(ReturnFromMessage \/ Complete \/ Broken)
  <2>1. PICK tag \in NextTag :
            \/ WrongWireType(tag) \/ ReadScalar(tag) \/ ReadMessage(tag) \/ ReadGroup(tag)
            \/ Skip(tag) \/ OutOfMemory(tag) \/ SkipGroup(tag)
            \/ SkippedGroup(tag) \/ OutOfMemoryForGroup(tag)
            \/ GroupDecoded(tag) \/ GroupBytesRead(tag)
            \/ WrongEnd(tag)
    BY <1>5, Zenon DEF Next
  <2>2. QED
    BY <2>1, WholeTag, Zenon
<1>6. QED
  BY <1>1, <1>2, <1>3, <1>4, <1>5, Zenon

LEMMA WholeImplies == WholeInv => StoredFieldsWhole
<1> SUFFICES ASSUME WholeInv, NEW i \in DOMAIN kept
             PROVE  TagTooLong(kept[i].from, kept[i].to)
                    \/ ValidRawField(kept[i].from, kept[i].to)
  BY Zenon DEF StoredFieldsWhole
<1>1. Whole(input, kept[i])
  BY Zenon DEF WholeInv, StoredOK
<1>2. QED
  BY <1>1, Zenon DEF Whole, TagTooLong, ValidRawField, RawSaid, Said

\* What decodeStream and the generated loops store of a field the descriptor
\* does not have is that field, as validateRawField will find it: skipGroup
\* ends where the group does, and the bytes begin with the tag.
THEOREM StoredWhole == Spec => []StoredFieldsWhole
<1>1. Spec => []WholeInv
  BY Invariance, WholeInit, WholeNext, PTL DEF Spec
<1>2. QED
  BY <1>1, WholeImplies, PTL

-----------------------------------------------------------------------------
(* A group, read field by field or skipped, ends with the same tag *)

LEMMA Downwards ==
    ASSUME NEW T, NEW n \in Nat,
           \A k \in 0 .. n : (\A i \in 0 .. n : k < i => i \in T) => k \in T
    PROVE  \A k \in 0 .. n : k \in T
<1> DEFINE B == {m \in Nat : m <= n /\ n - m \notin T}
<1>1. CASE B = {}
  <2> SUFFICES ASSUME NEW k \in 0 .. n PROVE k \in T
    OBVIOUS
  <2>1. n - k \in Nat /\ n - k <= n /\ n - (n - k) = k
    OBVIOUS
  <2>2. n - k \notin B
    BY <1>1, Zenon
  <2>3. n - (n - k) \in T
    BY <2>1, <2>2, Zenon
  <2>4. QED
    BY <2>1, <2>3, Zenon
<1>2. CASE B # {}
  <2>1. B \subseteq Nat
    OBVIOUS
  <2>2. PICK m \in B : \A j \in B : ~(j < m)
    BY <1>2, <2>1, LeastPosition, Zenon
  <2>3. PICK k : k = n - m
    OBVIOUS
  <2>4. m \in Nat /\ m <= n /\ k \in 0 .. n /\ k \notin T
    BY <2>2, <2>3
  <2>5. ASSUME NEW i \in 0 .. n, k < i PROVE i \in T
    <3>1. n - i \in Nat /\ n - i <= n /\ n - i < m /\ n - (n - i) = i
      BY <2>3, <2>4, <2>5
    <3>2. n - i \notin B
      BY <2>2, <3>1, Zenon
    <3>3. n - (n - i) \in T
      BY <3>1, <3>2, Zenon
    <3>4. QED
      BY <3>1, <3>3, Zenon
  <2>6. QED
    BY <2>4, <2>5, Zenon
<1>3. QED
  BY <1>1, <1>2, Zenon

\* The end tag that fields lead to, declared or not.
SameClose(s, i, w, typed) ==
    Said(s, i, w, typed).close # None =>
        RawSaid(s, i, w).close = Said(s, i, w, typed).close

LEMMA SameCloseStep ==
    ASSUME NEW s \in Seq(Byte), NEW w \in 0 .. Len(s), NEW i \in 0 .. w,
           NEW typed \in BOOLEAN,
           \A j \in 0 .. w, t \in BOOLEAN : i < j => SameClose(s, j, w, t)
    PROVE  SameClose(s, i, w, typed)
<1> SUFFICES ASSUME Said(s, i, w, typed).close # None
             PROVE  RawSaid(s, i, w).close = Said(s, i, w, typed).close
  BY Zenon DEF SameClose
<1>1. /\ i \in Nat /\ w \in Nat /\ i <= w /\ w <= Len(s) /\ Place(s, i, w)
      /\ i \in 0 .. Len(s)
  BY DEF Place
<1>2. i # w
  BY EndMeans, Zenon
<1>3. PICK tag, raw : tag = readTag(s, i, w, MaxTag) /\ raw = FALSE
  OBVIOUS
<1>4. raw \in BOOLEAN /\ ~Wrong(tag, raw) /\ NoField.close = None
  BY <1>3 DEF Wrong, NoField
<1>5. tag.ok /\ (tag.wire_type = EndGroup \/ ~Wrong(tag, typed))
  <2>1. ~(~tag.ok \/ (tag.wire_type # EndGroup /\ Wrong(tag, typed)))
    BY <1>1, <1>2, <1>3, <1>4, NoneMeans, Zenon
  <2>2. QED
    BY <2>1, Zenon
<1>6. /\ tag.index \in Nat /\ i < tag.index /\ tag.index <= w /\ tag.wire_type \in WireType
      /\ tag.index \in 0 .. w
  <2>1. tag.index \in Nat /\ i < tag.index /\ tag.index <= w /\ tag.wire_type \in WireType
    BY <1>1, <1>3, <1>5, TagInside, Zenon
  <2>2. QED
    BY <2>1
<1>7. CASE tag.wire_type = EndGroup
  <2>1. Closes(s, i, w, typed) /\ Closes(s, i, w, raw)
    BY <1>1, <1>2, <1>3, <1>4, <1>5, <1>7, CloseMeans, Zenon
  <2>2. QED
    BY <1>3, <2>1, Zenon DEF Closes, RawSaid
<1>8. ASSUME NEW to \in Nat, i < to, to <= w, NEW x, NEW y,
             Continues(s, i, w, typed, to, x), Continues(s, i, w, raw, to, y)
      PROVE  RawSaid(s, i, w).close = Said(s, i, w, typed).close
  <2>1. to \in 0 .. w
    BY <1>1, <1>8
  <2>2. SameClose(s, to, w, typed)
    BY <1>8, <2>1, Zenon
  <2>3. /\ Said(s, i, w, typed).close = Said(s, to, w, typed).close
        /\ RawSaid(s, i, w).close = RawSaid(s, to, w).close
    BY <1>3, <1>8, Zenon DEF Continues, RawSaid
  <2>4. QED
    BY <2>2, <2>3, Zenon DEF SameClose
<1>9. CASE tag.wire_type = StartGroup
  <2>1. ~Wrong(tag, typed)
    BY <1>5, <1>9 DEF StartGroup, EndGroup
  <2>2. PICK inner, group, closing, none, rgroup, rclosing :
            /\ inner = (typed /\ tag.number \in GroupField)
            /\ group = Said(s, tag.index, w, inner)
            /\ closing = readTag(s, group.close, w, MaxTag)
            /\ none = (raw /\ tag.number \in GroupField)
            /\ rgroup = Said(s, tag.index, w, none)
            /\ rclosing = readTag(s, rgroup.close, w, MaxTag)
    OBVIOUS
  <2>3. inner \in BOOLEAN /\ none = FALSE
    BY <1>3, <2>2
  <2>4. /\ group.close # None /\ closing.number = tag.number =>
                Continues(s, i, w, typed, closing.index,
                          Stores(i, typed, closing.index, inner, group.unknown))
        /\ ~(group.close # None /\ closing.number = tag.number) =>
                Said(s, i, w, typed) = NoField
        /\ group.close # None =>
                /\ closing.index \in Nat /\ tag.index <= group.close
                /\ group.close < closing.index /\ closing.index <= w
                /\ closing.ok /\ closing.wire_type = EndGroup
    BY <1>1, <1>2, <1>3, <1>5, <1>9, <2>1, <2>2, GroupMeans
  <2>5. group.close # None /\ closing.number = tag.number
    BY <1>4, <2>4, Zenon
  <2>6. rgroup.close = group.close
    <3>1. SameClose(s, tag.index, w, inner)
      BY <1>6, <2>3, Zenon
    <3>2. QED
      BY <2>2, <2>3, <2>5, <3>1, Zenon DEF SameClose, RawSaid
  <2>7. rclosing = closing
    BY <2>2, <2>6, Zenon
  <2>8. /\ rgroup.close # None /\ rclosing.number = tag.number =>
                Continues(s, i, w, raw, rclosing.index,
                          Stores(i, raw, rclosing.index, none, rgroup.unknown))
    BY <1>1, <1>2, <1>3, <1>4, <1>5, <1>9, <2>2, GroupMeans
  <2>9. Continues(s, i, w, raw, closing.index,
                  Stores(i, raw, closing.index, none, rgroup.unknown))
    BY <2>5, <2>6, <2>7, <2>8, Zenon
  <2>10. closing.index \in Nat /\ i < closing.index /\ closing.index <= w
    <3>1. Said(s, tag.index, w, inner) \in Result
      <4>1. Place(s, tag.index, w)
        BY <1>1, <1>6 DEF Place
      <4>2. QED
        BY <2>3, <4>1, Formed, Zenon
    <3>2. group.close \in Int
      BY <2>2, <3>1 DEF Result
    <3>3. QED
      BY <1>1, <1>6, <2>4, <2>5, <3>2
  <2>11. QED
    BY <1>8, <2>4, <2>5, <2>9, <2>10, Zenon
<1>10. CASE tag.wire_type # StartGroup /\ tag.wire_type # EndGroup
  <2>1. ~Wrong(tag, typed)
    BY <1>5, <1>10, Zenon
  <2>2. PICK value, scalar : /\ value = skipValue(s, tag.index, w, tag.wire_type)
                             /\ scalar = (raw /\ tag.number \in ScalarField)
    OBVIOUS
  <2>3. ~(raw /\ tag.number \in MessageField)
    BY <1>3
  <2>4. /\ value.ok => Continues(s, i, w, raw, value.index,
                                 Stores(i, raw, value.index, scalar, {}))
        /\ value.index \in Nat /\ i < value.index /\ value.index <= w
    BY <1>1, <1>2, <1>3, <1>4, <1>5, <1>10, <2>2, <2>3, ValueMeans
  <2>5. CASE ~(typed /\ tag.number \in MessageField)
    <3>1. PICK known : known = (typed /\ tag.number \in ScalarField)
      OBVIOUS
    <3>2. /\ value.ok => Continues(s, i, w, typed, value.index,
                                   Stores(i, typed, value.index, known, {}))
          /\ ~value.ok => Said(s, i, w, typed) = NoField
      BY <1>1, <1>2, <1>3, <1>5, <1>10, <2>1, <2>2, <2>5, <3>1, ValueMeans
    <3>3. value.ok
      BY <1>4, <3>2, Zenon
    <3>4. QED
      BY <1>8, <2>4, <3>2, <3>3, Zenon
  <2>6. CASE typed /\ tag.number \in MessageField
    <3>1. PICK known, payload, message :
              /\ known = (typed /\ tag.number \in MessageField)
              /\ payload = readBytes(s, tag.index, w)
              /\ message = Said(s, payload.start, payload.index, known)
      OBVIOUS
    <3>2. known /\ tag.wire_type = LengthDelimited
      BY <2>1, <2>6, <3>1, Zenon DEF Wrong
    <3>3. /\ payload.ok /\ message.done =>
                Continues(s, i, w, typed, payload.index, message.unknown)
          /\ ~(payload.ok /\ message.done) => Said(s, i, w, typed) = NoField
      BY <1>1, <1>2, <1>3, <1>5, <2>1, <3>1, <3>2, MessageMeans
    <3>4. payload.ok /\ message.done
      BY <1>4, <3>3, Zenon
    <3>5. value.ok = payload.ok /\ value.index = payload.index
      <4>1. value = [ok |-> payload.ok, index |-> payload.index]
        BY <2>2, <3>1, <3>2
           DEF skipValue, LengthDelimited, Varint, Fixed64, Fixed32
      <4>2. QED
        BY <4>1
    <3>6. QED
      BY <1>8, <2>4, <3>3, <3>4, <3>5, Zenon
  <2>7. QED
    BY <2>5, <2>6, Zenon
<1>11. QED
  BY <1>7, <1>9, <1>10, Zenon

LEMMA TypedClosesSame ==
    ASSUME NEW s \in Seq(Byte), NEW w \in 0 .. Len(s), NEW i \in 0 .. w,
           NEW typed \in BOOLEAN
    PROVE  SameClose(s, i, w, typed)
<1> DEFINE T == {k \in 0 .. w : \A t \in BOOLEAN : SameClose(s, k, w, t)}
<1>1. w \in Nat
  OBVIOUS
<1>2. ASSUME NEW k \in 0 .. w, \A j \in 0 .. w : k < j => j \in T
      PROVE  k \in T
  <2>1. \A j \in 0 .. w, t \in BOOLEAN : k < j => SameClose(s, j, w, t)
    BY <1>2, Zenon
  <2>2. \A t \in BOOLEAN : SameClose(s, k, w, t)
    BY <2>1, SameCloseStep, Zenon
  <2>3. QED
    BY <2>2, Zenon
<1> HIDE DEF T
<1>3. \A k \in 0 .. w : k \in T
  BY <1>1, <1>2, Downwards, Zenon
<1>4. QED
  BY <1>3, Zenon DEF T

-----------------------------------------------------------------------------
(* What a decode in progress comes to *)

\* How far a decode is: the slice that is left, and what is stored already.
Reading == [index : Nat, end : Nat, kept : SUBSET Slice]

\* The activations that store the fields the descriptor does not have.
Loop(c) == c.does \in {"message", "group"}

\* The message a group's slice is read for may have more bytes than the slice:
\* the end tag and what is behind it.
Wides(s, gen, e) == IF gen THEN e .. Len(s) ELSE {e}

\* A message ends with its slice, or in the end tag its slice was cut off in.
Fills(gen, c, p, q, w, g, closing) ==
    /\ q.index = c.index /\ q.end = c.end
    /\ q.kept = p.kept \cup g.unknown
    /\ \/ w = p.end /\ g.done = TRUE
       \/ gen /\ g.close # None /\ g.close <= p.end /\ p.end < closing.index

\* What an activation in a group stores of it when it ends.
GroupStores(s, c, g, j, w) ==
    IF Loop(c) THEN g.unknown
    ELSE IF c.does = "bytes" THEN Said(s, c.from, w, TRUE).unknown
    ELSE IF c.keep THEN {[from |-> c.from, to |-> j]} ELSE {}

\* The others end with the end tag of their group.
Closed(s, c, p, q, w, g, closing) ==
    /\ g.close # None /\ closing.number = c.number
    /\ c.does = "bytes" => Said(s, c.from, w, TRUE).close = g.close
    /\ q.index = closing.index /\ closing.index <= p.end /\ q.end = p.end
    /\ q.kept = p.kept \cup GroupStores(s, c, g, closing.index, w)

LeadsBy(s, gen, c, p, q, w, g, closing) ==
    IF c.does = "message" THEN Fills(gen, c, p, q, w, g, closing)
    ELSE Closed(s, c, p, q, w, g, closing)

LeadsAt(s, gen, c, p, q, w) ==
    LET g == Said(s, p.index, w, Loop(c))
    IN  LeadsBy(s, gen, c, p, q, w, g, readTag(s, g.close, w, MaxTag))

\* The activation c, at p, is one the grammar lets return at q.
Leads(s, gen, c, p, q) == \E w \in Wides(s, gen, p.end) : LeadsAt(s, gen, c, p, q, w)

\* The grammar lets all the activations return, with R stored in the end.
Ends(s, gen, cs, p, R) ==
    \E path \in [0 .. Len(cs) -> Reading] :
        /\ path[Len(cs)] = p /\ path[0].kept = R
        /\ \A k \in 1 .. Len(cs) : Leads(s, gen, cs[k], path[k], path[k - 1])

\* The calls cs are those of ds and, on top, c.
Joined(cs, ds, c) ==
    /\ Len(ds) \in Nat /\ Len(cs) = Len(ds) + 1
    /\ cs[Len(cs)] = c
    /\ \A j \in 1 .. Len(ds) : ds[j] = cs[j]

LEMMA EndsNone ==
    ASSUME NEW s, NEW gen, NEW ds, Len(ds) = 0, NEW p \in Reading, NEW R
    PROVE  Ends(s, gen, ds, p, R) <=> p.kept = R
<1>1. ASSUME Ends(s, gen, ds, p, R) PROVE p.kept = R
  BY <1>1, Zenon DEF Ends
<1>2. ASSUME p.kept = R PROVE Ends(s, gen, ds, p, R)
  <2>1. PICK path : path = [k \in 0 .. 0 |-> p]
    OBVIOUS
  <2>2. path \in [0 .. Len(ds) -> Reading] /\ path[0] = p
    BY <2>1
  <2>3. 1 .. Len(ds) = {}
    OBVIOUS
  <2>4. QED
    BY <1>2, <2>2, <2>3, Zenon DEF Ends
<1>3. QED
  BY <1>1, <1>2

\* The activation c returns, and the others do.
Returns(s, gen, ds, c, p, R) ==
    \E q \in Reading : Leads(s, gen, c, p, q) /\ Ends(s, gen, ds, q, R)

LEMMA EndsAhead ==
    ASSUME NEW s, NEW gen, NEW cs, NEW ds, NEW c, Joined(cs, ds, c),
           NEW p \in Reading, NEW R, Ends(s, gen, cs, p, R)
    PROVE  Returns(s, gen, ds, c, p, R)
<1>1. PICK n : n = Len(ds)
  OBVIOUS
<1>2. n \in Nat /\ Len(cs) = n + 1 /\ cs[n + 1] = c /\ \A j \in 1 .. n : ds[j] = cs[j]
  BY <1>1 DEF Joined
<1>3. PICK path \in [0 .. n + 1 -> Reading] :
          /\ path[n + 1] = p /\ path[0].kept = R
          /\ \A k \in 1 .. n + 1 : Leads(s, gen, cs[k], path[k], path[k - 1])
  BY <1>2, Zenon DEF Ends
<1>4. PICK short : short = [k \in 0 .. n |-> path[k]]
  OBVIOUS
<1>5. short \in [0 .. n -> Reading] /\ short[0] = path[0] /\ short[n] = path[n]
  BY <1>2, <1>4
<1>6. ASSUME NEW k \in 1 .. n PROVE Leads(s, gen, ds[k], short[k], short[k - 1])
  <2>1. short[k] = path[k] /\ short[k - 1] = path[k - 1] /\ k \in 1 .. n + 1
    BY <1>2, <1>4
  <2>2. QED
    BY <1>2, <1>3, <2>1, Zenon
<1>7. Ends(s, gen, ds, path[n], R)
  BY <1>1, <1>3, <1>5, <1>6, Zenon DEF Ends
<1>8. path[n] \in Reading /\ n + 1 \in 1 .. n + 1 /\ (n + 1) - 1 = n
  BY <1>2, <1>3
<1>9. Leads(s, gen, c, p, path[n])
  BY <1>2, <1>3, <1>8, Zenon
<1>10. QED
  BY <1>7, <1>8, <1>9, Zenon DEF Returns

LEMMA EndsBehind ==
    ASSUME NEW s, NEW gen, NEW cs, NEW ds, NEW c, Joined(cs, ds, c),
           NEW p \in Reading, NEW R, NEW q \in Reading,
           Leads(s, gen, c, p, q), Ends(s, gen, ds, q, R)
    PROVE  Ends(s, gen, cs, p, R)
<1>1. PICK n : n = Len(ds)
  OBVIOUS
<1>2. n \in Nat /\ Len(cs) = n + 1 /\ cs[n + 1] = c /\ \A j \in 1 .. n : ds[j] = cs[j]
  BY <1>1 DEF Joined
<1>3. PICK path \in [0 .. n -> Reading] :
          /\ path[n] = q /\ path[0].kept = R
          /\ \A k \in 1 .. n : Leads(s, gen, ds[k], path[k], path[k - 1])
  BY <1>1, Zenon DEF Ends
<1>4. PICK long : long = [k \in 0 .. n + 1 |-> IF k = n + 1 THEN p ELSE path[k]]
  OBVIOUS
<1>5. long \in [0 .. n + 1 -> Reading] /\ long[0] = path[0] /\ long[n + 1] = p
      /\ long[n] = q
  BY <1>2, <1>3, <1>4
<1>6. ASSUME NEW k \in 1 .. n + 1 PROVE Leads(s, gen, cs[k], long[k], long[k - 1])
  <2>1. CASE k = n + 1
    <3>1. k - 1 = n
      BY <1>2, <2>1
    <3>2. QED
      BY <1>2, <1>5, <2>1, <3>1, Zenon
  <2>2. CASE k # n + 1
    <3>1. k \in 1 .. n /\ long[k] = path[k] /\ long[k - 1] = path[k - 1]
      BY <1>2, <1>4, <2>2
    <3>2. QED
      BY <1>2, <1>3, <3>1, Zenon
  <2>3. QED
    BY <2>1, <2>2
<1>7. QED
  BY <1>2, <1>3, <1>5, <1>6, Zenon DEF Ends

LEMMA JoinedAppend ==
    ASSUME NEW cs \in Seq(Activation), NEW c \in Activation
    PROVE  /\ Joined(Append(cs, c), cs, c)
           /\ Append(cs, c) \in Seq(Activation) /\ Last(Append(cs, c)) = c
<1>1. PICK n : n = Len(cs)
  OBVIOUS
<1>2. n \in Nat
  BY <1>1
<1>3. /\ Append(cs, c) \in Seq(Activation) /\ Len(Append(cs, c)) = n + 1
      /\ Append(cs, c)[n + 1] = c /\ \A j \in 1 .. n : Append(cs, c)[j] = cs[j]
  BY <1>1, <1>2, AppendProperties
<1>4. QED
  BY <1>1, <1>2, <1>3, Zenon DEF Joined, Last

LEMMA JoinedFront ==
    ASSUME NEW cs \in Seq(Activation), Len(cs) # 0
    PROVE  /\ Front(cs) \in Seq(Activation)
           /\ Joined(cs, Front(cs), Last(cs))
<1>1. PICK n : n = Len(cs)
  OBVIOUS
<1>2. n \in Nat /\ n # 0 /\ n - 1 \in Nat
  BY <1>1
<1>3. Front(cs) = [k \in 1 .. n - 1 |-> cs[k]]
  BY <1>1, <1>2 DEF Front
<1>4. \A k \in 1 .. n - 1 : cs[k] \in Activation
  BY <1>1, <1>2
<1>5. Front(cs) \in Seq(Activation) /\ Len(Front(cs)) = n - 1
      /\ \A k \in 1 .. n - 1 : Front(cs)[k] = cs[k]
  BY <1>2, <1>3, <1>4
<1>6. Len(Front(cs)) \in Nat /\ Len(cs) = Len(Front(cs)) + 1
  BY <1>1, <1>2, <1>5
<1>7. QED
  BY <1>1, <1>5, <1>6, Zenon DEF Joined, Last

\* What the running activation has before it, a step keeps.
LEMMA MoveEnds ==
    ASSUME NEW s, NEW gen, NEW cs \in Seq(Activation), Len(cs) # 0,
           NEW p \in Reading, NEW pp \in Reading, NEW R,
           \A q \in Reading : Leads(s, gen, Last(cs), p, q) => Leads(s, gen, Last(cs), pp, q),
           Ends(s, gen, cs, p, R)
    PROVE  Ends(s, gen, cs, pp, R)
<1>1. Joined(cs, Front(cs), Last(cs))
  BY JoinedFront, Zenon
<1>2. PICK q \in Reading : Leads(s, gen, Last(cs), p, q) /\ Ends(s, gen, Front(cs), q, R)
  BY <1>1, EndsAhead, Zenon DEF Returns
<1>3. QED
  BY <1>1, <1>2, EndsBehind, Zenon

LEMMA PushEnds ==
    ASSUME NEW s, NEW gen, NEW cs \in Seq(Activation), Len(cs) # 0, NEW c \in Activation,
           NEW p \in Reading, NEW pp \in Reading, NEW R,
           \A q \in Reading : Leads(s, gen, Last(cs), p, q) =>
               \E m \in Reading : Leads(s, gen, c, pp, m) /\ Leads(s, gen, Last(cs), m, q),
           Ends(s, gen, cs, p, R)
    PROVE  Ends(s, gen, Append(cs, c), pp, R)
<1>1. Joined(cs, Front(cs), Last(cs)) /\ Joined(Append(cs, c), cs, c)
  BY JoinedFront, JoinedAppend, Zenon
<1>2. PICK q \in Reading : Leads(s, gen, Last(cs), p, q) /\ Ends(s, gen, Front(cs), q, R)
  BY <1>1, EndsAhead, Zenon DEF Returns
<1>3. PICK m \in Reading : Leads(s, gen, c, pp, m) /\ Leads(s, gen, Last(cs), m, q)
  BY <1>2, Zenon
<1>4. Ends(s, gen, cs, m, R)
  BY <1>1, <1>2, <1>3, EndsBehind, Zenon
<1>5. QED
  BY <1>1, <1>3, <1>4, EndsBehind, Zenon

LEMMA PushBack ==
    ASSUME NEW s, NEW gen, NEW cs \in Seq(Activation), Len(cs) # 0, NEW c \in Activation,
           NEW p \in Reading, NEW pp \in Reading, NEW R,
           \A m, q \in Reading :
               Leads(s, gen, c, pp, m) /\ Leads(s, gen, Last(cs), m, q) =>
                   Leads(s, gen, Last(cs), p, q),
           Ends(s, gen, Append(cs, c), pp, R)
    PROVE  Ends(s, gen, cs, p, R)
<1>1. Joined(cs, Front(cs), Last(cs)) /\ Joined(Append(cs, c), cs, c)
  BY JoinedFront, JoinedAppend, Zenon
<1>2. PICK m \in Reading : Leads(s, gen, c, pp, m) /\ Ends(s, gen, cs, m, R)
  BY <1>1, EndsAhead, Zenon DEF Returns
<1>3. PICK q \in Reading : Leads(s, gen, Last(cs), m, q) /\ Ends(s, gen, Front(cs), q, R)
  BY <1>1, <1>2, EndsAhead, Zenon DEF Returns
<1>4. Leads(s, gen, Last(cs), p, q)
  BY <1>2, <1>3, Zenon
<1>5. QED
  BY <1>1, <1>3, <1>4, EndsBehind, Zenon

LEMMA PopEnds ==
    ASSUME NEW s, NEW gen, NEW cs \in Seq(Activation), Len(cs) # 0,
           NEW p \in Reading, NEW pp \in Reading, NEW R,
           \A q \in Reading : Leads(s, gen, Last(cs), p, q) => q = pp,
           Ends(s, gen, cs, p, R)
    PROVE  Ends(s, gen, Front(cs), pp, R)
<1>1. Joined(cs, Front(cs), Last(cs))
  BY JoinedFront, Zenon
<1>2. PICK q \in Reading : Leads(s, gen, Last(cs), p, q) /\ Ends(s, gen, Front(cs), q, R)
  BY <1>1, EndsAhead, Zenon DEF Returns
<1>3. QED
  BY <1>2, Zenon

LEMMA PopBack ==
    ASSUME NEW s, NEW gen, NEW cs \in Seq(Activation), Len(cs) # 0,
           NEW p \in Reading, NEW pp \in Reading, NEW R,
           Leads(s, gen, Last(cs), p, pp), Ends(s, gen, Front(cs), pp, R)
    PROVE  Ends(s, gen, cs, p, R)
<1>1. Joined(cs, Front(cs), Last(cs))
  BY JoinedFront, Zenon
<1>2. QED
  BY <1>1, EndsBehind, Zenon

LEMMA ReplaceEnds ==
    ASSUME NEW s, NEW gen, NEW cs \in Seq(Activation), Len(cs) # 0, NEW c \in Activation,
           NEW p \in Reading, NEW pp \in Reading, NEW R,
           \A q \in Reading : Leads(s, gen, Last(cs), p, q) => Leads(s, gen, c, pp, q),
           Ends(s, gen, cs, p, R)
    PROVE  Ends(s, gen, Append(Front(cs), c), pp, R)
<1>1. Joined(cs, Front(cs), Last(cs)) /\ Joined(Append(Front(cs), c), Front(cs), c)
  BY JoinedFront, JoinedAppend, Zenon
<1>2. PICK q \in Reading : Leads(s, gen, Last(cs), p, q) /\ Ends(s, gen, Front(cs), q, R)
  BY <1>1, EndsAhead, Zenon DEF Returns
<1>3. QED
  BY <1>1, <1>2, EndsBehind, Zenon

LEMMA Stuck ==
    ASSUME NEW s, NEW gen, NEW cs \in Seq(Activation), Len(cs) # 0,
           NEW p \in Reading, NEW R, \A q \in Reading : ~Leads(s, gen, Last(cs), p, q)
    PROVE  ~Ends(s, gen, cs, p, R)
<1>1. Joined(cs, Front(cs), Last(cs))
  BY JoinedFront, Zenon
<1>2. QED
  BY <1>1, EndsAhead, Zenon DEF Returns

-----------------------------------------------------------------------------
(* Where activations lead *)

\* A position, and the message its slice is read for.
Spot(s, gen, p, w) ==
    /\ s \in Seq(Byte) /\ p \in Reading
    /\ p.index <= p.end /\ p.end <= Len(s) /\ w \in Wides(s, gen, p.end)

LEMMA SpotMeans ==
    ASSUME NEW s, NEW gen, NEW p, NEW w, Spot(s, gen, p, w)
    PROVE  /\ s \in Seq(Byte) /\ p \in Reading
           /\ p.index \in Nat /\ p.end \in Nat /\ w \in Nat
           /\ p.index <= p.end /\ p.end <= Len(s) /\ Len(s) \in Nat
           /\ p.end <= w /\ w <= Len(s) /\ p.index <= w
           /\ Place(s, p.index, w) /\ Place(s, p.index, p.end) /\ Place(s, p.end, w)
           /\ ~gen => w = p.end
<1>1. /\ s \in Seq(Byte) /\ p \in Reading
      /\ p.index <= p.end /\ p.end <= Len(s) /\ w \in Wides(s, gen, p.end)
  BY Zenon DEF Spot
<1>2. p.index \in Nat /\ p.end \in Nat /\ Len(s) \in Nat
  BY <1>1 DEF Reading
<1>3. w \in Nat /\ p.end <= w /\ w <= Len(s) /\ (~gen => w = p.end)
  <2>1. CASE gen
    BY <1>1, <1>2, <2>1 DEF Wides
  <2>2. CASE ~gen
    BY <1>1, <1>2, <2>2 DEF Wides
  <2>3. QED
    BY <2>1, <2>2
<1>4. p.index <= w
  BY <1>1, <1>2, <1>3
<1>5. Place(s, p.index, w) /\ Place(s, p.index, p.end) /\ Place(s, p.end, w)
  BY <1>1, <1>2, <1>3, <1>4 DEF Place
<1>6. QED
  BY <1>1, <1>2, <1>3, <1>4, <1>5, Zenon

\* A whole field, and what it stores, leads no elsewhere.
LEMMA FieldLeads ==
    ASSUME NEW s, NEW gen, NEW c, NEW p, NEW pp, NEW q, NEW w, NEW to, NEW X,
           Continues(s, p.index, w, Loop(c), to, X), Loop(c) \/ X = {},
           pp.index = to, pp.end = p.end, pp.kept = p.kept \cup X
    PROVE  LeadsAt(s, gen, c, p, q, w) <=> LeadsAt(s, gen, c, pp, q, w)
<1>1. PICK g, h : g = Said(s, p.index, w, Loop(c)) /\ h = Said(s, to, w, Loop(c))
  OBVIOUS
<1>2. g.close = h.close /\ g.done = h.done /\ g.unknown = X \cup h.unknown
  BY <1>1, Zenon DEF Continues
<1>3. PICK closing : closing = readTag(s, g.close, w, MaxTag)
  OBVIOUS
<1>4. p.kept \cup g.unknown = pp.kept \cup h.unknown
  BY <1>2
<1>5. Fills(gen, c, p, q, w, g, closing) <=> Fills(gen, c, pp, q, w, h, closing)
  BY <1>2, <1>4, Zenon DEF Fills
<1>6. p.kept \cup GroupStores(s, c, g, closing.index, w)
        = pp.kept \cup GroupStores(s, c, h, closing.index, w)
  <2>1. CASE Loop(c)
    BY <1>4, <2>1, Zenon DEF GroupStores
  <2>2. CASE ~Loop(c)
    <3>1. GroupStores(s, c, g, closing.index, w) = GroupStores(s, c, h, closing.index, w)
      BY <2>2, Zenon DEF GroupStores
    <3>2. pp.kept = p.kept
      BY <2>2
    <3>3. QED
      BY <3>1, <3>2, Zenon
  <2>3. QED
    BY <2>1, <2>2, Zenon
<1>7. Closed(s, c, p, q, w, g, closing) <=> Closed(s, c, pp, q, w, h, closing)
  BY <1>2, <1>6, Zenon DEF Closed
<1>8. LeadsBy(s, gen, c, p, q, w, g, closing) <=> LeadsBy(s, gen, c, pp, q, w, h, closing)
  BY <1>5, <1>7, Zenon DEF LeadsBy
<1>9. /\ LeadsAt(s, gen, c, p, q, w) <=> LeadsBy(s, gen, c, p, q, w, g, closing)
      /\ LeadsAt(s, gen, c, pp, q, w) <=> LeadsBy(s, gen, c, pp, q, w, h, closing)
  BY <1>1, <1>2, <1>3, Zenon DEF LeadsAt
<1>10. QED
  BY <1>8, <1>9, Zenon

\* Where there is no field, nothing leads anywhere.
LEMMA NoFieldStops ==
    ASSUME NEW s, NEW gen, NEW c, NEW p, NEW q, NEW w,
           Said(s, p.index, w, Loop(c)) = NoField
    PROVE  ~LeadsAt(s, gen, c, p, q, w)
<1>1. NoField.close = None /\ NoField.done # TRUE
  BY DEF NoField
<1>2. QED
  BY <1>1, Zenon DEF LeadsAt, LeadsBy, Fills, Closed

\* The end tag is inside the slice, so all that leads to it is.
LEMMA LeadsInside ==
    ASSUME NEW s \in Seq(Byte), NEW gen, NEW c, NEW p, NEW q, NEW w,
           Place(s, p.index, w), p.end \in Nat, LeadsAt(s, gen, c, p, q, w)
    PROVE  p.index <= p.end
<1>1. PICK t : t = Loop(c)
  OBVIOUS
<1>2. t \in BOOLEAN
  BY <1>1 DEF Loop
<1>3. PICK g : g = Said(s, p.index, w, t)
  OBVIOUS
<1>4. PICK closing : closing = readTag(s, g.close, w, MaxTag)
  OBVIOUS
<1>5. WellFormed(s, p.index, w, g) /\ g \in Result
  BY <1>2, <1>3, Formed, Zenon
<1>6. p.index \in Nat /\ w \in Nat /\ w <= Len(s) /\ p.index <= w /\ g.close \in Int
  BY <1>5 DEF Place, Result
<1>7. g.close # None => p.index <= g.close /\ g.close < w /\ EndsGroup(closing)
  BY <1>4, <1>5, Zenon DEF WellFormed
<1>8. g.close # None => /\ g.close \in Nat /\ closing.index \in Nat
                        /\ g.close < closing.index
  <2> SUFFICES ASSUME g.close # None PROVE g.close \in Nat /\ closing.index \in Nat
                                           /\ g.close < closing.index
    OBVIOUS
  <2>1. g.close \in Nat /\ g.close <= w
    BY <1>6, <1>7
  <2>2. closing.ok
    BY <1>7, Zenon DEF EndsGroup
  <2>3. QED
    BY <1>4, <1>6, <2>1, <2>2, TagInside
<1>9. CASE c.does = "message"
  <2>1. Fills(gen, c, p, q, w, g, closing)
    BY <1>1, <1>3, <1>4, <1>9, Zenon DEF LeadsAt, LeadsBy
  <2>2. w = p.end \/ (g.close # None /\ g.close <= p.end)
    BY <2>1, Zenon DEF Fills
  <2>3. QED
    BY <1>6, <1>7, <2>2
<1>10. CASE c.does # "message"
  <2>1. Closed(s, c, p, q, w, g, closing)
    BY <1>1, <1>3, <1>4, <1>10, Zenon DEF LeadsAt, LeadsBy
  <2>2. g.close # None /\ closing.index <= p.end
    BY <2>1, Zenon DEF Closed
  <2>3. QED
    BY <1>6, <1>7, <1>8, <2>2
<1>11. QED
  BY <1>9, <1>10

\* The tag at p, in the slice and in the message it is cut out of.
ReadsAt(s, p, w, tag) ==
    /\ tag = readTag(s, p.index, p.end, MaxTag) /\ tag.ok
    /\ tag = readTag(s, p.index, w, MaxTag)

\* A tag that was read in the slice, if whole fields lead on from it.
LEMMA Alive ==
    ASSUME NEW s, NEW gen, NEW c, NEW p, NEW q, NEW w, Spot(s, gen, p, w),
           NEW tag, tag = readTag(s, p.index, p.end, MaxTag), tag.ok,
           LeadsAt(s, gen, c, p, q, w)
    PROVE  /\ ReadsAt(s, p, w, tag) /\ p.index # w
           /\ tag.wire_type = EndGroup => c.does # "message"
           /\ tag.wire_type # EndGroup => ~Wrong(tag, Loop(c))
<1>1. PICK t : t = Loop(c)
  OBVIOUS
<1>2. t \in BOOLEAN
  BY <1>1 DEF Loop
<1>3. /\ s \in Seq(Byte) /\ p.index \in Nat /\ p.end \in Nat /\ w \in Nat
      /\ p.index <= p.end /\ p.end <= Len(s) /\ p.end <= w /\ w <= Len(s)
      /\ Place(s, p.index, w)
  BY SpotMeans, Zenon
<1>4. tag.index \in Nat /\ p.index < tag.index /\ tag.index <= p.end
  BY <1>3, TagInside
<1>5. tag.index <= w /\ p.index # w
  BY <1>3, <1>4
<1>6. tag = readTag(s, p.index, w, MaxTag)
  BY <1>3, <1>5, TagFits
<1>7. Said(s, p.index, w, t) # NoField
  BY <1>1, NoFieldStops, Zenon
<1>8. tag.wire_type # EndGroup => ~Wrong(tag, t)
  BY <1>2, <1>3, <1>5, <1>6, <1>7, NoneMeans, Zenon
<1>9. ASSUME tag.wire_type = EndGroup, c.does = "message" PROVE FALSE
  <2>1. Closes(s, p.index, w, t)
    BY <1>2, <1>3, <1>5, <1>6, <1>9, CloseMeans, Zenon
  <2>2. PICK g : g = Said(s, p.index, w, t)
    OBVIOUS
  <2>3. g.close = p.index /\ g.done = FALSE
    BY <2>1, <2>2, Zenon DEF Closes
  <2>4. Fills(gen, c, p, q, w, g, tag)
    BY <1>1, <1>6, <1>9, <2>2, <2>3, Zenon DEF LeadsAt, LeadsBy
  <2>5. p.end < tag.index
    BY <2>3, <2>4 DEF Fills
  <2>6. QED
    BY <1>3, <1>4, <2>5
<1>10. QED
  BY <1>1, <1>5, <1>6, <1>8, <1>9, Zenon DEF ReadsAt

-----------------------------------------------------------------------------
(* Values *)

LEMMA ValueContinues ==
    ASSUME NEW s, NEW gen, NEW p, NEW w, Spot(s, gen, p, w), NEW typed \in BOOLEAN,
           NEW tag, ReadsAt(s, p, w, tag),
           tag.wire_type # StartGroup, tag.wire_type # EndGroup, ~Wrong(tag, typed),
           ~(typed /\ tag.number \in MessageField),
           NEW known, known = (typed /\ tag.number \in ScalarField),
           NEW value, value = skipValue(s, tag.index, p.end, tag.wire_type), value.ok
    PROVE  Continues(s, p.index, w, typed, value.index,
                     Stores(p.index, typed, value.index, known, {}))
<1>1. /\ tag = readTag(s, p.index, p.end, MaxTag) /\ tag.ok
      /\ tag = readTag(s, p.index, w, MaxTag)
  BY Zenon DEF ReadsAt
<1>2. /\ s \in Seq(Byte) /\ p.index \in Nat /\ p.end \in Nat /\ w \in Nat
      /\ p.index <= p.end /\ p.end <= Len(s) /\ p.end <= w /\ w <= Len(s)
      /\ Place(s, p.index, w)
  BY SpotMeans, Zenon
<1>3. /\ tag.index \in Nat /\ p.index < tag.index /\ tag.index <= p.end
      /\ tag.wire_type \in WireType
  BY <1>1, <1>2, TagInside
<1>4. value.index \in Nat /\ tag.index <= value.index /\ value.index <= p.end
  BY <1>2, <1>3, ValueInside
<1>5. value.index <= w /\ tag.index <= w /\ p.index # w
  BY <1>2, <1>3, <1>4
<1>6. value = skipValue(s, tag.index, w, tag.wire_type)
  BY <1>2, <1>3, <1>4, <1>5, ValueFits
<1>7. QED
  BY <1>1, <1>2, <1>5, <1>6, ValueMeans, Zenon

\* Behind a value the activation leads where it did before it.
ValueGoes(s, gen, c, p, pp, q, w, tag) ==
    /\ LeadsAt(s, gen, c, p, q, w) => LeadsAt(s, gen, c, pp, q, w)
    /\ w = p.end /\ ~Wrong(tag, Loop(c)) /\ LeadsAt(s, gen, c, pp, q, w) =>
         LeadsAt(s, gen, c, p, q, w)

\* A value of the wire type is read past.
Passes(s, c, p, pp, tag, value, known) ==
    /\ tag = readTag(s, p.index, p.end, MaxTag)
    /\ tag.ok
    /\ tag.wire_type # StartGroup
    /\ tag.wire_type # EndGroup
    /\ ~(Loop(c) /\ tag.number \in MessageField)
    /\ known = (Loop(c) /\ tag.number \in ScalarField)
    /\ value = skipValue(s, tag.index, p.end, tag.wire_type)
    /\ value.ok
    /\ pp.index = value.index
    /\ pp.end = p.end
    /\ pp.kept = p.kept \cup Stores(p.index, Loop(c), value.index, known, {})

LEMMA ValueLeads ==
    ASSUME NEW s, NEW gen, NEW c, NEW p, NEW q, NEW w, Spot(s, gen, p, w), NEW tag,
           NEW pp, NEW value, NEW known, Passes(s, c, p, pp, tag, value, known)
    PROVE  ValueGoes(s, gen, c, p, pp, q, w, tag)
<1>1. /\ tag = readTag(s, p.index, p.end, MaxTag) /\ tag.ok
      /\ tag.wire_type # StartGroup /\ tag.wire_type # EndGroup
      /\ ~(Loop(c) /\ tag.number \in MessageField)
      /\ known = (Loop(c) /\ tag.number \in ScalarField)
      /\ value = skipValue(s, tag.index, p.end, tag.wire_type) /\ value.ok
      /\ pp.index = value.index /\ pp.end = p.end
      /\ pp.kept = p.kept \cup Stores(p.index, Loop(c), value.index, known, {})
  BY Zenon DEF Passes
<1>2. PICK typed, X : typed = Loop(c) /\ X = Stores(p.index, typed, value.index, known, {})
  OBVIOUS
<1>3. typed \in BOOLEAN /\ (typed \/ X = {})
  BY <1>2 DEF Loop, Stores
<1>4. ASSUME ReadsAt(s, p, w, tag), ~Wrong(tag, typed)
      PROVE  LeadsAt(s, gen, c, p, q, w) <=> LeadsAt(s, gen, c, pp, q, w)
  <2>1. known = (typed /\ tag.number \in ScalarField) /\ ~(typed /\ tag.number \in MessageField)
    BY <1>1, <1>2, Zenon
  <2>2. Continues(s, p.index, w, typed, value.index,
                  Stores(p.index, typed, value.index, known, {}))
    BY <1>1, <1>3, <1>4, <2>1, ValueContinues
  <2>3. Continues(s, p.index, w, Loop(c), value.index, X) /\ (Loop(c) \/ X = {})
    BY <1>2, <1>3, <2>2, Zenon
  <2>4. pp.kept = p.kept \cup X
    BY <1>1, <1>2, Zenon
  <2>5. QED
    BY <1>1, <1>4, <2>3, <2>4, FieldLeads, Zenon
<1>5. LeadsAt(s, gen, c, p, q, w) => LeadsAt(s, gen, c, pp, q, w)
  <2> SUFFICES ASSUME LeadsAt(s, gen, c, p, q, w) PROVE LeadsAt(s, gen, c, pp, q, w)
    OBVIOUS
  <2>1. ReadsAt(s, p, w, tag) /\ ~Wrong(tag, Loop(c))
    BY <1>1, Alive, Zenon
  <2>2. QED
    BY <1>2, <1>4, <2>1, Zenon
<1>6. ASSUME w = p.end, ~Wrong(tag, Loop(c)), LeadsAt(s, gen, c, pp, q, w)
      PROVE  LeadsAt(s, gen, c, p, q, w)
  <2>1. ReadsAt(s, p, w, tag)
    BY <1>1, <1>6 DEF ReadsAt
  <2>2. QED
    BY <1>2, <1>4, <1>6, <2>1, Zenon
<1>7. QED
  BY <1>5, <1>6, Zenon DEF ValueGoes

\* A value that breaks off leads nowhere.
LEMMA ValueStops ==
    ASSUME NEW s, NEW gen, NEW c, NEW p, NEW q, Spot(s, gen, p, p.end),
           NEW tag, tag = readTag(s, p.index, p.end, MaxTag), tag.ok,
           tag.wire_type # StartGroup, tag.wire_type # EndGroup, ~Wrong(tag, Loop(c)),
           ~(Loop(c) /\ tag.number \in MessageField),
           ~skipValue(s, tag.index, p.end, tag.wire_type).ok
    PROVE  ~LeadsAt(s, gen, c, p, q, p.end)
<1>1. PICK typed, known, value :
          /\ typed = Loop(c) /\ known = (typed /\ tag.number \in ScalarField)
          /\ value = skipValue(s, tag.index, p.end, tag.wire_type)
  OBVIOUS
<1>2. typed \in BOOLEAN
  BY <1>1 DEF Loop
<1>3. /\ s \in Seq(Byte) /\ p.index \in Nat /\ p.end \in Nat
      /\ p.index <= p.end /\ p.end <= Len(s) /\ Place(s, p.index, p.end)
  BY SpotMeans, Zenon
<1>4. p.index < tag.index /\ tag.index <= p.end /\ tag.index \in Nat
  BY <1>3, TagInside
<1>5. p.index # p.end
  BY <1>3, <1>4
<1>6. Said(s, p.index, p.end, typed) = NoField
  BY <1>1, <1>2, <1>3, <1>5, ValueMeans, Zenon
<1>7. QED
  BY <1>1, <1>6, NoFieldStops, Zenon

\* Nor does what is no tag, or one with another wire type.
LEMMA TagStops ==
    ASSUME NEW s, NEW gen, NEW c, NEW p, NEW q, Spot(s, gen, p, p.end), p.index # p.end,
           NEW tag, tag = readTag(s, p.index, p.end, MaxTag),
           ~tag.ok \/ (tag.wire_type # EndGroup /\ Wrong(tag, Loop(c)))
    PROVE  ~LeadsAt(s, gen, c, p, q, p.end)
<1>1. PICK typed : typed = Loop(c)
  OBVIOUS
<1>2. typed \in BOOLEAN
  BY <1>1 DEF Loop
<1>3. s \in Seq(Byte) /\ Place(s, p.index, p.end)
  BY SpotMeans, Zenon
<1>4. Said(s, p.index, p.end, typed) = NoField
  BY <1>1, <1>2, <1>3, NoneMeans, Zenon
<1>5. QED
  BY <1>1, <1>4, NoFieldStops, Zenon

\* A group does not end with the slice.
LEMMA EndStops ==
    ASSUME NEW s, NEW gen, NEW c, NEW p, NEW q, Spot(s, gen, p, p.end), p.index = p.end,
           c.does # "message"
    PROVE  ~LeadsAt(s, gen, c, p, q, p.end)
<1>1. PICK typed : typed = Loop(c)
  OBVIOUS
<1>2. typed \in BOOLEAN
  BY <1>1 DEF Loop
<1>3. s \in Seq(Byte) /\ p.end \in 0 .. Len(s)
  <2>1. s \in Seq(Byte) /\ Place(s, p.end, p.end)
    BY SpotMeans, Zenon
  <2>2. QED
    BY <2>1, Zenon DEF Place
<1>4. Said(s, p.index, p.end, typed).close = None
  BY <1>2, <1>3, EndMeans, Zenon
<1>5. QED
  BY <1>1, <1>4, Zenon DEF LeadsAt, LeadsBy, Closed

-----------------------------------------------------------------------------
(* Messages *)

LEMMA MessageCallSays ==
    ASSUME NEW i, NEW e, NEW call, call = MessageCall(i, e)
    PROVE  /\ call.does = "message" /\ Loop(call) /\ call.index = i /\ call.end = e
  BY DEF MessageCall, Loop

LEMMA GroupCallSays ==
    ASSUME NEW d, NEW n, NEW f, NEW k, NEW call, call = GroupCall(d, n, f, k)
    PROVE  /\ call.does = d /\ call.number = n /\ call.from = f /\ call.keep = k
           /\ Loop(call) <=> d \in {"message", "group"}
  BY DEF GroupCall, Loop

\* The call leads from pp to where c leads on from.
Through(s, gen, c, call, pp, q) ==
    \E m \in Reading : Leads(s, gen, call, pp, m) /\ Leads(s, gen, c, m, q)

\* What the grammar says of the field, by what it says of the payload.
MessageSays(s, p, w, typed, payload, message) ==
    /\ message.done = TRUE =>
         Continues(s, p.index, w, typed, payload.index, message.unknown)
    /\ message.done # TRUE => Said(s, p.index, w, typed) = NoField
    /\ message \in Result
    /\ payload.start \in Nat /\ payload.index \in Nat
    /\ payload.start <= payload.index /\ payload.index <= p.end

\* The message a field holds, in the slice and in what it is cut out of.
LEMMA MessageContinues ==
    ASSUME NEW s, NEW gen, NEW p, NEW w, Spot(s, gen, p, w), NEW typed, typed = TRUE,
           NEW tag, ReadsAt(s, p, w, tag),
           tag.wire_type = LengthDelimited, ~Wrong(tag, typed), tag.number \in MessageField,
           NEW payload, payload = readBytes(s, tag.index, p.end), payload.ok,
           NEW message, message = Said(s, payload.start, payload.index, typed)
    PROVE  MessageSays(s, p, w, typed, payload, message)
<1>1. /\ tag = readTag(s, p.index, p.end, MaxTag) /\ tag.ok
      /\ tag = readTag(s, p.index, w, MaxTag)
  BY Zenon DEF ReadsAt
<1>2. /\ s \in Seq(Byte) /\ p.index \in Nat /\ p.end \in Nat /\ w \in Nat
      /\ p.index <= p.end /\ p.end <= Len(s) /\ p.end <= w /\ w <= Len(s)
      /\ Place(s, p.index, w)
  BY SpotMeans, Zenon
<1>3. /\ tag.index \in Nat /\ p.index < tag.index /\ tag.index <= p.end
      /\ tag.wire_type \in WireType
  BY <1>1, <1>2, TagInside
<1>4. /\ payload.start \in Nat /\ payload.index \in Nat /\ tag.index <= payload.start
      /\ payload.start <= payload.index /\ payload.index <= p.end
  BY <1>2, <1>3, BytesInside
<1>5. payload.index <= w /\ tag.index <= w /\ p.index # w
  BY <1>2, <1>3, <1>4
<1>6. payload = readBytes(s, tag.index, w)
  BY <1>2, <1>3, <1>4, <1>5, BytesFit
<1>7. Place(s, payload.start, payload.index) /\ typed \in BOOLEAN
  BY <1>2, <1>4 DEF Place
<1>8. message \in Result
  BY <1>2, <1>7, Formed, Zenon
<1>9. message.done \in BOOLEAN
  BY <1>8 DEF Result
<1>10. typed = (typed /\ tag.number \in MessageField) /\ typed
  OBVIOUS
<1>11. /\ payload.ok /\ message.done =>
            Continues(s, p.index, w, typed, payload.index, message.unknown)
       /\ ~(payload.ok /\ message.done) => Said(s, p.index, w, typed) = NoField
  BY <1>1, <1>2, <1>5, <1>6, <1>7, <1>10, MessageMeans
<1>12. QED
  BY <1>4, <1>8, <1>9, <1>11, Zenon DEF MessageSays

\* The payload behind the tag, and the call that reads it.
Nests(s, p, tag, payload, call, pp) ==
    /\ tag = readTag(s, p.index, p.end, MaxTag) /\ tag.ok
    /\ payload = readBytes(s, tag.index, p.end) /\ payload.ok
    /\ call = MessageCall(payload.index, p.end)
    /\ pp \in Reading /\ pp.index = payload.start /\ pp.end = payload.index
    /\ pp.kept = p.kept

LEMMA MessageLeads ==
    ASSUME NEW s, NEW gen, NEW c, NEW p, NEW q, NEW w, Spot(s, gen, p, w),
           NEW tag,
           Loop(c), tag.number \in MessageField,
           tag.wire_type = LengthDelimited \/ c.does = "message",
           NEW payload, NEW call, NEW pp, Nests(s, p, tag, payload, call, pp),
           LeadsAt(s, gen, c, p, q, w)
    PROVE  Through(s, gen, c, call, pp, q)
<1>1. /\ tag = readTag(s, p.index, p.end, MaxTag) /\ tag.ok
      /\ payload = readBytes(s, tag.index, p.end) /\ payload.ok
      /\ call = MessageCall(payload.index, p.end)
      /\ pp \in Reading /\ pp.index = payload.start /\ pp.end = payload.index
      /\ pp.kept = p.kept
  BY Zenon DEF Nests
<1>2. PICK typed : typed = TRUE
  OBVIOUS
<1>3. /\ ReadsAt(s, p, w, tag)
      /\ tag.wire_type = EndGroup => c.does # "message"
      /\ tag.wire_type # EndGroup => ~Wrong(tag, Loop(c))
  BY <1>1, Alive, Zenon
<1>4. Loop(c) = typed
  BY <1>2 DEF Loop
<1>5. tag.wire_type = LengthDelimited /\ ~Wrong(tag, typed)
  BY <1>2, <1>3, <1>4 DEF Wrong, EndGroup, LengthDelimited
<1>6. PICK message : message = Said(s, payload.start, payload.index, typed)
  OBVIOUS
<1>7. /\ message.done = TRUE =>
           Continues(s, p.index, w, typed, payload.index, message.unknown)
      /\ message.done # TRUE => Said(s, p.index, w, typed) = NoField
      /\ message \in Result
      /\ payload.start \in Nat /\ payload.index \in Nat
      /\ payload.start <= payload.index /\ payload.index <= p.end
  <2>1. MessageSays(s, p, w, typed, payload, message)
    BY <1>1, <1>2, <1>3, <1>5, <1>6, MessageContinues, Zenon
  <2>2. QED
    BY <2>1, Zenon DEF MessageSays
<1>8. message.done = TRUE
  BY <1>4, <1>7, NoFieldStops, Zenon
<1>9. PICK m : m = [index |-> payload.index, end |-> p.end,
                    kept |-> p.kept \cup message.unknown]
  OBVIOUS
<1>10. /\ m.index = payload.index /\ m.end = p.end
      /\ m.kept = p.kept \cup message.unknown
  BY <1>9
<1>11. m \in Reading
  <2>1. p.end \in Nat /\ p.kept \in SUBSET Slice
    <3>1. p \in Reading
      BY SpotMeans, Zenon
    <3>2. QED
      BY <3>1 DEF Reading
  <2>2. message.unknown \in SUBSET Slice
    BY <1>7 DEF Result
  <2>3. QED
    BY <1>7, <1>9, <2>1, <2>2 DEF Reading
<1>12. Leads(s, gen, call, pp, m)
  <2>1. /\ call.does = "message" /\ Loop(call) /\ call.index = payload.index
        /\ call.end = p.end
    BY <1>1, MessageCallSays
  <2>2. Loop(call) = typed
    BY <1>2, <2>1 DEF Loop
  <2>3. ASSUME NEW closing PROVE Fills(gen, call, pp, m, payload.index, message, closing)
    BY <1>1, <1>8, <1>10, <2>1, Zenon DEF Fills
  <2>4. LeadsAt(s, gen, call, pp, m, payload.index)
    BY <1>1, <1>6, <2>1, <2>2, <2>3, Zenon DEF LeadsAt, LeadsBy
  <2>5. payload.index \in Wides(s, gen, pp.end)
    <3>1. p.end <= Len(s) /\ Len(s) \in Nat /\ p.end \in Nat
      BY SpotMeans, Zenon
    <3>2. QED
      BY <1>1, <1>7, <3>1 DEF Wides
  <2>6. QED
    BY <1>1, <2>4, <2>5, Zenon DEF Leads
<1>13. LeadsAt(s, gen, c, m, q, w)
  <2>1. Continues(s, p.index, w, Loop(c), payload.index, message.unknown)
    BY <1>4, <1>7, <1>8, Zenon
  <2>2. QED
    BY <1>10, <2>1, FieldLeads, Zenon
<1>14. w \in Wides(s, gen, m.end)
  BY <1>10, Zenon DEF Spot
<1>15. QED
  BY <1>1, <1>11, <1>12, <1>13, <1>14, Zenon DEF Through, Leads

\* And only there, where the wire type is looked at.
LEMMA MessageBack ==
    ASSUME NEW s, NEW gen, NEW c, NEW p, NEW m, NEW q, Spot(s, gen, p, p.end), ~gen,
           NEW tag, Loop(c), tag.number \in MessageField, tag.wire_type = LengthDelimited,
           ~Wrong(tag, Loop(c)),
           NEW payload, NEW call, NEW pp, Nests(s, p, tag, payload, call, pp),
           Leads(s, gen, call, pp, m), Leads(s, gen, c, m, q)
    PROVE  Leads(s, gen, c, p, q)
<1>1. /\ tag = readTag(s, p.index, p.end, MaxTag) /\ tag.ok
      /\ payload = readBytes(s, tag.index, p.end) /\ payload.ok
      /\ call = MessageCall(payload.index, p.end)
      /\ pp \in Reading /\ pp.index = payload.start /\ pp.end = payload.index
      /\ pp.kept = p.kept
  BY Zenon DEF Nests
<1>2. PICK typed : typed = TRUE
  OBVIOUS
<1>3. ReadsAt(s, p, p.end, tag)
  BY <1>1 DEF ReadsAt
<1>4. Loop(c) = typed
  BY <1>2 DEF Loop
<1>5. PICK message : message = Said(s, payload.start, payload.index, typed)
  OBVIOUS
<1>6. ~Wrong(tag, typed)
  BY <1>4, Zenon
<1>7. message.done = TRUE =>
           Continues(s, p.index, p.end, typed, payload.index, message.unknown)
  <2>1. MessageSays(s, p, p.end, typed, payload, message)
    BY <1>1, <1>2, <1>3, <1>5, <1>6, MessageContinues, Zenon
  <2>2. QED
    BY <2>1, Zenon DEF MessageSays
<1>8. LeadsAt(s, gen, call, pp, m, payload.index)
  BY <1>1, Zenon DEF Leads, Wides
<1>9. /\ call.does = "message" /\ Loop(call) /\ call.index = payload.index
      /\ call.end = p.end
  BY <1>1, MessageCallSays
<1>10. Loop(call) = typed
  BY <1>2, <1>9 DEF Loop
<1>11. PICK closing : Fills(gen, call, pp, m, payload.index, message, closing)
  BY <1>1, <1>5, <1>8, <1>9, <1>10, Zenon DEF LeadsAt, LeadsBy
<1>12. /\ m.index = payload.index /\ m.end = p.end
       /\ m.kept = p.kept \cup message.unknown /\ message.done = TRUE
  BY <1>1, <1>9, <1>11, Zenon DEF Fills
<1>13. Continues(s, p.index, p.end, Loop(c), payload.index, message.unknown)
  BY <1>4, <1>7, <1>12, Zenon
<1>14. LeadsAt(s, gen, c, m, q, p.end)
  BY <1>12, Zenon DEF Leads, Wides
<1>15. LeadsAt(s, gen, c, p, q, p.end)
  BY <1>12, <1>13, <1>14, FieldLeads, Zenon
<1>16. QED
  BY <1>15, Zenon DEF Leads, Spot

\* A payload that breaks off leads nowhere.
LEMMA MessageStops ==
    ASSUME NEW s, NEW gen, NEW c, NEW p, NEW q, Spot(s, gen, p, p.end),
           NEW tag, tag = readTag(s, p.index, p.end, MaxTag), tag.ok,
           Loop(c), tag.number \in MessageField, tag.wire_type = LengthDelimited,
           ~Wrong(tag, Loop(c)), ~readBytes(s, tag.index, p.end).ok
    PROVE  ~LeadsAt(s, gen, c, p, q, p.end)
<1>1. PICK typed, payload : typed = TRUE /\ payload = readBytes(s, tag.index, p.end)
  OBVIOUS
<1>2. PICK message : message = Said(s, payload.start, payload.index, typed)
  OBVIOUS
<1>3. /\ s \in Seq(Byte) /\ p.index \in Nat /\ p.end \in Nat
      /\ p.index <= p.end /\ p.end <= Len(s) /\ Place(s, p.index, p.end)
  BY SpotMeans, Zenon
<1>4. p.index < tag.index /\ tag.index <= p.end /\ tag.index \in Nat
  BY <1>3, TagInside
<1>5. p.index # p.end
  BY <1>3, <1>4
<1>6. typed = (typed /\ tag.number \in MessageField) /\ typed /\ typed \in BOOLEAN
      /\ ~Wrong(tag, typed) /\ Loop(c) = typed
  BY <1>1 DEF Loop
<1>7. ~(payload.ok /\ message.done) => Said(s, p.index, p.end, typed) = NoField
  BY <1>1, <1>2, <1>3, <1>5, <1>6, MessageMeans
<1>8. Said(s, p.index, p.end, Loop(c)) = NoField
  BY <1>1, <1>6, <1>7, Zenon
<1>9. QED
  BY <1>8, NoFieldStops, Zenon

-----------------------------------------------------------------------------
(* Groups *)

LEMMA GroupContinues ==
    ASSUME NEW s, NEW gen, NEW p, NEW w, Spot(s, gen, p, w), NEW typed \in BOOLEAN,
           NEW tag, ReadsAt(s, p, w, tag), tag.wire_type = StartGroup, ~Wrong(tag, typed),
           NEW inner, inner = (typed /\ tag.number \in GroupField),
           NEW group, group = Said(s, tag.index, w, inner),
           NEW closing, closing = readTag(s, group.close, w, MaxTag)
    PROVE  /\ group.close # None /\ closing.number = tag.number =>
                Continues(s, p.index, w, typed, closing.index,
                          Stores(p.index, typed, closing.index, inner, group.unknown))
           /\ ~(group.close # None /\ closing.number = tag.number) =>
                Said(s, p.index, w, typed) = NoField
           /\ group.close # None => closing.index \in Nat /\ closing.index <= w
           /\ group \in Result /\ tag.index \in 0 .. w
<1>1. /\ tag = readTag(s, p.index, p.end, MaxTag) /\ tag.ok
      /\ tag = readTag(s, p.index, w, MaxTag)
  BY Zenon DEF ReadsAt
<1>2. /\ s \in Seq(Byte) /\ p.index \in Nat /\ p.end \in Nat /\ w \in Nat
      /\ p.index <= p.end /\ p.end <= Len(s) /\ p.end <= w /\ w <= Len(s)
      /\ Place(s, p.index, w)
  BY SpotMeans, Zenon
<1>3. tag.index \in Nat /\ p.index < tag.index /\ tag.index <= p.end
  BY <1>1, <1>2, TagInside
<1>4. tag.index <= w /\ p.index # w /\ Place(s, tag.index, w) /\ tag.index \in 0 .. w
  BY <1>2, <1>3 DEF Place
<1>5. inner \in BOOLEAN
  OBVIOUS
<1>6. group \in Result
  BY <1>2, <1>4, <1>5, Formed, Zenon
<1>7. /\ group.close # None /\ closing.number = tag.number =>
                Continues(s, p.index, w, typed, closing.index,
                          Stores(p.index, typed, closing.index, inner, group.unknown))
      /\ ~(group.close # None /\ closing.number = tag.number) =>
                Said(s, p.index, w, typed) = NoField
      /\ group.close # None => closing.index \in Nat /\ closing.index <= w
  BY <1>1, <1>2, <1>4, GroupMeans
<1>8. QED
  BY <1>4, <1>6, <1>7, Zenon

\* The call for the group that begins at p.
Opens(c, call, p, tag, inner) ==
    /\ call.number = tag.number
    /\ \/ call.does = "group" /\ inner = TRUE
       \/ call.does = "bytes" /\ inner = TRUE /\ call.from = tag.index
       \/ call.does = "skip" /\ inner = FALSE /\ call.from = p.index /\ (call.keep <=> Loop(c))

\* It stores what the field is to store.
StoresField(s, c, call, p, inner, w, group, g, j) ==
    GroupStores(s, call, g, j, w) = Stores(p.index, Loop(c), j, inner, group.unknown)

LEMMA OpensStores ==
    ASSUME NEW s, NEW c, NEW call, NEW p, NEW tag, NEW inner \in BOOLEAN,
           Opens(c, call, p, tag, inner), NEW w,
           NEW group, group = Said(s, tag.index, w, inner),
           NEW g, call.does # "bytes" => g = group, NEW j
    PROVE  StoresField(s, c, call, p, inner, w, group, g, j)
<1>1. CASE call.does = "group"
  <2>1. Loop(call) /\ inner = TRUE /\ g = group
    BY <1>1 DEF Loop, Opens
  <2>2. QED
    BY <2>1, Zenon DEF GroupStores, Stores, StoresField
<1>2. CASE call.does = "bytes"
  <2>1. ~Loop(call) /\ inner = TRUE /\ call.from = tag.index
    BY <1>2 DEF Loop, Opens
  <2>2. Said(s, call.from, w, TRUE) = group
    BY <2>1
  <2>3. QED
    BY <1>2, <2>1, <2>2, Zenon DEF GroupStores, Stores, StoresField
<1>3. CASE call.does = "skip"
  <2>1. ~Loop(call) /\ inner = FALSE /\ call.from = p.index /\ (call.keep <=> Loop(c))
        /\ call.does # "bytes"
    BY <1>3 DEF Loop, Opens
  <2>2. QED
    BY <2>1, Zenon DEF GroupStores, Stores, StoresField
<1>4. QED
  BY <1>1, <1>2, <1>3, Zenon DEF Opens

LEMMA GroupLeads ==
    ASSUME NEW s, NEW gen, NEW c, NEW p, NEW q, NEW w, Spot(s, gen, p, w),
           NEW tag, tag = readTag(s, p.index, p.end, MaxTag), tag.ok,
           NEW inner, inner = (Loop(c) /\ tag.number \in GroupField),
           tag.wire_type = StartGroup \/ (c.does = "message" /\ inner),
           NEW call, Opens(c, call, p, tag, inner),
           NEW pp \in Reading, pp.index = tag.index, pp.end = p.end, pp.kept = p.kept,
           LeadsAt(s, gen, c, p, q, w)
    PROVE  Through(s, gen, c, call, pp, q)
<1>1. PICK typed : typed = Loop(c)
  OBVIOUS
<1>2. typed \in BOOLEAN /\ inner \in BOOLEAN
  BY <1>1 DEF Loop
<1>3. /\ ReadsAt(s, p, w, tag)
      /\ tag.wire_type = EndGroup => c.does # "message"
      /\ tag.wire_type # EndGroup => ~Wrong(tag, Loop(c))
  BY Alive, Zenon
<1>4. tag.wire_type = StartGroup /\ ~Wrong(tag, typed)
  <2>1. CASE tag.wire_type = StartGroup
    <3>1. tag.wire_type # EndGroup
      BY <2>1 DEF StartGroup, EndGroup
    <3>2. QED
      BY <1>1, <1>3, <2>1, <3>1, Zenon
  <2>2. CASE c.does = "message" /\ inner
    <3>1. Loop(c) /\ tag.number \in GroupField
      BY <2>2, Zenon
    <3>2. ~Wrong(tag, Loop(c))
      BY <1>3, <2>2, Zenon
    <3>3. tag.wire_type = StartGroup
      BY <3>1, <3>2, Zenon DEF Wrong
    <3>4. QED
      BY <1>1, <3>2, <3>3, Zenon
  <2>3. QED
    BY <2>1, <2>2, Zenon
<1>5. PICK group, closing : /\ group = Said(s, tag.index, w, inner)
                            /\ closing = readTag(s, group.close, w, MaxTag)
  OBVIOUS
<1> DEFINE X == Stores(p.index, typed, closing.index, inner, group.unknown)
<1>6. /\ group.close # None /\ closing.number = tag.number =>
                Continues(s, p.index, w, typed, closing.index, X)
      /\ ~(group.close # None /\ closing.number = tag.number) =>
                Said(s, p.index, w, typed) = NoField
      /\ group.close # None => closing.index \in Nat /\ closing.index <= w
      /\ group \in Result /\ tag.index \in 0 .. w
  <2>1. inner = (typed /\ tag.number \in GroupField)
    BY <1>1, Zenon
  <2>2. QED
    BY <1>2, <1>3, <1>4, <1>5, <2>1, GroupContinues
<1>7. group.close # None /\ closing.number = tag.number
  BY <1>1, <1>6, NoFieldStops, Zenon
<1>8. X \in SUBSET Slice /\ (typed \/ X = {})
  <2>1. group.unknown \in SUBSET Slice /\ p.index \in Nat
    <3>1. p.index \in Nat
      BY SpotMeans, Zenon
    <3>2. QED
      BY <1>6, <3>1 DEF Result
  <2>2. X = IF inner THEN group.unknown
            ELSE IF typed THEN {[from |-> p.index, to |-> closing.index]} ELSE {}
    BY Zenon DEF Stores
  <2>3. inner => typed
    BY <1>1
  <2> HIDE DEF X
  <2>4. CASE inner
    BY <2>1, <2>2, <2>3, <2>4, Zenon
  <2>5. CASE ~inner
    BY <1>6, <1>7, <2>1, <2>2, <2>5 DEF Slice
  <2>6. QED
    BY <2>4, <2>5
<1>9. PICK m : m = [index |-> closing.index, end |-> p.end, kept |-> p.kept \cup X]
  OBVIOUS
<1>10. m.index = closing.index /\ m.end = p.end /\ m.kept = p.kept \cup X
  BY <1>9
<1> HIDE DEF X
<1>11. m \in Reading
  <2>1. p.end \in Nat /\ p.kept \in SUBSET Slice
    <3>1. p \in Reading
      BY SpotMeans, Zenon
    <3>2. QED
      BY <3>1 DEF Reading
  <2>2. QED
    BY <1>6, <1>7, <1>8, <1>9, <2>1 DEF Reading
<1>12. LeadsAt(s, gen, c, m, q, w)
  <2>1. Continues(s, p.index, w, Loop(c), closing.index, X) /\ (Loop(c) \/ X = {})
    BY <1>1, <1>6, <1>7, <1>8, Zenon
  <2>2. QED
    BY <1>10, <2>1, FieldLeads, Zenon
<1>13. closing.index <= p.end
  <2>1. s \in Seq(Byte) /\ m.end \in Nat /\ Place(s, m.index, w)
    <3>1. s \in Seq(Byte) /\ p.end \in Nat /\ Place(s, p.index, w)
      BY SpotMeans, Zenon
    <3>2. QED
      BY <1>6, <1>7, <1>10, <3>1 DEF Place
  <2>2. m.index <= m.end
    BY <1>12, <2>1, LeadsInside, Zenon
  <2>3. QED
    BY <1>10, <2>2, Zenon
<1>14. PICK g : g = Said(s, tag.index, w, Loop(call))
  OBVIOUS
<1>15. g.close = group.close /\ (call.does # "bytes" => g = group)
       /\ (call.does = "bytes" => Said(s, call.from, w, TRUE).close = g.close)
  <2>1. CASE call.does = "group" \/ call.does = "skip"
    <3>1. Loop(call) = inner /\ call.does # "bytes"
      <4>1. CASE call.does = "group"
        <5>1. inner = TRUE /\ Loop(call) = TRUE
          BY <4>1 DEF Opens, Loop
        <5>2. QED
          BY <4>1, <5>1
      <4>2. CASE call.does = "skip"
        <5>1. inner = FALSE /\ Loop(call) = FALSE
          BY <4>2 DEF Opens, Loop
        <5>2. QED
          BY <4>2, <5>1
      <4>3. QED
        BY <2>1, <4>1, <4>2
    <3>2. QED
      BY <1>5, <1>14, <3>1, Zenon
  <2>2. CASE call.does = "bytes"
    <3>1. Loop(call) = FALSE /\ inner = TRUE /\ call.from = tag.index
      BY <2>2 DEF Opens, Loop
    <3>2. SameClose(s, tag.index, w, inner)
      <4>1. s \in Seq(Byte) /\ w \in 0 .. Len(s)
        <5>1. s \in Seq(Byte) /\ Place(s, p.index, w)
          BY SpotMeans, Zenon
        <5>2. QED
          BY <5>1, Zenon DEF Place
      <4>2. QED
        BY <1>2, <1>6, <4>1, TypedClosesSame, Zenon
    <3>3. RawSaid(s, tag.index, w).close = group.close
      BY <1>5, <1>7, <3>2, Zenon DEF SameClose
    <3>4. g = RawSaid(s, tag.index, w)
      BY <1>14, <3>1 DEF RawSaid
    <3>5. Said(s, call.from, w, TRUE) = group
      BY <1>5, <3>1
    <3>6. QED
      BY <2>2, <3>3, <3>4, <3>5, Zenon
  <2>3. QED
    BY <2>1, <2>2, Zenon DEF Opens
<1>16. GroupStores(s, call, g, closing.index, w) = X
  <2>1. StoresField(s, c, call, p, inner, w, group, g, closing.index)
    BY <1>2, <1>5, <1>15, OpensStores, Zenon
  <2>2. GroupStores(s, call, g, closing.index, w)
          = Stores(p.index, Loop(c), closing.index, inner, group.unknown)
    BY <2>1, Zenon DEF StoresField
  <2>3. QED
    BY <1>1, <2>2 DEF X
<1>17. Leads(s, gen, call, pp, m)
  <2>1. Closed(s, call, pp, m, w, g, closing)
    <3>1. call.number = tag.number
      BY Zenon DEF Opens
    <3>2. QED
      BY <1>7, <1>10, <1>13, <1>15, <1>16, <3>1, Zenon DEF Closed
  <2>2. call.does # "message"
    BY DEF Opens
  <2>3. closing = readTag(s, g.close, w, MaxTag)
    BY <1>5, <1>15, Zenon
  <2>4. LeadsAt(s, gen, call, pp, m, w)
    BY <1>14, <2>1, <2>2, <2>3, Zenon DEF LeadsAt, LeadsBy
  <2>5. QED
    BY <2>4, Zenon DEF Leads, Spot
<1>18. w \in Wides(s, gen, m.end)
  BY <1>10, Zenon DEF Spot
<1>19. QED
  BY <1>11, <1>12, <1>17, <1>18, Zenon DEF Through, Leads

\* And only there, where the group is read in place.
LEMMA GroupBack ==
    ASSUME NEW s, NEW gen, NEW c, NEW p, NEW m, NEW q, Spot(s, gen, p, p.end), ~gen,
           NEW tag, tag = readTag(s, p.index, p.end, MaxTag), tag.ok,
           tag.wire_type = StartGroup, ~Wrong(tag, Loop(c)),
           NEW inner, inner = (Loop(c) /\ tag.number \in GroupField),
           NEW call, Opens(c, call, p, tag, inner), call.does # "bytes",
           NEW pp \in Reading, pp.index = tag.index, pp.end = p.end, pp.kept = p.kept,
           Leads(s, gen, call, pp, m), Leads(s, gen, c, m, q)
    PROVE  Leads(s, gen, c, p, q)
<1>1. PICK typed : typed = Loop(c)
  OBVIOUS
<1>2. typed \in BOOLEAN /\ inner \in BOOLEAN
  BY <1>1 DEF Loop
<1>3. ReadsAt(s, p, p.end, tag)
  BY DEF ReadsAt
<1>4. PICK group, closing : /\ group = Said(s, tag.index, p.end, inner)
                            /\ closing = readTag(s, group.close, p.end, MaxTag)
  OBVIOUS
<1> DEFINE X == Stores(p.index, typed, closing.index, inner, group.unknown)
<1>5. group.close # None /\ closing.number = tag.number =>
          Continues(s, p.index, p.end, typed, closing.index, X)
  <2>1. inner = (typed /\ tag.number \in GroupField) /\ ~Wrong(tag, typed)
    BY <1>1, Zenon
  <2>2. QED
    BY <1>2, <1>3, <1>4, <2>1, GroupContinues
<1> HIDE DEF X
<1>6. Loop(call) = inner /\ call.does # "message" /\ call.number = tag.number
  <2>1. CASE call.does = "group"
    <3>1. inner = TRUE /\ Loop(call) = TRUE /\ call.number = tag.number
      BY <2>1 DEF Opens, Loop
    <3>2. QED
      BY <2>1, <3>1
  <2>2. CASE call.does = "skip"
    <3>1. inner = FALSE /\ Loop(call) = FALSE /\ call.number = tag.number
      BY <2>2 DEF Opens, Loop
    <3>2. QED
      BY <2>2, <3>1
  <2>3. QED
    BY <2>1, <2>2, Zenon DEF Opens
<1>7. LeadsAt(s, gen, call, pp, m, p.end)
  BY Zenon DEF Leads, Wides
<1>8. Closed(s, call, pp, m, p.end, group, closing)
  BY <1>4, <1>6, <1>7, Zenon DEF LeadsAt, LeadsBy
<1>9. /\ group.close # None /\ closing.number = tag.number
      /\ m.index = closing.index /\ m.end = p.end
      /\ m.kept = p.kept \cup GroupStores(s, call, group, closing.index, p.end)
  BY <1>6, <1>8, Zenon DEF Closed
<1>10. GroupStores(s, call, group, closing.index, p.end) = X
  <2>1. StoresField(s, c, call, p, inner, p.end, group, group, closing.index)
    BY <1>2, <1>4, OpensStores, Zenon
  <2>2. QED
    BY <1>1, <2>1, Zenon DEF StoresField, X
<1>11. m.kept = p.kept \cup X
  BY <1>9, <1>10, Zenon
<1>12. typed \/ X = {}
  <2>1. inner => typed
    BY <1>1
  <2>2. QED
    BY <2>1, Zenon DEF X, Stores
<1>13. Continues(s, p.index, p.end, Loop(c), closing.index, X) /\ (Loop(c) \/ X = {})
  BY <1>1, <1>5, <1>9, <1>12, Zenon
<1>14. LeadsAt(s, gen, c, m, q, p.end)
  BY <1>9, Zenon DEF Leads, Wides
<1>15. LeadsAt(s, gen, c, p, q, p.end)
  BY <1>9, <1>11, <1>13, <1>14, FieldLeads, Zenon
<1>16. QED
  BY <1>15, Zenon DEF Leads, Spot

-----------------------------------------------------------------------------
(* The end of an activation *)

LEMMA EqualReadings ==
    ASSUME NEW p \in Reading, NEW q \in Reading,
           p.index = q.index, p.end = q.end, p.kept = q.kept
    PROVE  p = q
  BY DEF Reading

\* At the end tag of the group: closed there, with nothing else to store.
EndsThere(s, gen, c, p, q, w, tag) ==
    \E g : /\ g = Said(s, p.index, w, Loop(c))
           /\ g.close = p.index /\ g.close # None /\ g.unknown = {}
           /\ LeadsAt(s, gen, c, p, q, w) <=> Closed(s, c, p, q, w, g, tag)

LEMMA EndLeads ==
    ASSUME NEW s, NEW gen, NEW c, NEW p, NEW w, Spot(s, gen, p, w),
           NEW tag, ReadsAt(s, p, w, tag), tag.wire_type = EndGroup, p.index # w,
           c.does # "message", NEW q
    PROVE  EndsThere(s, gen, c, p, q, w, tag)
<1>1. PICK typed, g : typed = Loop(c) /\ g = Said(s, p.index, w, typed)
  OBVIOUS
<1>2. typed \in BOOLEAN
  BY <1>1 DEF Loop
<1>3. tag = readTag(s, p.index, w, MaxTag) /\ tag.ok
  BY Zenon DEF ReadsAt
<1>4. s \in Seq(Byte) /\ Place(s, p.index, w) /\ p.index \in Nat
  BY SpotMeans, Zenon
<1>5. Closes(s, p.index, w, typed)
  BY <1>2, <1>3, <1>4, CloseMeans, Zenon
<1>6. g.close = p.index /\ g.unknown = {}
  BY <1>1, <1>5, Zenon DEF Closes
<1>7. g.close # None
  BY <1>4, <1>6 DEF None
<1>8. LeadsAt(s, gen, c, p, q, w) <=> Closed(s, c, p, q, w, g, tag)
  BY <1>1, <1>3, <1>6, Zenon DEF LeadsAt, LeadsBy
<1>9. QED
  BY <1>1, <1>6, <1>7, <1>8, Zenon DEF EndsThere

\* What is stored at the end of a group that is read in place, or skipped.
EndStores(c, to) ==
    IF c.does = "skip" /\ c.keep THEN {[from |-> c.from, to |-> to]} ELSE {}

LEMMA EndStoresIs ==
    ASSUME NEW s, NEW c, c.does = "group" \/ c.does = "skip", NEW g, g.unknown = {},
           NEW j, NEW w
    PROVE  GroupStores(s, c, g, j, w) = EndStores(c, j)
<1>1. CASE c.does = "group"
  <2>1. Loop(c) /\ c.does # "skip"
    BY <1>1 DEF Loop
  <2>2. QED
    BY <2>1, Zenon DEF GroupStores, EndStores
<1>2. CASE c.does = "skip"
  <2>1. ~Loop(c) /\ c.does # "bytes"
    BY <1>2 DEF Loop
  <2>2. QED
    BY <1>2, <2>1, Zenon DEF GroupStores, EndStores
<1>3. QED
  BY <1>1, <1>2

LEMMA GroupEnds ==
    ASSUME NEW s, NEW gen, NEW c, c.does = "group" \/ c.does = "skip",
           NEW p, NEW q \in Reading, NEW w, Spot(s, gen, p, w),
           NEW tag, tag = readTag(s, p.index, p.end, MaxTag), tag.ok,
           tag.wire_type = EndGroup,
           NEW pp \in Reading, pp.index = tag.index, pp.end = p.end,
           pp.kept = p.kept \cup EndStores(c, tag.index),
           LeadsAt(s, gen, c, p, q, w)
    PROVE  q = pp /\ tag.number = c.number
<1>1. ReadsAt(s, p, w, tag) /\ p.index # w
  BY Alive, Zenon
<1>2. c.does # "message"
  OBVIOUS
<1>3. PICK g : /\ g.unknown = {}
               /\ LeadsAt(s, gen, c, p, q, w) <=> Closed(s, c, p, q, w, g, tag)
  <2>1. EndsThere(s, gen, c, p, q, w, tag)
    BY <1>1, <1>2, EndLeads, Zenon
  <2>2. QED
    BY <2>1, Zenon DEF EndsThere
<1>4. Closed(s, c, p, q, w, g, tag)
  BY <1>3, Zenon
<1>5. GroupStores(s, c, g, tag.index, w) = EndStores(c, tag.index)
  BY <1>3, EndStoresIs
<1>6. /\ tag.number = c.number /\ q.index = pp.index /\ q.end = pp.end
      /\ q.kept = pp.kept
  BY <1>4, <1>5, Zenon DEF Closed
<1>7. QED
  BY <1>6, EqualReadings

LEMMA GroupEndsBack ==
    ASSUME NEW s, NEW gen, NEW c, c.does = "group" \/ c.does = "skip",
           NEW p, Spot(s, gen, p, p.end),
           NEW tag, tag = readTag(s, p.index, p.end, MaxTag), tag.ok,
           tag.wire_type = EndGroup, tag.number = c.number,
           NEW pp \in Reading, pp.index = tag.index, pp.end = p.end,
           pp.kept = p.kept \cup EndStores(c, tag.index)
    PROVE  Leads(s, gen, c, p, pp)
<1>1. ReadsAt(s, p, p.end, tag)
  BY DEF ReadsAt
<1>2. tag.index <= p.end /\ p.index # p.end
  <2>1. /\ s \in Seq(Byte) /\ p.index \in Nat /\ p.end \in Nat
        /\ p.index <= p.end /\ p.end <= Len(s)
    BY SpotMeans, Zenon
  <2>2. tag.index \in Nat /\ p.index < tag.index /\ tag.index <= p.end
    BY <2>1, TagInside
  <2>3. QED
    BY <2>1, <2>2
<1>3. c.does # "message" /\ c.does # "bytes"
  OBVIOUS
<1>4. PICK g : /\ g.close # None /\ g.unknown = {}
               /\ LeadsAt(s, gen, c, p, pp, p.end) <=> Closed(s, c, p, pp, p.end, g, tag)
  <2>1. EndsThere(s, gen, c, p, pp, p.end, tag)
    BY <1>1, <1>2, <1>3, EndLeads, Zenon
  <2>2. QED
    BY <2>1, Zenon DEF EndsThere
<1>5. GroupStores(s, c, g, tag.index, p.end) = EndStores(c, tag.index)
  BY <1>4, EndStoresIs
<1>6. Closed(s, c, p, pp, p.end, g, tag)
  BY <1>2, <1>3, <1>4, <1>5, Zenon DEF Closed
<1>7. QED
  BY <1>4, <1>6, Zenon DEF Leads, Spot

\* The end of another group, or of none.
LEMMA WrongEndStops ==
    ASSUME NEW s, NEW gen, ~gen, NEW c, NEW p, NEW q \in Reading, Spot(s, gen, p, p.end),
           NEW tag, tag = readTag(s, p.index, p.end, MaxTag), tag.ok,
           tag.wire_type = EndGroup, c.does # "message" => tag.number # c.number
    PROVE  ~LeadsAt(s, gen, c, p, q, p.end)
<1> SUFFICES ASSUME LeadsAt(s, gen, c, p, q, p.end) PROVE FALSE
  OBVIOUS
<1>1. ReadsAt(s, p, p.end, tag) /\ p.index # p.end /\ c.does # "message"
  BY Alive, Zenon
<1>2. PICK g : LeadsAt(s, gen, c, p, q, p.end) <=> Closed(s, c, p, q, p.end, g, tag)
  <2>1. EndsThere(s, gen, c, p, q, p.end, tag)
    BY <1>1, EndLeads, Zenon
  <2>2. QED
    BY <2>1, Zenon DEF EndsThere
<1>3. QED
  BY <1>1, <1>2, Zenon DEF Closed

\* A slice begins with a whole field, with an end tag, or with neither.
Begins(s, i, w, typed) ==
    \/ Said(s, i, w, typed) = NoField
    \/ Closes(s, i, w, typed)
    \/ \E to \in Nat : \E X : i < to /\ to <= w /\ Continues(s, i, w, typed, to, X)

LEMMA BeginsSo ==
    ASSUME NEW s \in Seq(Byte), NEW i, NEW w, Place(s, i, w), i # w, NEW typed \in BOOLEAN
    PROVE  Begins(s, i, w, typed)
<1>1. PICK tag : tag = readTag(s, i, w, MaxTag)
  OBVIOUS
<1>2. i \in Nat /\ w \in Nat /\ i <= w /\ w <= Len(s)
  BY DEF Place
<1>3. CASE ~tag.ok \/ (tag.wire_type # EndGroup /\ Wrong(tag, typed))
  BY <1>1, <1>3, NoneMeans, Zenon DEF Begins
<1>4. CASE tag.ok /\ tag.wire_type = EndGroup
  BY <1>1, <1>4, CloseMeans, Zenon DEF Begins
<1>5. CASE tag.ok /\ tag.wire_type = StartGroup /\ ~Wrong(tag, typed)
  <2>1. PICK inner, group, closing :
            /\ inner = (typed /\ tag.number \in GroupField)
            /\ group = Said(s, tag.index, w, inner)
            /\ closing = readTag(s, group.close, w, MaxTag)
    OBVIOUS
  <2>2. /\ group.close # None /\ closing.number = tag.number =>
                Continues(s, i, w, typed, closing.index,
                          Stores(i, typed, closing.index, inner, group.unknown))
        /\ ~(group.close # None /\ closing.number = tag.number) =>
                Said(s, i, w, typed) = NoField
        /\ group.close # None =>
                /\ closing.index \in Nat /\ tag.index <= group.close
                /\ group.close < closing.index /\ closing.index <= w
    BY <1>1, <1>5, <2>1, GroupMeans
  <2>3. CASE group.close # None /\ closing.number = tag.number
    <3>1. tag.index \in Nat /\ i < tag.index /\ tag.index <= w
      BY <1>1, <1>2, <1>5, TagInside
    <3>2. group.close \in Int
      <4>1. Place(s, tag.index, w) /\ inner \in BOOLEAN
        BY <1>2, <2>1, <3>1 DEF Place
      <4>2. group \in Result
        BY <2>1, <4>1, Formed, Zenon
      <4>3. QED
        BY <4>2 DEF Result
    <3>3. i < closing.index /\ closing.index \in Nat /\ closing.index <= w
      BY <1>2, <2>2, <2>3, <3>1, <3>2
    <3>4. QED
      BY <2>2, <2>3, <3>3, Zenon DEF Begins
  <2>4. QED
    BY <2>2, <2>3, Zenon DEF Begins
<1>6. CASE /\ tag.ok /\ tag.wire_type # StartGroup /\ tag.wire_type # EndGroup
           /\ ~Wrong(tag, typed) /\ typed /\ tag.number \in MessageField
  <2>1. PICK known, payload, message :
            /\ known = (typed /\ tag.number \in MessageField)
            /\ payload = readBytes(s, tag.index, w)
            /\ message = Said(s, payload.start, payload.index, known)
    OBVIOUS
  <2>2. tag.wire_type = LengthDelimited /\ known
    BY <1>6, <2>1 DEF Wrong
  <2>3. /\ payload.ok /\ message.done =>
                Continues(s, i, w, typed, payload.index, message.unknown)
        /\ ~(payload.ok /\ message.done) => Said(s, i, w, typed) = NoField
    BY <1>1, <1>6, <2>1, <2>2, MessageMeans
  <2>4. tag.index \in Nat /\ i < tag.index /\ tag.index <= w
    BY <1>1, <1>2, <1>6, TagInside
  <2>5. payload.index \in Nat /\ i < payload.index /\ payload.index <= w
    <3>1. payload.start \in Nat /\ payload.index \in Nat /\ tag.index <= payload.start
          /\ payload.start <= payload.index /\ payload.index <= w
      BY <1>2, <2>1, <2>4, BytesInside
    <3>2. QED
      BY <1>2, <2>4, <3>1
  <2>6. QED
    BY <2>3, <2>5, Zenon DEF Begins
<1>7. CASE /\ tag.ok /\ tag.wire_type # StartGroup /\ tag.wire_type # EndGroup
           /\ ~Wrong(tag, typed) /\ ~(typed /\ tag.number \in MessageField)
  <2>1. PICK known, value :
            /\ known = (typed /\ tag.number \in ScalarField)
            /\ value = skipValue(s, tag.index, w, tag.wire_type)
    OBVIOUS
  <2>2. /\ value.ok => Continues(s, i, w, typed, value.index,
                                 Stores(i, typed, value.index, known, {}))
        /\ ~value.ok => Said(s, i, w, typed) = NoField
        /\ value.index \in Nat /\ i < value.index /\ value.index <= w
    BY <1>1, <1>7, <2>1, ValueMeans
  <2>3. QED
    BY <2>2, Zenon DEF Begins
<1>8. QED
  BY <1>3, <1>4, <1>5, <1>6, <1>7

\* Where the end tag comes at once, nothing is stored before it.
LEMMA CloseAtOnce ==
    ASSUME NEW s \in Seq(Byte), NEW i, NEW w, Place(s, i, w), i # w, NEW typed \in BOOLEAN,
           NEW g, g = Said(s, i, w, typed), g.close = i
    PROVE  g.unknown = {}
<1>1. i \in Nat /\ i # None /\ w \in Nat /\ w <= Len(s)
  BY DEF Place, None
<1>2. CASE Said(s, i, w, typed) = NoField
  BY <1>1, <1>2 DEF NoField
<1>3. CASE Closes(s, i, w, typed)
  BY <1>3, Zenon DEF Closes
<1>4. ASSUME NEW to \in Nat, NEW X, i < to, to <= w, Continues(s, i, w, typed, to, X)
      PROVE  FALSE
  <2>1. Place(s, to, w)
    BY <1>1, <1>4 DEF Place
  <2>2. PICK h : h = Said(s, to, w, typed)
    OBVIOUS
  <2>3. WellFormed(s, to, w, h) /\ h \in Result
    BY <2>1, <2>2, Formed, Zenon
  <2>4. h.close = i
    BY <1>4, <2>2, Zenon DEF Continues
  <2>5. to <= h.close
    BY <1>1, <2>3, <2>4, Zenon DEF WellFormed
  <2>6. QED
    BY <1>1, <1>4, <2>4, <2>5
<1>5. QED
  BY <1>2, <1>3, <1>4, BeginsSo, Zenon DEF Begins

\* A message that is read is at its end.
LEMMA MessageEnds ==
    ASSUME NEW s, NEW gen, NEW c, c.does = "message", NEW p, NEW q \in Reading, NEW w,
           Spot(s, gen, p, w), p.index = p.end,
           NEW pp \in Reading, pp.index = c.index, pp.end = c.end, pp.kept = p.kept,
           LeadsAt(s, gen, c, p, q, w)
    PROVE  q = pp
<1>1. PICK typed, g : typed = Loop(c) /\ g = Said(s, p.index, w, typed)
  OBVIOUS
<1>2. typed \in BOOLEAN
  BY <1>1 DEF Loop
<1>3. /\ s \in Seq(Byte) /\ p.index \in Nat /\ w \in Nat /\ w <= Len(s)
      /\ Place(s, p.index, w) /\ p.end \in Nat
  BY SpotMeans, Zenon
<1>4. PICK closing : Fills(gen, c, p, q, w, g, closing)
  BY <1>1, Zenon DEF LeadsAt, LeadsBy
<1>5. /\ q.index = c.index /\ q.end = c.end /\ q.kept = p.kept \cup g.unknown
      /\ w = p.end \/ (g.close # None /\ g.close <= p.end)
  BY <1>4, Zenon DEF Fills
<1>6. g.unknown = {}
  <2>1. CASE w = p.index
    <3>1. w \in 0 .. Len(s)
      BY <1>3, <2>1 DEF Place
    <3>2. QED
      BY <1>1, <1>2, <1>3, <2>1, <3>1, EndMeans, Zenon
  <2>2. CASE w # p.index
    <3>1. g.close # None /\ g.close <= p.index
      BY <1>5, <2>2
    <3>2. WellFormed(s, p.index, w, g) /\ g \in Result
      BY <1>1, <1>2, <1>3, Formed, Zenon
    <3>3. p.index <= g.close
      BY <3>1, <3>2, Zenon DEF WellFormed
    <3>4. g.close \in Int
      BY <3>2 DEF Result
    <3>5. g.close = p.index
      BY <1>3, <3>1, <3>3, <3>4
    <3>6. QED
      BY <1>1, <1>2, <1>3, <2>2, <3>5, CloseAtOnce, Zenon
  <2>3. QED
    BY <2>1, <2>2
<1>7. q.index = pp.index /\ q.end = pp.end /\ q.kept = pp.kept
  BY <1>5, <1>6
<1>8. QED
  BY <1>7, EqualReadings

LEMMA MessageEndsBack ==
    ASSUME NEW s, NEW gen, NEW c, c.does = "message", NEW p,
           Spot(s, gen, p, p.end), p.index = p.end,
           NEW pp, pp.index = c.index, pp.end = c.end, pp.kept = p.kept
    PROVE  Leads(s, gen, c, p, pp)
<1>1. PICK typed, g : typed = Loop(c) /\ g = Said(s, p.index, p.end, typed)
  OBVIOUS
<1>2. typed \in BOOLEAN
  BY <1>1 DEF Loop
<1>3. s \in Seq(Byte) /\ p.end \in 0 .. Len(s)
  <2>1. s \in Seq(Byte) /\ Place(s, p.end, p.end)
    BY SpotMeans, Zenon
  <2>2. QED
    BY <2>1, Zenon DEF Place
<1>4. g.done = TRUE /\ g.unknown = {}
  BY <1>1, <1>2, <1>3, EndMeans, Zenon
<1>5. pp.kept = p.kept \cup g.unknown
  BY <1>4
<1>6. ASSUME NEW closing PROVE Fills(gen, c, p, pp, p.end, g, closing)
  BY <1>4, <1>5, Zenon DEF Fills
<1>7. LeadsAt(s, gen, c, p, pp, p.end)
  BY <1>1, <1>6, Zenon DEF LeadsAt, LeadsBy
<1>8. QED
  BY <1>7, Zenon DEF Leads, Spot

\* The message of a group whose end was found: in the slice before the end tag,
\* or before its canonical form.
LEMMA BytesEnd ==
    ASSUME NEW s, NEW gen, gen, NEW c, c.does = "bytes",
           NEW p, NEW q, NEW w, Spot(s, gen, p, w),
           NEW tag, tag = readTag(s, p.index, p.end, MaxTag), tag.ok,
           tag.wire_type = EndGroup,
           NEW call, call = MessageCall(tag.index, p.end),
           NEW pp, pp.index = c.from, pp.end = tag.index - tagSize(tag.number),
           pp.kept = p.kept,
           LeadsAt(s, gen, c, p, q, w)
    PROVE  Leads(s, gen, call, pp, q)
<1>1. PICK typed : typed = TRUE
  OBVIOUS
<1>2. ReadsAt(s, p, w, tag) /\ p.index # w
  BY Alive, Zenon
<1>3. tag = readTag(s, p.index, w, MaxTag)
  BY <1>2, Zenon DEF ReadsAt
<1>4. c.does # "message"
  OBVIOUS
<1>5. PICK g : /\ g.close = p.index /\ g.close # None
               /\ LeadsAt(s, gen, c, p, q, w) <=> Closed(s, c, p, q, w, g, tag)
  <2>1. EndsThere(s, gen, c, p, q, w, tag)
    BY <1>2, <1>4, EndLeads, Zenon
  <2>2. QED
    BY <2>1, Zenon DEF EndsThere
<1>6. PICK message : message = Said(s, c.from, w, typed)
  OBVIOUS
<1>7. /\ message.close = p.index /\ q.index = tag.index /\ q.end = p.end
      /\ q.kept = p.kept \cup message.unknown
  <2>1. message = Said(s, c.from, w, TRUE)
    BY <1>1, <1>6
  <2>2. ~Loop(c)
    BY DEF Loop
  <2>3. Closed(s, c, p, q, w, g, tag)
    BY <1>5, Zenon
  <2>4. GroupStores(s, c, g, tag.index, w) = message.unknown
    BY <2>1, <2>2, Zenon DEF GroupStores
  <2>5. QED
    BY <1>5, <2>1, <2>3, <2>4, Zenon DEF Closed
<1>8. /\ p.index \in Nat /\ p.end \in Nat /\ p.end <= w /\ w \in Nat /\ w <= Len(s)
      /\ s \in Seq(Byte) /\ p.index <= p.end /\ p.end <= Len(s) /\ Len(s) \in Nat
  BY SpotMeans, Zenon
<1>9. /\ tag.index \in Nat /\ tag.index <= p.end /\ tagSize(tag.number) \in 1 .. 5
      /\ tagSize(tag.number) <= tag.index - p.index
  BY <1>8, TagInside
<1>10. p.index <= pp.end /\ pp.end < tag.index /\ pp.end <= w
  BY <1>8, <1>9
<1>11. call.does = "message" /\ call.index = tag.index /\ call.end = p.end
  BY DEF MessageCall
<1>12. Loop(call) = typed
  BY <1>1, <1>11 DEF Loop
<1>13. Fills(gen, call, pp, q, w, message, tag)
  BY <1>5, <1>7, <1>10, <1>11, Zenon DEF Fills
<1>14. LeadsAt(s, gen, call, pp, q, w)
  BY <1>3, <1>6, <1>7, <1>11, <1>12, <1>13, Zenon DEF LeadsAt, LeadsBy
<1>15. w \in Wides(s, gen, pp.end)
  BY <1>8, <1>9, <1>10 DEF Wides
<1>16. QED
  BY <1>14, <1>15, Zenon DEF Leads

-----------------------------------------------------------------------------
(* Where a step leads, for every message its slice may be read for *)

Base(s, p) == /\ s \in Seq(Byte) /\ p \in Reading
              /\ p.index <= p.end /\ p.end <= Len(s)

LEMMA BaseSpots ==
    ASSUME NEW s, NEW gen, NEW p, Base(s, p)
    PROVE  /\ \A w \in Wides(s, gen, p.end) : Spot(s, gen, p, w)
           /\ Spot(s, gen, p, p.end)
<1>1. s \in Seq(Byte) /\ p \in Reading /\ p.index <= p.end /\ p.end <= Len(s)
  BY Zenon DEF Base
<1>2. p.end \in Nat /\ Len(s) \in Nat
  BY <1>1 DEF Reading
<1>3. p.end \in Wides(s, gen, p.end)
  BY <1>1, <1>2 DEF Wides
<1>4. QED
  BY <1>1, <1>3, Zenon DEF Spot

\* Without such messages there is the slice.
LEMMA LeadsHere ==
    ASSUME NEW s, NEW gen, ~gen, NEW c, NEW p, NEW q
    PROVE  Leads(s, gen, c, p, q) <=> LeadsAt(s, gen, c, p, q, p.end)
  BY Zenon DEF Leads, Wides

VarintOf(s, i, e) == skipValue(s, i, e, Varint) = readVarint(s, i, e)

LEMMA VarintSkipped == ASSUME NEW s, NEW i, NEW e PROVE VarintOf(s, i, e)
  BY DEF skipValue, VarintOf, Varint, Fixed64, Fixed32

LEMMA ScalarKnown ==
    ASSUME NEW c, Loop(c), NEW tag, tag.number \in ScalarField, tag.wire_type = Varint
    PROVE  /\ tag.wire_type # StartGroup /\ tag.wire_type # EndGroup
           /\ ~(Loop(c) /\ tag.number \in MessageField) /\ ~Wrong(tag, Loop(c))
           /\ TRUE = (Loop(c) /\ tag.number \in ScalarField)
<1>1. tag.number \notin MessageField /\ tag.number \notin GroupField
  BY FieldAssumption
<1>2. tag.wire_type # StartGroup /\ tag.wire_type # EndGroup
  BY DEF Varint, StartGroup, EndGroup
<1>3. ~Wrong(tag, Loop(c))
  BY <1>1, Zenon DEF Wrong
<1>4. TRUE = (Loop(c) /\ tag.number \in ScalarField)
  OBVIOUS
<1>5. QED
  BY <1>1, <1>2, <1>3, <1>4, Zenon

LEMMA ScalarLeads ==
    ASSUME NEW s, NEW gen, NEW c, NEW p, NEW q, Base(s, p),
           NEW tag, tag = readTag(s, p.index, p.end, MaxTag), tag.ok,
           Loop(c), tag.number \in ScalarField,
           tag.wire_type = Varint \/ c.does = "message",
           NEW value, value = readVarint(s, tag.index, p.end), value.ok,
           NEW pp, pp.index = value.index, pp.end = p.end, pp.kept = p.kept,
           Leads(s, gen, c, p, q)
    PROVE  Leads(s, gen, c, pp, q)
<1>1. PICK w \in Wides(s, gen, p.end) : LeadsAt(s, gen, c, p, q, w)
  BY Zenon DEF Leads
<1>2. Spot(s, gen, p, w)
  BY BaseSpots, Zenon
<1>3. /\ tag.wire_type = EndGroup => c.does # "message"
      /\ tag.wire_type # EndGroup => ~Wrong(tag, Loop(c))
  BY <1>1, <1>2, Alive, Zenon
<1>4. tag.wire_type = Varint
  <2>1. CASE c.does = "message"
    BY <1>3, <2>1, Zenon DEF Wrong
  <2>2. QED
    BY <2>1, Zenon
<1>5. PICK known : known = (Loop(c) /\ tag.number \in ScalarField)
  OBVIOUS
<1>6. /\ tag.wire_type # StartGroup /\ tag.wire_type # EndGroup /\ known
      /\ ~(Loop(c) /\ tag.number \in MessageField)
  BY <1>4, <1>5, ScalarKnown
<1>7. value = skipValue(s, tag.index, p.end, tag.wire_type)
  BY <1>4, VarintSkipped DEF VarintOf
<1>8. pp.kept = p.kept \cup Stores(p.index, Loop(c), value.index, known, {})
  BY <1>6 DEF Stores
<1>9. LeadsAt(s, gen, c, pp, q, w)
  <2>1. Passes(s, c, p, pp, tag, value, known)
    BY <1>5, <1>6, <1>7, <1>8, Zenon DEF Passes
  <2>2. ValueGoes(s, gen, c, p, pp, q, w, tag)
    BY <1>2, <2>1, ValueLeads, Zenon
  <2>3. QED
    BY <1>1, <2>2, Zenon DEF ValueGoes
<1>10. QED
  BY <1>9, Zenon DEF Leads

LEMMA ScalarBack ==
    ASSUME NEW s, NEW gen, ~gen, NEW c, NEW p, NEW q, Base(s, p),
           NEW tag, tag = readTag(s, p.index, p.end, MaxTag), tag.ok,
           Loop(c), tag.number \in ScalarField, tag.wire_type = Varint,
           NEW value, value = readVarint(s, tag.index, p.end), value.ok,
           NEW pp, pp.index = value.index, pp.end = p.end, pp.kept = p.kept,
           Leads(s, gen, c, pp, q)
    PROVE  Leads(s, gen, c, p, q)
<1>1. LeadsAt(s, gen, c, pp, q, p.end)
  BY LeadsHere, Zenon
<1>2. Spot(s, gen, p, p.end)
  BY BaseSpots, Zenon
<1>3. PICK known : known = (Loop(c) /\ tag.number \in ScalarField)
  OBVIOUS
<1>4. /\ tag.wire_type # StartGroup /\ tag.wire_type # EndGroup /\ known
      /\ ~(Loop(c) /\ tag.number \in MessageField) /\ ~Wrong(tag, Loop(c))
  BY <1>3, ScalarKnown
<1>5. value = skipValue(s, tag.index, p.end, tag.wire_type)
  BY VarintSkipped DEF VarintOf
<1>6. pp.kept = p.kept \cup Stores(p.index, Loop(c), value.index, known, {})
  BY <1>4 DEF Stores
<1>7. LeadsAt(s, gen, c, p, q, p.end)
  <2>1. Passes(s, c, p, pp, tag, value, known)
    BY <1>3, <1>4, <1>5, <1>6, Zenon DEF Passes
  <2>2. ValueGoes(s, gen, c, p, pp, q, p.end, tag)
    BY <1>2, <2>1, ValueLeads, Zenon
  <2>3. QED
    BY <1>1, <1>4, <2>2, Zenon DEF ValueGoes
<1>8. QED
  BY <1>7, LeadsHere, Zenon

LEMMA ScalarStops ==
    ASSUME NEW s, NEW gen, ~gen, NEW c, NEW p, NEW q, Base(s, p),
           NEW tag, tag = readTag(s, p.index, p.end, MaxTag), tag.ok,
           Loop(c), tag.number \in ScalarField, tag.wire_type = Varint,
           ~readVarint(s, tag.index, p.end).ok
    PROVE  ~Leads(s, gen, c, p, q)
<1>1. Spot(s, gen, p, p.end)
  BY BaseSpots, Zenon
<1>2. /\ tag.wire_type # StartGroup /\ tag.wire_type # EndGroup
      /\ ~(Loop(c) /\ tag.number \in MessageField) /\ ~Wrong(tag, Loop(c))
  BY ScalarKnown
<1>3. ~skipValue(s, tag.index, p.end, tag.wire_type).ok
  BY VarintSkipped DEF VarintOf
<1>4. ~LeadsAt(s, gen, c, p, q, p.end)
  BY <1>1, <1>2, <1>3, ValueStops, Zenon
<1>5. QED
  BY <1>4, LeadsHere, Zenon

\* A field the message does not have, or any field in a group being skipped.
Undeclared(c, tag) ==
    Loop(c) => /\ tag.number \notin ScalarField
               /\ tag.number \notin MessageField
               /\ tag.number \notin GroupField

\* What is stored of it.
SkipStores(c, i, j) == IF Loop(c) THEN {[from |-> i, to |-> j]} ELSE {}

LEMMA UndeclaredIs ==
    ASSUME NEW c, NEW tag, Undeclared(c, tag)
    PROVE  /\ ~(Loop(c) /\ tag.number \in MessageField) /\ ~Wrong(tag, Loop(c))
           /\ ~(Loop(c) /\ tag.number \in ScalarField)
           /\ ~(Loop(c) /\ tag.number \in GroupField)
  BY Zenon DEF Undeclared, Wrong

LEMMA SkipLeads ==
    ASSUME NEW s, NEW gen, NEW c, NEW p, NEW q, Base(s, p),
           NEW tag, tag = readTag(s, p.index, p.end, MaxTag), tag.ok, Undeclared(c, tag),
           tag.wire_type # StartGroup, tag.wire_type # EndGroup,
           NEW value, value = skipValue(s, tag.index, p.end, tag.wire_type), value.ok,
           NEW pp, pp.index = value.index, pp.end = p.end,
           pp.kept = p.kept \cup SkipStores(c, p.index, value.index)
    PROVE  /\ Leads(s, gen, c, p, q) => Leads(s, gen, c, pp, q)
           /\ ~gen => (Leads(s, gen, c, pp, q) => Leads(s, gen, c, p, q))
<1>1. PICK known : known = (Loop(c) /\ tag.number \in ScalarField)
  OBVIOUS
<1>2. ~(Loop(c) /\ tag.number \in MessageField) /\ ~Wrong(tag, Loop(c))
  BY UndeclaredIs, Zenon
<1>3. pp.kept = p.kept \cup Stores(p.index, Loop(c), value.index, known, {})
  <2>1. ~known
    BY <1>1, UndeclaredIs, Zenon
  <2>2. QED
    BY <2>1, Zenon DEF Stores, SkipStores
<1>4. ASSUME NEW w, Spot(s, gen, p, w) PROVE ValueGoes(s, gen, c, p, pp, q, w, tag)
  <2>1. Passes(s, c, p, pp, tag, value, known)
    BY <1>1, <1>2, <1>3, Zenon DEF Passes
  <2>2. QED
    BY <1>4, <2>1, ValueLeads, Zenon
<1>5. Leads(s, gen, c, p, q) => Leads(s, gen, c, pp, q)
  BY <1>4, BaseSpots, Zenon DEF Leads, ValueGoes
<1>6. ASSUME ~gen, Leads(s, gen, c, pp, q) PROVE Leads(s, gen, c, p, q)
  <2>1. LeadsAt(s, gen, c, pp, q, p.end)
    BY <1>6, LeadsHere, Zenon
  <2>2. Spot(s, gen, p, p.end)
    BY BaseSpots, Zenon
  <2>3. LeadsAt(s, gen, c, p, q, p.end)
    BY <1>2, <1>4, <2>1, <2>2, Zenon DEF ValueGoes
  <2>4. QED
    BY <1>6, <2>3, LeadsHere, Zenon
<1>7. QED
  BY <1>5, <1>6, Zenon

LEMMA SkipStops ==
    ASSUME NEW s, NEW gen, ~gen, NEW c, NEW p, NEW q, Base(s, p),
           NEW tag, tag = readTag(s, p.index, p.end, MaxTag), tag.ok, Undeclared(c, tag),
           tag.wire_type # StartGroup, tag.wire_type # EndGroup,
           ~skipValue(s, tag.index, p.end, tag.wire_type).ok
    PROVE  ~Leads(s, gen, c, p, q)
<1>1. Spot(s, gen, p, p.end)
  BY BaseSpots, Zenon
<1>2. ~(Loop(c) /\ tag.number \in MessageField) /\ ~Wrong(tag, Loop(c))
  BY UndeclaredIs, Zenon
<1>3. ~LeadsAt(s, gen, c, p, q, p.end)
  BY <1>1, <1>2, ValueStops, Zenon
<1>4. QED
  BY <1>3, LeadsHere, Zenon

-----------------------------------------------------------------------------
(* The invariant: what is left of the decode is what is left of the grammar *)

Generated(d) == d = "generated"

Means(s) == Said(s, 0, Len(s), TRUE)

\* The activations each decoder has.
Kinds(d, cs) ==
    \A k \in 1 .. Len(cs) : /\ cs[k].does = "bytes" => d = "generated"
                            /\ cs[k].does = "group" => d = "dynamic"

(* A decode of a message comes to that message's unknown fields; one of    *)
(* the dynamic message that comes to any is of a message.                  *)
Tracks(s, d, o, cs, p) ==
    /\ Kinds(d, cs)
    /\ d # "fast" =>
          /\ o = "running" /\ Means(s).done = TRUE =>
                Ends(s, Generated(d), cs, p, Means(s).unknown)
          /\ o = "ok" /\ Means(s).done = TRUE => p.kept = Means(s).unknown
    /\ d = "dynamic" =>
          /\ o = "running" =>
                \A R : Ends(s, Generated(d), cs, p, R) => Means(s).done = TRUE
          /\ o = "ok" => Means(s).done = TRUE
          /\ o = "input" => Means(s).done # TRUE

AtOf(i, e, ks) == [index |-> i, end |-> e, kept |-> ToSet(ks)]

TrackInv == Tracks(input, decoder, outcome, calls, AtOf(index, end, kept))

LEMMA TrackGoes ==
    ASSUME NEW s, NEW d, NEW cs, NEW p, NEW cc, NEW pp, NEW o, o = "running",
           Tracks(s, d, o, cs, p), Kinds(d, cc),
           d # "fast" =>
               \A R : Ends(s, Generated(d), cs, p, R) => Ends(s, Generated(d), cc, pp, R),
           d = "dynamic" =>
               \A R : Ends(s, Generated(d), cc, pp, R) => Ends(s, Generated(d), cs, p, R)
    PROVE  Tracks(s, d, o, cc, pp)
<1>1. o # "ok" /\ o # "input"
  OBVIOUS
<1>2. QED
  BY <1>1, Zenon DEF Tracks

LEMMA TrackFails ==
    ASSUME NEW s, NEW d, NEW cs, NEW p, NEW pp, NEW o, o = "running",
           Tracks(s, d, o, cs, p), NEW error \in {"input", "recursion", "memory"},
           d = "dynamic" /\ error = "input" => \A R : ~Ends(s, Generated(d), cs, p, R)
    PROVE  Tracks(s, d, error, cs, pp)
<1>1. error # "ok" /\ error # "running" /\ (d = "dynamic" => d # "fast")
  OBVIOUS
<1>2. QED
  BY <1>1, Zenon DEF Tracks

LEMMA AtOfSays ==
    ASSUME NEW i \in Nat, NEW e \in Nat, NEW ks \in Seq(Slice), NEW p, p = AtOf(i, e, ks)
    PROVE  p \in Reading /\ p.index = i /\ p.end = e /\ p.kept = ToSet(ks)
<1>1. ToSet(ks) \in SUBSET Slice
  BY DEF ToSet
<1>2. QED
  BY <1>1 DEF AtOf, Reading

LEMMA ToSetMore ==
    ASSUME NEW ks \in Seq(Slice), NEW x \in Slice
    PROVE  ToSet(Append(ks, x)) = ToSet(ks) \cup {x}
<1>1. PICK n : n = Len(ks)
  OBVIOUS
<1>2. n \in Nat
  BY <1>1
<1>3. /\ Len(Append(ks, x)) = n + 1 /\ Append(ks, x)[n + 1] = x
      /\ \A j \in 1 .. n : Append(ks, x)[j] = ks[j]
      /\ DOMAIN Append(ks, x) = 1 .. n + 1 /\ DOMAIN ks = 1 .. n
  BY <1>1, <1>2
<1>4. ASSUME NEW y \in ToSet(Append(ks, x)) PROVE y \in ToSet(ks) \cup {x}
  <2>1. PICK j \in 1 .. n + 1 : y = Append(ks, x)[j]
    BY <1>3, Zenon DEF ToSet
  <2>2. CASE j = n + 1
    BY <1>3, <2>1, <2>2
  <2>3. CASE j # n + 1
    <3>1. j \in 1 .. n
      BY <1>2, <2>3
    <3>2. y = ks[j]
      BY <1>3, <2>1, <3>1
    <3>3. QED
      BY <1>3, <3>1, <3>2, Zenon DEF ToSet
  <2>4. QED
    BY <2>2, <2>3
<1>5. ASSUME NEW y \in ToSet(ks) \cup {x} PROVE y \in ToSet(Append(ks, x))
  <2>1. CASE y = x
    <3>1. n + 1 \in 1 .. n + 1
      BY <1>2
    <3>2. QED
      BY <1>3, <2>1, <3>1, Zenon DEF ToSet
  <2>2. CASE y \in ToSet(ks)
    <3>1. PICK j \in 1 .. n : y = ks[j]
      BY <1>3, <2>2, Zenon DEF ToSet
    <3>2. j \in 1 .. n + 1 /\ y = Append(ks, x)[j]
      BY <1>2, <1>3, <3>1
    <3>3. QED
      BY <1>3, <3>2, Zenon DEF ToSet
  <2>3. QED
    BY <2>1, <2>2
<1>6. QED
  BY <1>4, <1>5, Zenon

LEMMA KindsMore ==
    ASSUME NEW d, NEW cs \in Seq(Activation), NEW c \in Activation, Kinds(d, cs),
           c.does = "bytes" => d = "generated", c.does = "group" => d = "dynamic"
    PROVE  Kinds(d, Append(cs, c))
<1>1. PICK n : n = Len(cs)
  OBVIOUS
<1>2. n \in Nat
  BY <1>1
<1>3. /\ Len(Append(cs, c)) = n + 1 /\ Append(cs, c)[n + 1] = c
      /\ \A j \in 1 .. n : Append(cs, c)[j] = cs[j]
  BY <1>1, <1>2, AppendProperties
<1> SUFFICES ASSUME NEW k \in 1 .. n + 1
             PROVE  /\ Append(cs, c)[k].does = "bytes" => d = "generated"
                    /\ Append(cs, c)[k].does = "group" => d = "dynamic"
  BY <1>3, Zenon DEF Kinds
<1>4. CASE k = n + 1
  BY <1>3, <1>4, Zenon
<1>5. CASE k # n + 1
  <2>1. k \in 1 .. n
    BY <1>2, <1>5
  <2>2. QED
    BY <1>1, <1>3, <2>1, Zenon DEF Kinds
<1>6. QED
  BY <1>4, <1>5

LEMMA KindsFewer ==
    ASSUME NEW d, NEW cs \in Seq(Activation), Len(cs) # 0, Kinds(d, cs)
    PROVE  Kinds(d, Front(cs))
<1>1. PICK n : n = Len(cs)
  OBVIOUS
<1>2. n \in Nat /\ n # 0
  BY <1>1
<1>3. Len(Front(cs)) \in Nat /\ n = Len(Front(cs)) + 1
      /\ \A j \in 1 .. Len(Front(cs)) : Front(cs)[j] = cs[j]
  BY <1>1, JoinedFront, Zenon DEF Joined
<1>4. \A j \in 1 .. Len(Front(cs)) : j \in 1 .. n
  BY <1>2, <1>3
<1>5. QED
  BY <1>1, <1>3, <1>4, Zenon DEF Kinds

\* The running activation is of a kind its decoder has.
LEMMA TopKind ==
    ASSUME NEW d, NEW cs \in Seq(Activation), Len(cs) # 0, Kinds(d, cs)
    PROVE  /\ Last(cs).does = "bytes" => d = "generated"
           /\ Last(cs).does = "group" => d = "dynamic"
<1>1. Len(cs) \in 1 .. Len(cs)
  OBVIOUS
<1>2. QED
  BY <1>1, Zenon DEF Kinds, Last

\* The state, as a reading of the input.
LEMMA Now ==
    ASSUME IInv, NEW p, p = AtOf(index, end, kept)
    PROVE  /\ Base(input, p) /\ p \in Reading
           /\ p.index = index /\ p.end = end /\ p.kept = ToSet(kept)
           /\ kept \in Seq(Slice) /\ index \in Nat /\ end \in Nat
           /\ calls \in Seq(Activation) /\ Len(calls) # 0
           /\ Top \in Activation /\ Top = Last(calls)
           /\ InMessage <=> Loop(Last(calls))
<1>1. /\ input \in Seq(Byte) /\ index \in Nat /\ end \in Nat /\ index <= end
      /\ end <= Len(input) /\ kept \in Seq(Slice)
  BY Zenon DEF IInv, ReaderOK, KeptOK
<1>2. p \in Reading /\ p.index = index /\ p.end = end /\ p.kept = ToSet(kept)
  BY <1>1, AtOfSays
<1>3. /\ calls \in Seq(Activation) /\ Len(calls) # 0 /\ Top \in Activation
      /\ Top = Last(calls)
  BY CallsAre, Zenon
<1>4. InMessage <=> Loop(Last(calls))
  BY <1>3, Zenon DEF InMessage, Loop
<1>5. QED
  BY <1>1, <1>2, <1>3, <1>4, Zenon DEF Base

\* The tag that is read next, by the decoders the grammar is about.
LEMMA TagNow ==
    ASSUME IInv, NEW tag \in NextTag, decoder # "fast"
    PROVE  tag = readTag(input, index, end, MaxTag) /\ tag.ok
<1>1. tag = readTag(input, index, end, LongestTag) /\ tag.ok
  BY TagRead, Zenon
<1>2. LongestTag = MaxTag
  BY Longest, Zenon
<1>3. QED
  BY <1>1, <1>2

LEMMA TrackFailed ==
    ASSUME IInv, TrackInv, outcome = "running", input' = input, decoder' = decoder,
           NEW error \in {"input", "recursion", "memory"}, Fail(error),
           decoder = "dynamic" /\ error = "input" =>
               \A q \in Reading :
                   ~Leads(input, Generated(decoder), Top, AtOf(index, end, kept), q)
    PROVE  TrackInv'
<1>1. PICK p : p = AtOf(index, end, kept)
  OBVIOUS
<1>2. calls' = calls /\ outcome' = error
  BY Zenon DEF Fail
<1>3. /\ p \in Reading /\ calls \in Seq(Activation) /\ Len(calls) # 0
      /\ Top = Last(calls)
  BY <1>1, Now, Zenon
<1>4. decoder = "dynamic" /\ error = "input" =>
          \A R : ~Ends(input, Generated(decoder), calls, p, R)
  BY <1>1, <1>3, Stuck, Zenon
<1>5. Tracks(input, decoder, outcome, calls, p)
  BY <1>1, Zenon DEF TrackInv
<1>6. \A pp : Tracks(input, decoder, error, calls, pp)
  BY <1>4, <1>5, TrackFails, Zenon
<1>7. QED
  BY <1>2, <1>6 DEF TrackInv

-----------------------------------------------------------------------------
(* Every step keeps it *)

\* The running activation goes on behind a field.
LEMMA TrackMoves ==
    ASSUME IInv, IInv', TrackInv, outcome = "running",
           UNCHANGED <<input, decoder, calls, outcome>>,
           NEW p, p = AtOf(index, end, kept), NEW pp, pp = AtOf(index', end', kept'),
           decoder # "fast" =>
               \A q \in Reading : Leads(input, Generated(decoder), Top, p, q) =>
                                      Leads(input, Generated(decoder), Top, pp, q),
           decoder = "dynamic" =>
               \A q \in Reading : Leads(input, Generated(decoder), Top, pp, q) =>
                                      Leads(input, Generated(decoder), Top, p, q)
    PROVE  TrackInv'
<1>1. p \in Reading /\ calls \in Seq(Activation) /\ Len(calls) # 0 /\ Top = Last(calls)
  BY Now, Zenon
<1>2. pp \in Reading
  <2>1. index' \in Nat /\ end' \in Nat /\ kept' \in Seq(Slice)
    BY Zenon DEF IInv, ReaderOK, KeptOK
  <2>2. QED
    BY <2>1, AtOfSays, Zenon
<1>3. PICK gen, cs, d, s, o : /\ gen = Generated(decoder) /\ cs = calls /\ d = decoder
                              /\ s = input /\ o = outcome
  OBVIOUS
<1>4. Tracks(s, d, o, cs, p) /\ Kinds(d, cs) /\ gen = Generated(d) /\ o = "running"
  BY <1>3, Zenon DEF TrackInv, Tracks
<1>5. d # "fast" => \A R : Ends(s, gen, cs, p, R) => Ends(s, gen, cs, pp, R)
  BY <1>1, <1>2, <1>3, MoveEnds, Zenon
<1>6. d = "dynamic" => \A R : Ends(s, gen, cs, pp, R) => Ends(s, gen, cs, p, R)
  BY <1>1, <1>2, <1>3, MoveEnds, Zenon
<1>7. Tracks(s, d, o, cs, pp)
  BY <1>4, <1>5, <1>6, TrackGoes, Zenon
<1>8. QED
  BY <1>3, <1>7, Zenon DEF TrackInv

LEMMA TrackScalar ==
    ASSUME IInv, IInv', TrackInv, NEW tag \in NextTag, ReadScalar(tag)
    PROVE  TrackInv'
<1>1. PICK value, p, pp, gen : /\ value = readVarint(input, tag.index, end)
                               /\ p = AtOf(index, end, kept)
                               /\ pp = AtOf(index', end', kept')
                               /\ gen = Generated(decoder)
  OBVIOUS
<1>2. /\ outcome = "running" /\ input' = input /\ decoder' = decoder /\ kept' = kept
      /\ InMessage /\ tag.number \in ScalarField /\ Goes(value)
      /\ decoder = "generated" \/ tag.wire_type = Varint
  BY <1>1, Zenon DEF ReadScalar, OnTag, Expected
<1>3. /\ Base(input, p) /\ p \in Reading /\ p.index = index /\ p.end = end
      /\ p.kept = ToSet(kept) /\ Loop(Top) /\ calls \in Seq(Activation) /\ Len(calls) # 0
      /\ Top = Last(calls)
  BY <1>1, <1>2, Now, Zenon
<1>4. decoder # "fast" => tag = readTag(input, p.index, p.end, MaxTag) /\ tag.ok
  BY <1>3, TagNow
<1>5. tag.wire_type = Varint \/ Top.does = "message"
  <2>1. Kinds(decoder, calls)
    BY Zenon DEF TrackInv, Tracks
  <2>2. Top.does = "group" => decoder = "dynamic"
    BY <1>3, <2>1, TopKind, Zenon
  <2>3. decoder = "generated" => decoder # "dynamic"
    OBVIOUS
  <2>4. Top.does = "group" \/ Top.does = "message"
    BY <1>2 DEF InMessage
  <2>5. QED
    BY <1>2, <2>2, <2>3, <2>4, Zenon
<1>6. decoder = "dynamic" => ~gen /\ tag.wire_type = Varint /\ decoder # "fast"
  BY <1>1, <1>2 DEF Generated
<1>7. CASE value.ok
  <2>1. /\ index' = value.index /\ calls' = calls /\ end' = end
        /\ outcome' = outcome
    BY <1>2, <1>7, Zenon DEF Goes
  <2>2. pp.index = value.index /\ pp.end = p.end /\ pp.kept = p.kept
    <3>1. index' \in Nat /\ end' \in Nat /\ kept' \in Seq(Slice)
      BY Zenon DEF IInv, ReaderOK, KeptOK
    <3>2. pp.index = index' /\ pp.end = end' /\ pp.kept = ToSet(kept')
      BY <1>1, <3>1, AtOfSays
    <3>3. QED
      BY <1>2, <1>3, <2>1, <3>2
  <2>3. value = readVarint(input, tag.index, p.end)
    BY <1>1, <1>3
  <2>4. ASSUME decoder # "fast", NEW q \in Reading, Leads(input, gen, Top, p, q)
        PROVE  Leads(input, gen, Top, pp, q)
    BY <1>2, <1>3, <1>4, <1>5, <1>7, <2>2, <2>3, <2>4, ScalarLeads
  <2>5. ASSUME decoder = "dynamic", NEW q \in Reading, Leads(input, gen, Top, pp, q)
        PROVE  Leads(input, gen, Top, p, q)
    BY <1>2, <1>3, <1>4, <1>6, <1>7, <2>2, <2>3, <2>5, ScalarBack
  <2>6. QED
    BY <1>1, <1>2, <2>1, <2>4, <2>5, TrackMoves
<1>8. CASE ~value.ok
  <2>1. Fail("input")
    BY <1>2, <1>8, Zenon DEF Goes
  <2>2. ASSUME decoder = "dynamic", NEW q PROVE ~Leads(input, gen, Top, p, q)
    <3>1. ~readVarint(input, tag.index, p.end).ok
      BY <1>1, <1>3, <1>8
    <3>2. QED
      BY <1>2, <1>3, <1>4, <1>6, <2>2, <3>1, ScalarStops, Zenon
  <2>3. QED
    BY <1>1, <1>2, <2>1, <2>2, TrackFailed
<1>9. QED
  BY <1>7, <1>8

LEMMA TrackPushes ==
    ASSUME IInv, IInv', TrackInv, outcome = "running", UNCHANGED <<input, decoder, outcome>>,
           NEW call \in Activation, calls' = Append(calls, call),
           call.does = "bytes" => decoder = "generated",
           call.does = "group" => decoder = "dynamic",
           NEW p, p = AtOf(index, end, kept), NEW pp, pp = AtOf(index', end', kept'),
           decoder # "fast" =>
               \A q \in Reading : Leads(input, Generated(decoder), Top, p, q) =>
                                      Through(input, Generated(decoder), Top, call, pp, q),
           decoder = "dynamic" =>
               \A m, q \in Reading :
                   Leads(input, Generated(decoder), call, pp, m)
                       /\ Leads(input, Generated(decoder), Top, m, q) =>
                       Leads(input, Generated(decoder), Top, p, q)
    PROVE  TrackInv'
<1>1. p \in Reading /\ calls \in Seq(Activation) /\ Len(calls) # 0 /\ Top = Last(calls)
  BY Now, Zenon
<1>2. pp \in Reading
  <2>1. index' \in Nat /\ end' \in Nat /\ kept' \in Seq(Slice)
    BY Zenon DEF IInv, ReaderOK, KeptOK
  <2>2. QED
    BY <2>1, AtOfSays, Zenon
<1>3. PICK gen, cs, d, s, o : /\ gen = Generated(decoder) /\ cs = calls /\ d = decoder
                              /\ s = input /\ o = outcome
  OBVIOUS
<1>4. Tracks(s, d, o, cs, p) /\ Kinds(d, cs) /\ gen = Generated(d) /\ o = "running"
  BY <1>3, Zenon DEF TrackInv, Tracks
<1>5. Kinds(d, Append(cs, call))
  BY <1>1, <1>3, <1>4, KindsMore
<1>6. d # "fast" => \A R : Ends(s, gen, cs, p, R) => Ends(s, gen, Append(cs, call), pp, R)
  <2> SUFFICES ASSUME d # "fast", NEW R, Ends(s, gen, cs, p, R)
               PROVE  Ends(s, gen, Append(cs, call), pp, R)
    OBVIOUS
  <2>1. \A q \in Reading : Leads(s, gen, Last(cs), p, q) =>
            \E m \in Reading : Leads(s, gen, call, pp, m) /\ Leads(s, gen, Last(cs), m, q)
    BY <1>1, <1>3, Zenon DEF Through
  <2>2. cs \in Seq(Activation) /\ Len(cs) # 0
    BY <1>1, <1>3
  <2>3. QED
    BY <1>1, <1>2, <2>1, <2>2, PushEnds, Zenon
<1>7. d = "dynamic" => \A R : Ends(s, gen, Append(cs, call), pp, R) => Ends(s, gen, cs, p, R)
  <2> SUFFICES ASSUME d = "dynamic", NEW R, Ends(s, gen, Append(cs, call), pp, R)
               PROVE  Ends(s, gen, cs, p, R)
    OBVIOUS
  <2>1. \A m, q \in Reading :
            Leads(s, gen, call, pp, m) /\ Leads(s, gen, Last(cs), m, q) =>
                Leads(s, gen, Last(cs), p, q)
    BY <1>1, <1>3, Zenon
  <2>2. cs \in Seq(Activation) /\ Len(cs) # 0
    BY <1>1, <1>3
  <2>3. QED
    BY <1>1, <1>2, <2>1, <2>2, PushBack, Zenon
<1>8. Tracks(s, d, o, Append(cs, call), pp)
  BY <1>4, <1>5, <1>6, <1>7, TrackGoes, Zenon
<1>9. QED
  BY <1>3, <1>8, Zenon DEF TrackInv

\* The state after a step, as a reading.
LEMMA Afterwards ==
    ASSUME IInv', NEW pp, pp = AtOf(index', end', kept')
    PROVE  /\ pp \in Reading /\ pp.index = index' /\ pp.end = end'
           /\ pp.kept = ToSet(kept')
<1>1. index' \in Nat /\ end' \in Nat /\ kept' \in Seq(Slice)
  BY Zenon DEF IInv, ReaderOK, KeptOK
<1>2. QED
  BY <1>1, AtOfSays

\* A generated loop reads no group in place.
LEMMA MessageOrTyped ==
    ASSUME IInv, TrackInv, InMessage, NEW tag, NEW w, Expected(tag, w)
    PROVE  tag.wire_type = w \/ Top.does = "message"
<1>1. Kinds(decoder, calls)
  BY Zenon DEF TrackInv, Tracks
<1>2. /\ calls \in Seq(Activation) /\ Len(calls) # 0 /\ Top = Last(calls)
  BY CallsAre, Zenon
<1>3. Top.does = "group" => decoder = "dynamic"
  BY <1>1, <1>2, TopKind, Zenon
<1>4. Top.does = "group" \/ Top.does = "message"
  BY DEF InMessage
<1>5. decoder = "generated" => decoder # "dynamic"
  OBVIOUS
<1>6. QED
  BY <1>3, <1>4, <1>5, Zenon DEF Expected

LEMMA MessageKnown ==
    ASSUME NEW tag, tag.number \in MessageField, tag.wire_type = LengthDelimited, NEW typed
    PROVE  ~Wrong(tag, typed)
<1>1. tag.number \notin ScalarField /\ tag.number \notin GroupField
  BY FieldAssumption
<1>2. QED
  BY <1>1, Zenon DEF Wrong

LEMMA TrackMessage ==
    ASSUME IInv, IInv', TrackInv, NEW tag \in NextTag, ReadMessage(tag)
    PROVE  TrackInv'
<1>1. PICK payload, p, pp, gen, call :
          /\ payload = readBytes(input, tag.index, end)
          /\ p = AtOf(index, end, kept) /\ pp = AtOf(index', end', kept')
          /\ gen = Generated(decoder) /\ call = MessageCall(payload.index, end)
  OBVIOUS
<1>2. /\ outcome = "running" /\ input' = input /\ decoder' = decoder
      /\ InMessage /\ tag.number \in Messages /\ Expected(tag, LengthDelimited)
      /\ IF ~payload.ok THEN Fail("input")
         ELSE IF recursion_depth = RecursionLimit THEN Fail("recursion")
         ELSE /\ calls' = Append(calls, call)
              /\ index' = payload.start /\ end' = payload.index
              /\ UNCHANGED <<kept, outcome>>
  BY <1>1 DEF ReadMessage, OnTag
<1>3. /\ Base(input, p) /\ p \in Reading /\ p.index = index /\ p.end = end
      /\ p.kept = ToSet(kept) /\ Loop(Top) /\ calls \in Seq(Activation) /\ Len(calls) # 0
      /\ Top = Last(calls) /\ index \in Nat /\ end \in Nat
  BY <1>1, <1>2, Now, Zenon
<1>4. decoder # "fast" /\ tag.number \in MessageField
  BY <1>2 DEF Messages
<1>5. tag = readTag(input, p.index, p.end, MaxTag) /\ tag.ok
  BY <1>3, <1>4, TagNow
<1>6. tag.wire_type = LengthDelimited \/ Top.does = "message"
  BY <1>2, MessageOrTyped, Zenon
<1>7. decoder = "dynamic" => /\ ~gen /\ tag.wire_type = LengthDelimited
                             /\ ~Wrong(tag, Loop(Top))
  <2>1. decoder = "dynamic" => ~gen /\ tag.wire_type = LengthDelimited
    BY <1>1, <1>2 DEF Generated, Expected
  <2>2. QED
    BY <1>4, <2>1, MessageKnown, Zenon
<1>8. payload = readBytes(input, tag.index, p.end) /\ call = MessageCall(payload.index, p.end)
  BY <1>1, <1>3
<1>9. CASE ~payload.ok
  <2>1. Fail("input")
    BY <1>2, <1>9, Zenon
  <2>2. ASSUME decoder = "dynamic", NEW q PROVE ~Leads(input, gen, Top, p, q)
    <3>1. Spot(input, gen, p, p.end)
      BY <1>3, BaseSpots, Zenon
    <3>2. ~readBytes(input, tag.index, p.end).ok
      BY <1>8, <1>9
    <3>3. ~LeadsAt(input, gen, Top, p, q, p.end)
      BY <1>3, <1>4, <1>5, <1>7, <2>2, <3>1, <3>2, MessageStops, Zenon
    <3>4. QED
      BY <1>7, <2>2, <3>3, LeadsHere, Zenon
  <2>3. QED
    BY <1>1, <1>2, <2>1, <2>2, TrackFailed
<1>10. CASE Fail("recursion")
  <2>1. "recursion" # "input"
    OBVIOUS
  <2>2. QED
    BY <1>2, <1>10, <2>1, TrackFailed
<1>11. CASE payload.ok /\ ~Fail("recursion")
  <2>1. /\ calls' = Append(calls, call) /\ index' = payload.start /\ end' = payload.index
        /\ kept' = kept /\ outcome' = outcome
    BY <1>2, <1>11, Zenon
  <2>2. /\ pp \in Reading /\ pp.index = payload.start /\ pp.end = payload.index
        /\ pp.kept = p.kept
    BY <1>1, <1>3, <2>1, Afterwards
  <2>3. call \in Activation /\ call.does = "message"
    <3>1. payload.index \in Nat
      BY <2>2 DEF Reading
    <3>2. MessageCall(payload.index, end) \in Activation
      BY <1>3, <3>1, CallTypes, Zenon
    <3>3. call.does = "message"
      BY <1>1 DEF MessageCall
    <3>4. QED
      BY <1>1, <3>2, <3>3, Zenon
  <2>4. Nests(input, p, tag, payload, call, pp)
    BY <1>5, <1>8, <1>11, <2>2, Zenon DEF Nests
  <2>5. ASSUME NEW q \in Reading, Leads(input, gen, Top, p, q)
        PROVE  Through(input, gen, Top, call, pp, q)
    <3>1. PICK w \in Wides(input, gen, p.end) : LeadsAt(input, gen, Top, p, q, w)
      BY <2>5, Zenon DEF Leads
    <3>2. Spot(input, gen, p, w)
      BY <1>3, BaseSpots, Zenon
    <3>3. QED
      BY <1>3, <1>4, <1>6, <2>4, <3>1, <3>2, MessageLeads, Zenon
  <2>6. ASSUME decoder = "dynamic", NEW m \in Reading, NEW q \in Reading,
               Leads(input, gen, call, pp, m), Leads(input, gen, Top, m, q)
        PROVE  Leads(input, gen, Top, p, q)
    <3>1. Spot(input, gen, p, p.end)
      BY <1>3, BaseSpots, Zenon
    <3>2. ~gen /\ tag.wire_type = LengthDelimited /\ ~Wrong(tag, Loop(Top))
      BY <1>7, <2>6, Zenon
    <3>3. Loop(Top) /\ payload.ok /\ tag.number \in MessageField
      BY <1>3, <1>4, <1>11, Zenon
    <3>4. QED
      BY <2>6, <2>4, <3>1, <3>2, <3>3, MessageBack, Zenon
  <2>7. QED
    BY <1>1, <1>2, <2>1, <2>3, <2>5, <2>6, TrackPushes
<1>12. QED
  BY <1>9, <1>10, <1>11

\* A group, read or skipped.
LEMMA TrackOpens ==
    ASSUME IInv, IInv', TrackInv, outcome = "running", input' = input, decoder' = decoder,
           NEW tag \in NextTag, NEW p, p = AtOf(index, end, kept),
           NEW inner, inner = (Loop(Top) /\ tag.number \in GroupField),
           NEW call \in Activation, Enters(tag, call),
           call.does = "bytes" => decoder = "generated",
           call.does = "group" => decoder = "dynamic",
           decoder # "fast" =>
               /\ Opens(Top, call, p, tag, inner)
               /\ tag.wire_type = StartGroup \/ (Top.does = "message" /\ inner),
           decoder = "dynamic" =>
               /\ tag.wire_type = StartGroup /\ ~Wrong(tag, Loop(Top))
               /\ call.does # "bytes"
    PROVE  TrackInv'
<1>1. PICK pp, gen : pp = AtOf(index', end', kept') /\ gen = Generated(decoder)
  OBVIOUS
<1>2. /\ Base(input, p) /\ p \in Reading /\ p.index = index /\ p.end = end
      /\ p.kept = ToSet(kept)
  BY Now, Zenon
<1>3. decoder # "fast" => tag = readTag(input, p.index, p.end, MaxTag) /\ tag.ok
  BY <1>2, TagNow
<1>4. decoder = "dynamic" => ~gen /\ decoder # "fast"
  BY <1>1 DEF Generated
<1>5. CASE Fail("recursion")
  <2>1. "recursion" # "input"
    OBVIOUS
  <2>2. QED
    BY <1>5, <2>1, TrackFailed
<1>6. CASE ~Fail("recursion")
  <2>1. /\ calls' = Append(calls, call) /\ index' = tag.index
        /\ end' = end /\ kept' = kept /\ outcome' = outcome
    BY <1>6, Zenon DEF Enters
  <2>2. /\ pp \in Reading /\ pp.index = tag.index /\ pp.end = p.end
        /\ pp.kept = p.kept
    BY <1>1, <1>2, <2>1, Afterwards
  <2>3. ASSUME decoder # "fast", NEW q \in Reading, Leads(input, gen, Top, p, q)
        PROVE  Through(input, gen, Top, call, pp, q)
    <3>1. PICK w \in Wides(input, gen, p.end) : LeadsAt(input, gen, Top, p, q, w)
      BY <2>3, Zenon DEF Leads
    <3>2. Spot(input, gen, p, w)
      BY <1>2, BaseSpots, Zenon
    <3>3. QED
      BY <1>3, <2>2, <2>3, <3>1, <3>2, GroupLeads
  <2>4. ASSUME decoder = "dynamic", NEW m \in Reading, NEW q \in Reading,
               Leads(input, gen, call, pp, m), Leads(input, gen, Top, m, q)
        PROVE  Leads(input, gen, Top, p, q)
    <3>1. Spot(input, gen, p, p.end) /\ ~gen
      BY <1>2, <1>4, <2>4, BaseSpots, Zenon
    <3>2. /\ tag = readTag(input, p.index, p.end, MaxTag) /\ tag.ok
          /\ Opens(Top, call, p, tag, inner)
          /\ tag.wire_type = StartGroup /\ ~Wrong(tag, Loop(Top))
          /\ call.does # "bytes"
      BY <1>3, <1>4, <2>4
    <3>3. QED
      BY <2>2, <2>4, <3>1, <3>2, GroupBack
  <2>5. QED
    BY <1>1, <2>1, <2>3, <2>4, TrackPushes
<1>7. QED
  BY <1>5, <1>6

LEMMA TrackGroup ==
    ASSUME IInv, IInv', TrackInv, NEW tag \in NextTag, ReadGroup(tag)
    PROVE  TrackInv'
<1>1. PICK p, d, call : /\ p = AtOf(index, end, kept)
                        /\ d = IF decoder = "dynamic" THEN "group" ELSE "bytes"
                        /\ call = GroupCall(d, tag.number, tag.index, FALSE)
  OBVIOUS
<1>2. /\ outcome = "running" /\ input' = input /\ decoder' = decoder
      /\ InMessage /\ tag.number \in Groups /\ Expected(tag, StartGroup)
      /\ Enters(tag, call)
  BY <1>1 DEF ReadGroup, OnTag
<1>3. decoder # "fast" /\ tag.number \in GroupField
  BY <1>2 DEF Groups
<1>4. Loop(Top)
  BY <1>2, Now, Zenon
<1>5. PICK inner : inner = (Loop(Top) /\ tag.number \in GroupField)
  OBVIOUS
<1>6. inner = TRUE
  BY <1>3, <1>4, <1>5
<1>7. call.does = d /\ call.number = tag.number /\ call.from = tag.index
  BY <1>1 DEF GroupCall
<1>8. Opens(Top, call, p, tag, inner)
  BY <1>1, <1>6, <1>7 DEF Opens
<1>9. tag.wire_type = StartGroup \/ (Top.does = "message" /\ inner)
  BY <1>2, <1>6, MessageOrTyped, Zenon
<1>10. decoder = "dynamic" =>
           tag.wire_type = StartGroup /\ ~Wrong(tag, Loop(Top)) /\ call.does # "bytes"
  <2> SUFFICES ASSUME decoder = "dynamic"
               PROVE  tag.wire_type = StartGroup /\ ~Wrong(tag, Loop(Top))
                      /\ call.does # "bytes"
    OBVIOUS
  <2>1. tag.wire_type = StartGroup
    BY <1>2 DEF Expected
  <2>2. tag.number \notin ScalarField /\ tag.number \notin MessageField
    BY <1>3, FieldAssumption
  <2>3. ~Wrong(tag, Loop(Top))
    BY <2>1, <2>2, Zenon DEF Wrong
  <2>4. QED
    BY <1>1, <1>7, <2>1, <2>3
<1>11. /\ call.does = "bytes" => decoder = "generated"
       /\ call.does = "group" => decoder = "dynamic"
  <2>1. decoder \in {"dynamic", "generated", "fast"}
    BY DecoderAssumption DEF IInv, ReaderOK
  <2>2. QED
    BY <1>1, <1>3, <1>7, <2>1
<1>12. call \in Activation
  <2>1. tag.number \in Nat /\ tag.index \in Nat /\ d \in {"group", "bytes", "skip"}
        /\ FALSE \in BOOLEAN /\ 0 \in Nat
    BY <1>1, TagRead
  <2>2. QED
    BY <1>1, <2>1, CallTypes, Zenon
<1>13. QED
  BY <1>1, <1>2, <1>5, <1>8, <1>9, <1>10, <1>11, <1>12, TrackOpens

LEMMA NotDeclared ==
    ASSUME NEW tag, FieldToSkip(tag), decoder # "fast", IInv
    PROVE  Undeclared(Top, tag)
<1>1. InMessage <=> Loop(Top)
  BY Now, Zenon
<1>2. InMessage => ~Declared(tag)
  BY Zenon DEF FieldToSkip
<1>3. Messages = MessageField /\ Groups = GroupField
  BY DEF Messages, Groups
<1>4. ~Declared(tag) => /\ tag.number \notin ScalarField /\ tag.number \notin MessageField
                        /\ tag.number \notin GroupField
  BY <1>3 DEF Declared
<1>5. QED
  BY <1>1, <1>2, <1>4, Zenon DEF Undeclared

LEMMA TrackSkipGroup ==
    ASSUME IInv, IInv', TrackInv, NEW tag \in NextTag, SkipGroup(tag)
    PROVE  TrackInv'
<1>1. PICK p, k, call : /\ p = AtOf(index, end, kept) /\ k = InMessage
                        /\ call = GroupCall("skip", tag.number, index, k)
  OBVIOUS
<1>2. /\ outcome = "running" /\ input' = input /\ decoder' = decoder
      /\ tag.wire_type = StartGroup /\ Enters(tag, call) /\ FieldToSkip(tag)
  BY <1>1 DEF SkipGroup, FieldToSkip, OnTag
<1>3. k <=> Loop(Top)
  BY <1>1, Now, Zenon
<1>4. PICK inner : inner = (Loop(Top) /\ tag.number \in GroupField)
  OBVIOUS
<1>5. decoder # "fast" => inner = FALSE /\ ~Wrong(tag, Loop(Top))
  BY <1>2, <1>4, NotDeclared, UndeclaredIs
<1>6. call.does = "skip" /\ call.number = tag.number /\ call.from = index /\ call.keep = k
  BY <1>1 DEF GroupCall
<1>7. p.index = index
  BY <1>1, Now, Zenon
<1>8. decoder # "fast" => Opens(Top, call, p, tag, inner)
  BY <1>3, <1>5, <1>6, <1>7, Zenon DEF Opens
<1>9. call \in Activation
  <2>1. tag.number \in Nat /\ "skip" \in {"group", "bytes", "skip"}
        /\ 0 \in Nat
    BY TagRead
  <2>2. index \in Nat /\ k \in BOOLEAN
    BY <1>1 DEF IInv, ReaderOK, InMessage
  <2>3. QED
    BY <1>1, <2>1, <2>2, CallTypes, Zenon
<1>10. decoder = "dynamic" =>
           tag.wire_type = StartGroup /\ ~Wrong(tag, Loop(Top)) /\ call.does # "bytes"
  BY <1>2, <1>5, <1>6
<1>11. /\ call.does = "bytes" => decoder = "generated"
       /\ call.does = "group" => decoder = "dynamic"
  BY <1>6
<1>12. QED
  BY <1>1, <1>2, <1>4, <1>8, <1>9, <1>10, <1>11, TrackOpens

LEMMA TrackSkip ==
    ASSUME IInv, IInv', TrackInv, NEW tag \in NextTag, Skip(tag)
    PROVE  TrackInv'
<1>1. PICK value, p, pp, gen : /\ value = skipValue(input, tag.index, end, tag.wire_type)
                               /\ p = AtOf(index, end, kept)
                               /\ pp = AtOf(index', end', kept')
                               /\ gen = Generated(decoder)
  OBVIOUS
<1>2. /\ outcome = "running" /\ input' = input /\ decoder' = decoder
      /\ FieldToSkip(tag) /\ tag.wire_type # StartGroup /\ tag.wire_type # EndGroup
      /\ Goes(value)
      /\ IF InMessage /\ value.ok THEN Keeps(index, value.index) ELSE kept' = kept
  BY <1>1 DEF Skip, FieldToSkip, OnTag
<1>3. /\ Base(input, p) /\ p \in Reading /\ p.index = index /\ p.end = end
      /\ p.kept = ToSet(kept) /\ calls \in Seq(Activation) /\ Len(calls) # 0
      /\ Top = Last(calls) /\ index \in Nat /\ kept \in Seq(Slice)
      /\ InMessage <=> Loop(Top)
  BY <1>1, Now
<1>4. decoder # "fast" => /\ tag = readTag(input, p.index, p.end, MaxTag) /\ tag.ok
                          /\ Undeclared(Top, tag)
  BY <1>2, <1>3, TagNow, NotDeclared
<1>5. decoder = "dynamic" => ~gen /\ decoder # "fast"
  BY <1>1 DEF Generated
<1>6. CASE value.ok
  <2>1. /\ index' = value.index /\ calls' = calls /\ end' = end
        /\ outcome' = outcome
    BY <1>2, <1>6, Zenon DEF Goes
  <2>2. /\ pp.index = value.index /\ pp.end = p.end
        /\ pp.kept = p.kept \cup SkipStores(Top, p.index, value.index)
    <3>1. pp.index = index' /\ pp.end = end' /\ pp.kept = ToSet(kept')
      BY <1>1, Afterwards
    <3>2. ToSet(kept') = ToSet(kept) \cup SkipStores(Top, index, value.index)
      <4>1. CASE InMessage
        <5>1. kept' = Append(kept, [from |-> index, to |-> value.index])
          BY <1>2, <1>6, <4>1, Zenon DEF Keeps
        <5>2. value.index \in Nat
          BY <2>1 DEF IInv, ReaderOK
        <5>3. [from |-> index, to |-> value.index] \in Slice
          BY <1>3, <5>2 DEF Slice
        <5>4. SkipStores(Top, index, value.index) = {[from |-> index, to |-> value.index]}
          BY <1>3, <4>1, Zenon DEF SkipStores
        <5>5. QED
          BY <1>3, <5>1, <5>3, <5>4, ToSetMore
      <4>2. CASE ~InMessage
        <5>1. kept' = kept /\ SkipStores(Top, index, value.index) = {}
          BY <1>2, <1>3, <4>2, Zenon DEF SkipStores
        <5>2. QED
          BY <5>1
      <4>3. QED
        BY <4>1, <4>2
    <3>3. QED
      BY <1>3, <2>1, <3>1, <3>2
  <2>3. value = skipValue(input, tag.index, p.end, tag.wire_type)
    BY <1>1, <1>3
  <2>4. ASSUME decoder # "fast", NEW q \in Reading
        PROVE  /\ Leads(input, gen, Top, p, q) => Leads(input, gen, Top, pp, q)
               /\ ~gen => (Leads(input, gen, Top, pp, q) => Leads(input, gen, Top, p, q))
    BY <1>2, <1>3, <1>4, <1>6, <2>2, <2>3, <2>4, SkipLeads
  <2>5. QED
    BY <1>1, <1>2, <1>5, <2>1, <2>4, TrackMoves
<1>7. CASE ~value.ok
  <2>1. Fail("input")
    BY <1>2, <1>7, Zenon DEF Goes
  <2>2. ASSUME decoder = "dynamic", NEW q PROVE ~Leads(input, gen, Top, p, q)
    <3>1. ~skipValue(input, tag.index, p.end, tag.wire_type).ok
      BY <1>1, <1>3, <1>7
    <3>2. QED
      BY <1>2, <1>3, <1>4, <1>5, <2>2, <3>1, SkipStops, Zenon
  <2>3. QED
    BY <1>1, <1>2, <2>1, <2>2, TrackFailed
<1>8. QED
  BY <1>6, <1>7

\* There is no memory: that says nothing of the input.
LEMMA TrackNoMemory ==
    ASSUME IInv, TrackInv, NEW tag \in NextTag, OutOfMemory(tag) \/ OutOfMemoryForGroup(tag)
    PROVE  TrackInv'
<1>1. /\ outcome = "running" /\ input' = input /\ decoder' = decoder /\ Fail("memory")
  BY Zenon DEF OutOfMemory, OutOfMemoryForGroup, FieldToSkip, AtEndTag, OnTag
<1>2. "memory" # "input"
  OBVIOUS
<1>3. QED
  BY <1>1, <1>2, TrackFailed

LEMMA TrackWrongType ==
    ASSUME IInv, TrackInv, NEW tag \in NextTag, WrongWireType(tag)
    PROVE  TrackInv'
<1>1. PICK p, gen : p = AtOf(index, end, kept) /\ gen = Generated(decoder)
  OBVIOUS
<1>2. /\ outcome = "running" /\ input' = input /\ decoder' = decoder /\ InMessage
      /\ ~AtEnd(tag) /\ Fail("input")
      /\ \/ tag.number \in ScalarField /\ ~Expected(tag, Varint)
         \/ tag.number \in Messages /\ ~Expected(tag, LengthDelimited)
         \/ tag.number \in Groups /\ ~Expected(tag, StartGroup)
  BY Zenon DEF WrongWireType, OnTag
<1>3. /\ Base(input, p) /\ p \in Reading /\ p.index = index /\ p.end = end /\ Loop(Top)
      /\ index \in Nat /\ end \in Nat
  BY <1>1, <1>2, Now, Zenon
<1>4. ASSUME decoder = "dynamic", NEW q PROVE ~Leads(input, gen, Top, p, q)
  <2>1. decoder # "fast" /\ ~gen
    BY <1>1, <1>4 DEF Generated
  <2>2. tag = readTag(input, p.index, p.end, MaxTag) /\ tag.ok
    BY <1>3, <2>1, TagNow
  <2>3. tag.wire_type # EndGroup
    BY <1>2, <1>4, Zenon DEF AtEnd
  <2>4. Messages = MessageField /\ Groups = GroupField
    BY <2>1 DEF Messages, Groups
  <2>5. Wrong(tag, Loop(Top))
    BY <1>2, <1>3, <2>4, Zenon DEF Wrong, Expected
  <2>6. p.index # p.end
    BY <1>3, TagRead
  <2>7. Spot(input, gen, p, p.end)
    BY <1>3, BaseSpots, Zenon
  <2>8. ~LeadsAt(input, gen, Top, p, q, p.end)
    BY <2>2, <2>3, <2>5, <2>6, <2>7, TagStops, Zenon
  <2>9. QED
    BY <2>1, <2>8, LeadsHere, Zenon
<1>5. QED
  BY <1>1, <1>2, <1>4, TrackFailed

LEMMA TrackBroken ==
    ASSUME IInv, TrackInv, Broken
    PROVE  TrackInv'
<1>1. PICK p, gen, tag : /\ p = AtOf(index, end, kept) /\ gen = Generated(decoder)
                         /\ tag = readTag(input, index, end, MaxTag)
  OBVIOUS
<1>2. /\ outcome = "running" /\ input' = input /\ decoder' = decoder
      /\ index = end => Top.does # "message"
      /\ NextTag = {} /\ Fail("input")
  BY Zenon DEF Broken
<1>3. /\ Base(input, p) /\ p \in Reading /\ p.index = index /\ p.end = end
  BY <1>1, Now, Zenon
<1>4. ASSUME decoder = "dynamic", NEW q PROVE ~Leads(input, gen, Top, p, q)
  <2>1. decoder # "fast" /\ ~gen
    BY <1>1, <1>4 DEF Generated
  <2>2. LongestTag = MaxTag
    BY <2>1 DEF LongestTag
  <2>3. ~tag.ok
    BY <1>1, <1>2, <2>2 DEF NextTag
  <2>4. Spot(input, gen, p, p.end)
    BY <1>3, BaseSpots, Zenon
  <2>5. tag = readTag(input, p.index, p.end, MaxTag)
    BY <1>1, <1>3
  <2>6. CASE index = end
    <3>1. ~LeadsAt(input, gen, Top, p, q, p.end)
      BY <1>2, <1>3, <2>4, <2>6, EndStops, Zenon
    <3>2. QED
      BY <2>1, <3>1, LeadsHere, Zenon
  <2>7. CASE index # end
    <3>1. ~LeadsAt(input, gen, Top, p, q, p.end)
      BY <1>3, <2>3, <2>4, <2>5, <2>7, TagStops, Zenon
    <3>2. QED
      BY <2>1, <3>1, LeadsHere, Zenon
  <2>8. QED
    BY <2>6, <2>7
<1>5. QED
  BY <1>1, <1>2, <1>4, TrackFailed

LEMMA TrackWrongEnd ==
    ASSUME IInv, TrackInv, NEW tag \in NextTag, WrongEnd(tag)
    PROVE  TrackInv'
<1>1. PICK p, gen : p = AtOf(index, end, kept) /\ gen = Generated(decoder)
  OBVIOUS
<1>2. /\ outcome = "running" /\ input' = input /\ decoder' = decoder
      /\ tag.wire_type = EndGroup
      /\ Top.does # "message" => tag.number # Top.number
      /\ Fail("input")
  BY Zenon DEF WrongEnd, AtEndTag, OnTag
<1>3. /\ Base(input, p) /\ p \in Reading /\ p.index = index /\ p.end = end
  BY <1>1, Now, Zenon
<1>4. ASSUME decoder = "dynamic", NEW q \in Reading PROVE ~Leads(input, gen, Top, p, q)
  <2>1. decoder # "fast" /\ ~gen
    BY <1>1, <1>4 DEF Generated
  <2>2. tag = readTag(input, p.index, p.end, MaxTag) /\ tag.ok
    BY <1>3, <2>1, TagNow
  <2>3. Spot(input, gen, p, p.end)
    BY <1>3, BaseSpots, Zenon
  <2>4. ~LeadsAt(input, gen, Top, p, q, p.end)
    BY <1>2, <2>1, <2>2, <2>3, WrongEndStops, Zenon
  <2>5. QED
    BY <2>1, <2>4, LeadsHere, Zenon
<1>5. QED
  BY <1>1, <1>2, <1>4, TrackFailed

\* The running activation returns.
LEMMA TrackPops ==
    ASSUME IInv, IInv', TrackInv, outcome = "running", UNCHANGED <<input, decoder, outcome>>,
           calls' = Front(calls),
           NEW p, p = AtOf(index, end, kept), NEW pp, pp = AtOf(index', end', kept'),
           decoder # "fast" =>
               \A q \in Reading : Leads(input, Generated(decoder), Top, p, q) => q = pp,
           decoder = "dynamic" => Leads(input, Generated(decoder), Top, p, pp)
    PROVE  TrackInv'
<1>1. p \in Reading /\ calls \in Seq(Activation) /\ Len(calls) # 0 /\ Top = Last(calls)
  BY Now, Zenon
<1>2. pp \in Reading
  BY Afterwards, Zenon
<1>3. PICK gen, cs, d, s, o : /\ gen = Generated(decoder) /\ cs = calls /\ d = decoder
                              /\ s = input /\ o = outcome
  OBVIOUS
<1>4. Tracks(s, d, o, cs, p) /\ Kinds(d, cs) /\ gen = Generated(d) /\ o = "running"
  BY <1>3, Zenon DEF TrackInv, Tracks
<1>5. Kinds(d, Front(cs))
  BY <1>1, <1>3, <1>4, KindsFewer
<1>6. d # "fast" => \A R : Ends(s, gen, cs, p, R) => Ends(s, gen, Front(cs), pp, R)
  BY <1>1, <1>2, <1>3, PopEnds, Zenon
<1>7. d = "dynamic" => \A R : Ends(s, gen, Front(cs), pp, R) => Ends(s, gen, cs, p, R)
  BY <1>1, <1>2, <1>3, PopBack, Zenon
<1>8. Tracks(s, d, o, Front(cs), pp)
  BY <1>4, <1>5, <1>6, <1>7, TrackGoes, Zenon
<1>9. QED
  BY <1>3, <1>8, Zenon DEF TrackInv

LEMMA TrackReturn ==
    ASSUME IInv, IInv', TrackInv, ReturnFromMessage
    PROVE  TrackInv'
<1>1. PICK p, pp, gen : /\ p = AtOf(index, end, kept) /\ gen = Generated(decoder)
                        /\ pp = AtOf(index', end', kept')
  OBVIOUS
<1>2. /\ outcome = "running" /\ UNCHANGED <<input, decoder, outcome>> /\ index = end
      /\ Top.does = "message" /\ calls' = Front(calls)
      /\ index' = Top.index /\ end' = Top.end /\ kept' = kept
  BY DEF ReturnFromMessage
<1>3. /\ Base(input, p) /\ p.index = index /\ p.end = end /\ p.kept = ToSet(kept)
  BY <1>1, Now, Zenon
<1>4. pp \in Reading /\ pp.index = Top.index /\ pp.end = Top.end /\ pp.kept = p.kept
  BY <1>1, <1>2, <1>3, Afterwards
<1>5. ASSUME NEW q \in Reading, Leads(input, gen, Top, p, q) PROVE q = pp
  <2>1. PICK w \in Wides(input, gen, p.end) : LeadsAt(input, gen, Top, p, q, w)
    BY <1>5, Zenon DEF Leads
  <2>2. Spot(input, gen, p, w)
    BY <1>3, BaseSpots, Zenon
  <2>3. QED
    BY <1>2, <1>3, <1>4, <2>1, <2>2, MessageEnds
<1>6. Leads(input, gen, Top, p, pp)
  <2>1. Spot(input, gen, p, p.end)
    BY <1>3, BaseSpots, Zenon
  <2>2. QED
    BY <1>2, <1>3, <1>4, <2>1, MessageEndsBack
<1>7. QED
  BY <1>1, <1>2, <1>5, <1>6, TrackPops

\* The end of a group that is read in place, or skipped.
LEMMA TrackLeaves ==
    ASSUME IInv, IInv', TrackInv, NEW tag \in NextTag, AtEndTag(tag), Leaves(tag),
           Top.does = "group" \/ Top.does = "skip", tag.number = Top.number,
           ToSet(kept') = ToSet(kept) \cup EndStores(Top, tag.index)
    PROVE  TrackInv'
<1>1. PICK p, pp, gen : /\ p = AtOf(index, end, kept) /\ gen = Generated(decoder)
                        /\ pp = AtOf(index', end', kept')
  OBVIOUS
<1>2. /\ outcome = "running" /\ UNCHANGED <<input, decoder, outcome>>
      /\ tag.wire_type = EndGroup /\ calls' = Front(calls)
      /\ index' = tag.index /\ end' = end
  BY DEF AtEndTag, OnTag, Leaves
<1>3. /\ Base(input, p) /\ p.index = index /\ p.end = end /\ p.kept = ToSet(kept)
  BY <1>1, Now, Zenon
<1>4. /\ pp \in Reading /\ pp.index = tag.index /\ pp.end = p.end
      /\ pp.kept = p.kept \cup EndStores(Top, tag.index)
  BY <1>1, <1>2, <1>3, Afterwards
<1>5. decoder # "fast" => tag = readTag(input, p.index, p.end, MaxTag) /\ tag.ok
  BY <1>3, TagNow
<1>6. ASSUME decoder # "fast", NEW q \in Reading, Leads(input, gen, Top, p, q) PROVE q = pp
  <2>1. PICK w \in Wides(input, gen, p.end) : LeadsAt(input, gen, Top, p, q, w)
    BY <1>6, Zenon DEF Leads
  <2>2. Spot(input, gen, p, w)
    BY <1>3, BaseSpots, Zenon
  <2>3. QED
    BY <1>2, <1>4, <1>5, <1>6, <2>1, <2>2, GroupEnds
<1>7. decoder = "dynamic" => Leads(input, gen, Top, p, pp)
  <2>1. Spot(input, gen, p, p.end)
    BY <1>3, BaseSpots, Zenon
  <2>2. decoder = "dynamic" => decoder # "fast"
    OBVIOUS
  <2>3. QED
    BY <1>2, <1>4, <1>5, <2>1, <2>2, GroupEndsBack
<1>8. QED
  BY <1>1, <1>2, <1>6, <1>7, TrackPops

LEMMA TrackSkipped ==
    ASSUME IInv, IInv', TrackInv, NEW tag \in NextTag, SkippedGroup(tag)
    PROVE  TrackInv'
<1>1. /\ AtEndTag(tag) /\ Top.does = "skip" /\ tag.number = Top.number /\ Leaves(tag)
      /\ IF Top.keep THEN Keeps(Top.from, tag.index) ELSE kept' = kept
  BY Zenon DEF SkippedGroup
<1>2. ToSet(kept') = ToSet(kept) \cup EndStores(Top, tag.index)
  <2>1. CASE Top.keep
    <3>1. kept' = Append(kept, [from |-> Top.from, to |-> tag.index])
      BY <1>1, <2>1, Zenon DEF Keeps
    <3>2. Top.from \in Nat /\ tag.index \in Nat /\ kept \in Seq(Slice)
      BY TagRead, CallsAre DEF Activation, IInv, KeptOK
    <3>3. [from |-> Top.from, to |-> tag.index] \in Slice
      BY <3>2 DEF Slice
    <3>4. EndStores(Top, tag.index) = {[from |-> Top.from, to |-> tag.index]}
      BY <1>1, <2>1, Zenon DEF EndStores
    <3>5. QED
      BY <3>1, <3>2, <3>3, <3>4, ToSetMore
  <2>2. CASE ~Top.keep
    <3>1. kept' = kept /\ EndStores(Top, tag.index) = {}
      BY <1>1, <2>2, Zenon DEF EndStores
    <3>2. QED
      BY <3>1
  <2>3. QED
    BY <2>1, <2>2
<1>3. QED
  BY <1>1, <1>2, TrackLeaves, Zenon

LEMMA TrackDecoded ==
    ASSUME IInv, IInv', TrackInv, NEW tag \in NextTag, GroupDecoded(tag)
    PROVE  TrackInv'
<1>1. /\ AtEndTag(tag) /\ Top.does = "group" /\ tag.number = Top.number /\ Leaves(tag)
      /\ kept' = kept
  BY Zenon DEF GroupDecoded
<1>2. EndStores(Top, tag.index) = {}
  BY <1>1 DEF EndStores
<1>3. ToSet(kept') = ToSet(kept) \cup EndStores(Top, tag.index)
  BY <1>1, <1>2
<1>4. QED
  BY <1>1, <1>3, TrackLeaves, Zenon

\* The slice readGroupBytes found, on a Reader of its own.
LEMMA TrackBytes ==
    ASSUME IInv, IInv', TrackInv, NEW tag \in NextTag, GroupBytesRead(tag)
    PROVE  TrackInv'
<1>1. PICK p, pp, gen, call :
          /\ p = AtOf(index, end, kept) /\ gen = Generated(decoder)
          /\ pp = AtOf(index', end', kept') /\ call = MessageCall(tag.index, end)
  OBVIOUS
<1>2. /\ outcome = "running" /\ input' = input /\ decoder' = decoder /\ outcome' = outcome
      /\ tag.wire_type = EndGroup /\ Top.does = "bytes"
      /\ calls' = Append(Front(calls), call)
      /\ index' = Top.from /\ end' = tag.index - tagSize(tag.number) /\ kept' = kept
  BY <1>1 DEF GroupBytesRead, AtEndTag, OnTag
<1>3. /\ Base(input, p) /\ p \in Reading /\ p.index = index /\ p.end = end
      /\ p.kept = ToSet(kept) /\ calls \in Seq(Activation) /\ Len(calls) # 0
      /\ Top = Last(calls) /\ index \in Nat /\ end \in Nat
  BY <1>1, Now, Zenon
<1>4. /\ pp \in Reading /\ pp.index = Top.from
      /\ pp.end = tag.index - tagSize(tag.number) /\ pp.kept = p.kept
  BY <1>1, <1>2, <1>3, Afterwards
<1>5. PICK cs, d, s, o : cs = calls /\ d = decoder /\ s = input /\ o = outcome
  OBVIOUS
<1>6. Tracks(s, d, o, cs, p) /\ Kinds(d, cs) /\ gen = Generated(d) /\ o = "running"
  BY <1>1, <1>2, <1>5, Zenon DEF TrackInv, Tracks
<1>7. d = "generated" /\ gen /\ d # "fast" /\ d # "dynamic"
  <2>1. d = "generated"
    BY <1>2, <1>3, <1>5, <1>6, TopKind, Zenon
  <2>2. QED
    BY <1>6, <2>1 DEF Generated
<1>8. call \in Activation /\ call.does = "message"
  <2>1. tag.index \in Nat
    BY TagRead
  <2>2. MessageCall(tag.index, end) \in Activation
    BY <1>3, <2>1, CallTypes, Zenon
  <2>3. call.does = "message"
    BY <1>1 DEF MessageCall
  <2>4. QED
    BY <1>1, <2>2, <2>3, Zenon
<1>9. Kinds(d, Append(Front(cs), call))
  <2>1. Kinds(d, Front(cs)) /\ Front(cs) \in Seq(Activation)
    BY <1>3, <1>5, <1>6, KindsFewer, JoinedFront
  <2>2. call.does # "bytes" /\ call.does # "group"
    BY <1>8
  <2>3. QED
    BY <1>8, <2>1, <2>2, KindsMore
<1>10. tag = readTag(input, p.index, p.end, MaxTag) /\ tag.ok
  BY <1>3, <1>5, <1>7, TagNow
<1>11. ASSUME NEW q \in Reading, Leads(s, gen, Last(cs), p, q)
       PROVE  Leads(s, gen, call, pp, q)
  <2>1. PICK w \in Wides(s, gen, p.end) : LeadsAt(s, gen, Top, p, q, w)
    BY <1>3, <1>5, <1>11, Zenon DEF Leads
  <2>2. Spot(s, gen, p, w)
    BY <1>3, <1>5, BaseSpots, Zenon
  <2>3. tag = readTag(s, p.index, p.end, MaxTag) /\ call = MessageCall(tag.index, p.end)
    BY <1>1, <1>3, <1>5, <1>10
  <2>4. QED
    BY <1>2, <1>4, <1>7, <1>10, <2>1, <2>2, <2>3, BytesEnd
<1>12. \A R : Ends(s, gen, cs, p, R) => Ends(s, gen, Append(Front(cs), call), pp, R)
  BY <1>3, <1>4, <1>5, <1>8, <1>11, ReplaceEnds, Zenon
<1>13. Tracks(s, d, o, Append(Front(cs), call), pp)
  BY <1>6, <1>7, <1>9, <1>12, TrackGoes, Zenon
<1>14. QED
  BY <1>1, <1>2, <1>5, <1>13 DEF TrackInv

\* A decode that is whole has stored what the message's grammar names.
LEMMA TrackComplete ==
    ASSUME IInv, TrackInv, Complete
    PROVE  TrackInv'
<1>1. PICK p, gen, pp : /\ p = AtOf(index, end, kept) /\ gen = Generated(decoder)
                        /\ pp = [index |-> Top.index, end |-> Top.end, kept |-> ToSet(kept)]
  OBVIOUS
<1>2. /\ outcome = "running" /\ outcome' = "ok" /\ index = end /\ Top.does = "message"
      /\ Len(calls) = 1 /\ UNCHANGED <<input, decoder, calls, index, end, kept>>
  BY DEF Complete
<1>3. /\ Base(input, p) /\ p \in Reading /\ p.index = index /\ p.end = end
      /\ p.kept = ToSet(kept) /\ calls \in Seq(Activation) /\ Len(calls) # 0
      /\ Top = Last(calls) /\ Top \in Activation
  BY <1>1, Now, Zenon
<1>4. pp.index = Top.index /\ pp.end = Top.end /\ pp.kept = p.kept /\ pp \in Reading
  BY <1>1, <1>3 DEF Activation, Reading
<1>5. Joined(calls, Front(calls), Top)
  BY <1>3, JoinedFront, Zenon
<1>6. Len(Front(calls)) = 0
  BY <1>2, <1>5 DEF Joined
<1>7. PICK cs, d, s, o : cs = calls /\ d = decoder /\ s = input /\ o = outcome
  OBVIOUS
<1>8. Tracks(s, d, o, cs, p) /\ gen = Generated(d) /\ o = "running"
  BY <1>1, <1>2, <1>7, Zenon DEF TrackInv
<1>9. ASSUME NEW R, Ends(s, gen, cs, p, R) PROVE p.kept = R
  <2>1. Joined(cs, Front(calls), Top)
    BY <1>5, <1>7
  <2>2. PICK q \in Reading : Leads(s, gen, Top, p, q) /\ Ends(s, gen, Front(calls), q, R)
    BY <1>3, <1>9, <2>1, EndsAhead, Zenon DEF Returns
  <2>3. PICK w \in Wides(s, gen, p.end) : LeadsAt(s, gen, Top, p, q, w)
    BY <2>2, Zenon DEF Leads
  <2>4. Spot(s, gen, p, w)
    BY <1>3, <1>7, BaseSpots, Zenon
  <2>5. q = pp
    BY <1>2, <1>3, <1>4, <2>3, <2>4, MessageEnds
  <2>6. q.kept = R
    BY <1>6, <2>2, EndsNone, Zenon
  <2>7. QED
    BY <1>4, <2>5, <2>6
<1>10. \E R : Ends(s, gen, cs, p, R)
  <2>1. PICK R : R = p.kept
    OBVIOUS
  <2>2. Spot(s, gen, p, p.end)
    BY <1>3, <1>7, BaseSpots, Zenon
  <2>3. Leads(s, gen, Top, p, pp)
    BY <1>2, <1>3, <1>4, <2>2, MessageEndsBack
  <2>4. Ends(s, gen, Front(calls), pp, R)
    BY <1>4, <1>6, <2>1, EndsNone, Zenon
  <2>5. Ends(s, gen, calls, p, R)
    BY <1>3, <1>4, <1>5, <2>3, <2>4, EndsBehind, Zenon
  <2>6. QED
    BY <1>7, <2>5
<1>11. Tracks(s, d, "ok", cs, p)
  <2>1. "ok" # "running" /\ "ok" # "input" /\ (d = "dynamic" => d # "fast")
    OBVIOUS
  <2>2. QED
    BY <1>8, <1>9, <1>10, <2>1, Zenon DEF Tracks
<1>12. QED
  BY <1>1, <1>2, <1>7, <1>11 DEF TrackInv

LEMMA TrackStep ==
    ASSUME IInv, IInv', TrackInv, [Next]_vars
    PROVE  TrackInv'
<1>1. CASE ReturnFromMessage
  BY <1>1, TrackReturn, Zenon
<1>2. CASE Complete
  BY <1>2, TrackComplete, Zenon
<1>3. CASE Broken
  BY <1>3, TrackBroken, Zenon
<1>4. ASSUME NEW tag \in NextTag,
             \/ WrongWireType(tag) \/ ReadScalar(tag) \/ ReadMessage(tag) \/ ReadGroup(tag)
             \/ Skip(tag) \/ OutOfMemory(tag) \/ SkipGroup(tag)
             \/ SkippedGroup(tag) \/ OutOfMemoryForGroup(tag)
             \/ GroupDecoded(tag) \/ GroupBytesRead(tag)
             \/ WrongEnd(tag)
      PROVE  TrackInv'
  BY <1>4, TrackWrongType, TrackScalar, TrackMessage, TrackGroup, TrackSkip, TrackNoMemory,
     TrackSkipGroup, TrackSkipped, TrackDecoded, TrackBytes, TrackWrongEnd, Zenon
<1>5. CASE UNCHANGED vars
  <2>1. UNCHANGED <<input, decoder, outcome, calls, index, end, kept>>
    BY <1>5 DEF vars
  <2>2. QED
    BY <2>1 DEF TrackInv
<1>6. QED
  BY <1>1, <1>2, <1>3, <1>4, <1>5, Zenon DEF Next

LEMMA TrackStarts == Init => TrackInv
<1> SUFFICES ASSUME Init PROVE TrackInv
  OBVIOUS
<1>1. PICK s, d, c, p, n, gen :
          /\ s = input /\ d = decoder /\ c = MessageCall(0, 0) /\ n = Len(input)
          /\ p = AtOf(0, n, <<>>) /\ gen = Generated(decoder)
  OBVIOUS
<1>2. /\ outcome = "running" /\ calls = <<c>> /\ index = 0 /\ end = n /\ kept = <<>>
      /\ s \in Seq(Byte) /\ n = Len(s) /\ n \in Nat
  <2>1. input \in Seq(Byte)
    BY InputAssumption, Zenon DEF Init
  <2>2. QED
    BY <1>1, <2>1 DEF Init
<1>3. p \in Reading /\ p.index = 0 /\ p.end = n /\ p.kept = {}
  <2>1. p.index = 0 /\ p.end = n /\ p.kept = ToSet(<<>>) /\ p \in Reading
    <3>1. PICK i, ks : i = 0 /\ ks = <<>>
      OBVIOUS
    <3>2. i \in Nat /\ ks \in Seq(Slice) /\ p = AtOf(i, n, ks)
      BY <1>1, <3>1
    <3>3. p \in Reading /\ p.index = i /\ p.end = n /\ p.kept = ToSet(ks)
      <4>1. i \in Nat /\ n \in Nat /\ ks \in Seq(Slice) /\ p = AtOf(i, n, ks)
        BY <1>2, <3>2
      <4> HIDE <1>1, <1>2, <3>1, <3>2
      <4>2. QED
        BY <4>1, AtOfSays
    <3>4. QED
      BY <3>1, <3>3
  <2>2. ToSet(<<>>) = {}
    BY DEF ToSet
  <2>3. QED
    BY <2>1, <2>2
<1>4. /\ c \in Activation /\ c.does = "message" /\ c.index = 0 /\ c.end = 0 /\ Loop(c)
  BY <1>1, CallTypes DEF MessageCall, Loop, Activation
<1>5. Kinds(d, <<c>>)
  BY <1>4 DEF Kinds
<1>6. PICK typed, g : typed = TRUE /\ g = Said(s, p.index, n, typed)
  OBVIOUS
<1>7. Means(s) = g /\ Loop(c) = typed
  BY <1>2, <1>3, <1>4, <1>6 DEF Means
<1>8. g \in Result
  <2>1. Place(s, p.index, n) /\ typed \in BOOLEAN
    BY <1>2, <1>3, <1>6 DEF Place
  <2>2. QED
    BY <1>2, <1>6, <2>1, Formed, Zenon
<1>9. Joined(<<c>>, <<>>, c) /\ Len(<<>>) = 0
  BY <1>4 DEF Joined
<1>10. ASSUME Means(s).done = TRUE PROVE Ends(s, gen, <<c>>, p, Means(s).unknown)
  <2>1. PICK q : q = [index |-> 0, end |-> 0, kept |-> g.unknown]
    OBVIOUS
  <2>2. q \in Reading /\ q.index = c.index /\ q.end = c.end /\ q.kept = p.kept \cup g.unknown
    BY <1>3, <1>4, <1>8, <2>1 DEF Reading, Result
  <2>3. g.done = TRUE
    BY <1>7, <1>10
  <2>4. ASSUME NEW closing PROVE Fills(gen, c, p, q, n, g, closing)
    BY <1>3, <2>2, <2>3, Zenon DEF Fills
  <2>5. LeadsAt(s, gen, c, p, q, n)
    BY <1>4, <1>6, <1>7, <2>4, Zenon DEF LeadsAt, LeadsBy
  <2>6. n \in Wides(s, gen, p.end)
    BY <1>2, <1>3 DEF Wides
  <2>7. Leads(s, gen, c, p, q)
    BY <2>5, <2>6, Zenon DEF Leads
  <2>8. q.kept = Means(s).unknown
    BY <1>7, <2>1
  <2>9. Ends(s, gen, <<>>, q, Means(s).unknown)
    BY <1>9, <2>2, <2>8, EndsNone, Zenon
  <2>10. QED
    BY <1>3, <1>9, <2>2, <2>7, <2>9, EndsBehind, Zenon
<1>11. ASSUME d = "dynamic", NEW R, Ends(s, gen, <<c>>, p, R) PROVE Means(s).done = TRUE
  <2>1. ~gen
    BY <1>1, <1>11 DEF Generated
  <2>2. PICK q \in Reading : Leads(s, gen, c, p, q)
    BY <1>3, <1>9, <1>11, EndsAhead, Zenon DEF Returns
  <2>3. LeadsAt(s, gen, c, p, q, n)
    BY <1>3, <2>1, <2>2, LeadsHere, Zenon
  <2>4. PICK closing : Fills(gen, c, p, q, n, g, closing)
    BY <1>4, <1>6, <1>7, <2>3, Zenon DEF LeadsAt, LeadsBy
  <2>5. g.done = TRUE
    BY <2>1, <2>4, Zenon DEF Fills
  <2>6. QED
    BY <1>7, <2>5
<1>12. Tracks(s, d, "running", <<c>>, p)
  <2>1. "running" # "ok" /\ "running" # "input" /\ gen = Generated(d)
    BY <1>1
  <2>2. QED
    BY <1>5, <1>10, <1>11, <2>1, Zenon DEF Tracks
<1>13. QED
  BY <1>1, <1>2, <1>12 DEF TrackInv

-----------------------------------------------------------------------------
(* What is stored is stored in its order *)

\* Nothing was stored behind x.
Below(ks, x) == \A i \in DOMAIN ks : ks[i].to <= x

InOrder(ks) == \A i, j \in DOMAIN ks : i < j => ks[i].to <= ks[j].from

\* A slice lies in front of the place its caller goes on at.
Nested(cs, e) ==
    \A k \in 2 .. Len(cs) : cs[k].does = "message" =>
        /\ e <= cs[k].index
        /\ \A l \in k + 1 .. Len(cs) : cs[l].does = "message" => cs[l].end <= cs[k].index

InLoops(cs) == \A k \in 1 .. Len(cs) : Loop(cs[k])

InSkipped(c) == c.does = "skip" /\ ~c.keep

\* Nothing is stored while a group is scanned.
Floors(cs, ks) ==
    \A k \in 1 .. Len(cs) : ~Loop(cs[k]) =>
        /\ Below(ks, cs[k].from)
        /\ \A l \in k + 1 .. Len(cs) : InSkipped(cs[l])

Orderly(cs, e, ks, i) == Nested(cs, e) /\ Floors(cs, ks) /\ Below(ks, i) /\ InOrder(ks)

OrderInv == decoder # "fast" => Orderly(calls, end, kept, index)

LEMMA BelowMore ==
    ASSUME NEW ks \in Seq(Slice), NEW x \in Nat, NEW y \in Nat, Below(ks, x), x <= y
    PROVE  Below(ks, y)
<1>1. \A i \in DOMAIN ks : ks[i] \in Slice
  OBVIOUS
<1>2. \A i \in DOMAIN ks : ks[i].to \in Nat
  BY <1>1 DEF Slice
<1>3. QED
  BY <1>2 DEF Below

LEMMA StoredInOrder ==
    ASSUME NEW ks \in Seq(Slice), NEW f \in Nat, NEW t \in Nat, f <= t,
           Below(ks, f), InOrder(ks), NEW x, x = [from |-> f, to |-> t]
    PROVE  Below(Append(ks, x), t) /\ InOrder(Append(ks, x))
<1>1. PICK n, ls : n = Len(ks) /\ ls = Append(ks, x)
  OBVIOUS
<1>2. n \in Nat /\ x \in Slice /\ x.from = f /\ x.to = t
  BY <1>1 DEF Slice
<1>3. /\ DOMAIN ls = 1 .. n + 1 /\ DOMAIN ks = 1 .. n /\ ls[n + 1] = x
      /\ \A j \in 1 .. n : ls[j] = ks[j] /\ ks[j].to \in Nat /\ ks[j].from \in Nat
  <2>1. \A j \in 1 .. n : ks[j] \in Slice
    BY <1>1
  <2>2. \A j \in 1 .. n : ks[j].to \in Nat /\ ks[j].from \in Nat
    BY <2>1 DEF Slice
  <2>3. /\ DOMAIN ls = 1 .. n + 1 /\ DOMAIN ks = 1 .. n /\ ls[n + 1] = x
        /\ \A j \in 1 .. n : ls[j] = ks[j]
    BY <1>1, <1>2
  <2>4. QED
    BY <2>2, <2>3
<1>4. ASSUME NEW j \in 1 .. n PROVE ls[j].to <= f
  BY <1>3 DEF Below
<1>5. Below(ls, t)
  <2> SUFFICES ASSUME NEW j \in 1 .. n + 1 PROVE ls[j].to <= t
    BY <1>3 DEF Below
  <2>1. CASE j = n + 1
    BY <1>2, <1>3, <2>1
  <2>2. CASE j # n + 1
    <3>1. j \in 1 .. n
      BY <1>2, <2>2
    <3>2. ls[j].to <= f /\ ls[j].to \in Nat
      BY <1>3, <1>4, <3>1
    <3>3. QED
      BY <3>2
  <2>3. QED
    BY <2>1, <2>2
<1>6. InOrder(ls)
  <2> SUFFICES ASSUME NEW i \in 1 .. n + 1, NEW j \in 1 .. n + 1, i < j
               PROVE  ls[i].to <= ls[j].from
    BY <1>3 DEF InOrder
  <2>1. i \in 1 .. n
    BY <1>2
  <2>2. CASE j = n + 1
    BY <1>2, <1>3, <1>4, <2>1, <2>2
  <2>3. CASE j # n + 1
    <3>1. j \in 1 .. n
      BY <1>2, <2>3
    <3>2. ks[i].to <= ks[j].from
      BY <1>3, <2>1, <3>1 DEF InOrder
    <3>3. QED
      BY <1>3, <2>1, <3>1, <3>2
  <2>4. QED
    BY <2>2, <2>3
<1>7. QED
  BY <1>1, <1>5, <1>6

LEMMA FloorsPush ==
    ASSUME NEW cs, NEW ds, NEW c, Joined(cs, ds, c), NEW ks,
           Floors(ds, ks), ~Loop(c) => Below(ks, c.from), InSkipped(c) \/ InLoops(ds)
    PROVE  Floors(cs, ks)
<1>1. PICK n : n = Len(ds)
  OBVIOUS
<1>2. n \in Nat /\ Len(cs) = n + 1 /\ cs[n + 1] = c /\ \A j \in 1 .. n : ds[j] = cs[j]
  BY <1>1 DEF Joined
<1> SUFFICES ASSUME NEW k \in 1 .. n + 1, ~Loop(cs[k])
             PROVE  /\ Below(ks, cs[k].from)
                    /\ \A l \in k + 1 .. n + 1 : InSkipped(cs[l])
  BY <1>2, Zenon DEF Floors
<1>3. CASE k = n + 1
  <2>1. k + 1 .. n + 1 = {}
    BY <1>2, <1>3
  <2>2. QED
    BY <1>2, <1>3, <2>1, Zenon
<1>4. CASE k # n + 1
  <2>1. k \in 1 .. n
    BY <1>2, <1>4
  <2>2. ds[k] = cs[k]
    BY <1>2, <2>1
  <2>3. /\ Below(ks, cs[k].from)
        /\ \A l \in k + 1 .. n : InSkipped(ds[l])
    BY <1>1, <2>1, <2>2, Zenon DEF Floors
  <2>4. InSkipped(c)
    BY <1>1, <2>1, <2>2, Zenon DEF InLoops
  <2>5. ASSUME NEW l \in k + 1 .. n + 1 PROVE InSkipped(cs[l])
    <3>1. CASE l = n + 1
      BY <1>2, <2>4, <3>1, Zenon
    <3>2. CASE l # n + 1
      <4>1. l \in k + 1 .. n /\ l \in 1 .. n
        BY <1>2, <3>2
      <4>2. QED
        BY <1>2, <2>3, <4>1, Zenon
    <3>3. QED
      BY <3>1, <3>2
  <2>6. QED
    BY <2>3, <2>5
<1>5. QED
  BY <1>3, <1>4

LEMMA FloorsPop ==
    ASSUME NEW cs, NEW ds, NEW c, Joined(cs, ds, c), NEW ks, Floors(cs, ks)
    PROVE  /\ Floors(ds, ks) /\ (~Loop(c) => Below(ks, c.from))
           /\ InSkipped(c) \/ InLoops(ds)
<1>1. PICK n : n = Len(ds)
  OBVIOUS
<1>2. n \in Nat /\ Len(cs) = n + 1 /\ cs[n + 1] = c /\ \A j \in 1 .. n : ds[j] = cs[j]
  BY <1>1 DEF Joined
<1>3. n + 1 \in 1 .. n + 1 /\ \A j \in 1 .. n : j \in 1 .. n + 1 /\ n + 1 \in j + 1 .. n + 1
  BY <1>2
<1>4. ~Loop(c) => Below(ks, c.from)
  BY <1>2, <1>3, Zenon DEF Floors
<1>5. ASSUME NEW k \in 1 .. n, ~Loop(ds[k])
      PROVE  /\ Below(ks, ds[k].from) /\ InSkipped(c)
             /\ \A l \in k + 1 .. n : InSkipped(ds[l])
  <2>1. /\ Below(ks, ds[k].from)
        /\ \A l \in k + 1 .. n + 1 : InSkipped(cs[l])
    BY <1>2, <1>3, <1>5, Zenon DEF Floors
  <2>2. \A l \in k + 1 .. n : l \in k + 1 .. n + 1 /\ l \in 1 .. n
    BY <1>2
  <2>3. QED
    BY <1>2, <1>3, <2>1, <2>2, Zenon
<1>6. Floors(ds, ks)
  BY <1>1, <1>5, Zenon DEF Floors
<1>7. InSkipped(c) \/ InLoops(ds)
  BY <1>1, <1>5, Zenon DEF InLoops
<1>8. QED
  BY <1>4, <1>6, <1>7, Zenon

LEMMA LoopsFloor ==
    ASSUME NEW cs, InLoops(cs), NEW ks PROVE Floors(cs, ks)
  BY Zenon DEF Floors, InLoops

LEMMA NestedPush ==
    ASSUME NEW cs \in Seq(Activation), NEW ds, NEW c \in Activation, Joined(cs, ds, c),
           NEW e \in Nat, NEW f \in Nat, Nested(ds, e), f <= e,
           c.does = "message" => c.end = e /\ f <= c.index
    PROVE  Nested(cs, f)
<1>1. PICK n : n = Len(ds)
  OBVIOUS
<1>2. n \in Nat /\ Len(cs) = n + 1 /\ cs[n + 1] = c /\ \A j \in 1 .. n : ds[j] = cs[j]
  BY <1>1 DEF Joined
<1> SUFFICES ASSUME NEW k \in 2 .. n + 1, cs[k].does = "message"
             PROVE  /\ f <= cs[k].index
                    /\ \A l \in k + 1 .. n + 1 :
                           cs[l].does = "message" => cs[l].end <= cs[k].index
  BY <1>2, Zenon DEF Nested
<1>3. CASE k = n + 1
  <2>1. k + 1 .. n + 1 = {}
    BY <1>2, <1>3
  <2>2. QED
    BY <1>2, <1>3, <2>1, Zenon
<1>4. CASE k # n + 1
  <2>1. k \in 2 .. n /\ k \in 1 .. n
    BY <1>2, <1>4
  <2>2. ds[k] = cs[k]
    BY <1>2, <2>1
  <2>3. /\ e <= cs[k].index
        /\ \A l \in k + 1 .. n : ds[l].does = "message" => ds[l].end <= cs[k].index
    BY <1>1, <2>1, <2>2, Zenon DEF Nested
  <2>4. cs[k].index \in Nat
    <3>1. k \in 1 .. Len(cs)
      BY <1>2
    <3>2. cs[k] \in Activation
      BY <3>1, ElementOfSeq, Zenon
    <3>3. QED
      BY <3>2 DEF Activation
  <2>5. f <= cs[k].index
    BY <2>3, <2>4
  <2>6. ASSUME NEW l \in k + 1 .. n + 1, cs[l].does = "message"
        PROVE  cs[l].end <= cs[k].index
    <3>1. CASE l = n + 1
      BY <1>2, <2>3, <2>6, <3>1
    <3>2. CASE l # n + 1
      <4>1. l \in k + 1 .. n /\ l \in 1 .. n
        BY <1>2, <3>2
      <4>2. ds[l] = cs[l]
        BY <1>2, <4>1
      <4>3. QED
        BY <2>3, <2>6, <4>1, <4>2, Zenon
    <3>3. QED
      BY <3>1, <3>2
  <2>7. QED
    BY <2>5, <2>6
<1>5. QED
  BY <1>3, <1>4

LEMMA NestedPop ==
    ASSUME NEW cs, NEW ds, NEW c, Joined(cs, ds, c), NEW e, Nested(cs, e)
    PROVE  /\ c.does # "message" => Nested(ds, e)
           /\ c.does = "message" => Nested(ds, c.end) /\ (Len(ds) # 0 => e <= c.index)
<1>1. PICK n : n = Len(ds)
  OBVIOUS
<1>2. n \in Nat /\ Len(cs) = n + 1 /\ cs[n + 1] = c /\ \A j \in 1 .. n : ds[j] = cs[j]
  BY <1>1 DEF Joined
<1>3. ASSUME NEW k \in 2 .. n, ds[k].does = "message"
      PROVE  /\ e <= ds[k].index /\ (c.does = "message" => c.end <= ds[k].index)
             /\ \A l \in k + 1 .. n : ds[l].does = "message" => ds[l].end <= ds[k].index
  <2>1. /\ k \in 2 .. n + 1 /\ k \in 1 .. n /\ n + 1 \in k + 1 .. n + 1
        /\ \A l \in k + 1 .. n : l \in k + 1 .. n + 1 /\ l \in 1 .. n
    BY <1>2
  <2>2. /\ e <= ds[k].index
        /\ \A l \in k + 1 .. n + 1 : cs[l].does = "message" => cs[l].end <= ds[k].index
    BY <1>2, <1>3, <2>1, Zenon DEF Nested
  <2>3. QED
    BY <1>2, <2>1, <2>2, Zenon
<1>4. c.does # "message" => Nested(ds, e)
  BY <1>1, <1>3, Zenon DEF Nested
<1>5. c.does = "message" => Nested(ds, c.end)
  BY <1>1, <1>3, Zenon DEF Nested
<1>6. c.does = "message" /\ n # 0 => e <= c.index
  <2>1. n # 0 => n + 1 \in 2 .. n + 1
    BY <1>2
  <2>2. QED
    BY <1>2, <2>1, Zenon DEF Nested
<1>7. QED
  BY <1>1, <1>4, <1>5, <1>6

\* Where the loops store, no group is being scanned.
LEMMA OrderNow ==
    ASSUME IInv, OrderInv, decoder # "fast"
    PROVE  /\ Nested(calls, end) /\ Floors(calls, kept) /\ Below(kept, index)
           /\ InOrder(kept) /\ Joined(calls, Front(calls), Top)
           /\ calls \in Seq(Activation) /\ Front(calls) \in Seq(Activation)
           /\ kept \in Seq(Slice) /\ index \in Nat /\ end \in Nat /\ Top \in Activation
           /\ ~InSkipped(Top) => InLoops(Front(calls))
           /\ Loop(Top) => InLoops(calls)
<1>1. Nested(calls, end) /\ Floors(calls, kept) /\ Below(kept, index) /\ InOrder(kept)
  BY Zenon DEF OrderInv, Orderly
<1>2. /\ calls \in Seq(Activation) /\ Len(calls) # 0 /\ Top = Last(calls)
      /\ kept \in Seq(Slice) /\ index \in Nat /\ end \in Nat /\ Top \in Activation
  BY Now, Zenon
<1>3. Joined(calls, Front(calls), Top) /\ Front(calls) \in Seq(Activation)
  BY <1>2, JoinedFront, Zenon
<1>4. InSkipped(Top) \/ InLoops(Front(calls))
  BY <1>1, <1>3, FloorsPop, Zenon
<1>5. Loop(Top) => InLoops(calls)
  <2> SUFFICES ASSUME Loop(Top) PROVE InLoops(calls)
    OBVIOUS
  <2>1. ~InSkipped(Top)
    BY DEF Loop, InSkipped
  <2>2. PICK n : n = Len(Front(calls))
    OBVIOUS
  <2>3. n \in Nat /\ Len(calls) = n + 1 /\ calls[n + 1] = Top
        /\ \A j \in 1 .. n : Front(calls)[j] = calls[j]
    BY <1>3, <2>2 DEF Joined
  <2>4. \A j \in 1 .. n + 1 : j = n + 1 \/ j \in 1 .. n
    BY <2>3
  <2>5. InLoops(Front(calls))
    BY <1>4, <2>1
  <2>6. QED
    BY <2>2, <2>3, <2>4, <2>5, Zenon DEF InLoops
<1>6. QED
  BY <1>1, <1>2, <1>3, <1>4, <1>5, Zenon

LEMMA OrderSame ==
    ASSUME IInv, OrderInv, decoder' = decoder,
           calls' = calls, end' = end, kept' = kept, index' = index
    PROVE  OrderInv'
  BY DEF OrderInv

\* The running activation goes on, and stores the field behind it if it is a loop.
LEMMA OrderMoves ==
    ASSUME IInv, IInv', OrderInv, decoder' = decoder, calls' = calls, end' = end,
           index <= index',
           \/ kept' = kept
           \/ Loop(Top) /\ kept' = Append(kept, [from |-> index, to |-> index'])
    PROVE  OrderInv'
<1> SUFFICES ASSUME decoder # "fast" PROVE Orderly(calls, end, kept', index')
  BY DEF OrderInv
<1>1. /\ Nested(calls, end) /\ Floors(calls, kept) /\ Below(kept, index)
      /\ InOrder(kept) /\ kept \in Seq(Slice) /\ index \in Nat
      /\ Loop(Top) => InLoops(calls)
  BY OrderNow, Zenon
<1>2. index' \in Nat
  BY Zenon DEF IInv, ReaderOK
<1>3. CASE kept' = kept
  <2>1. Below(kept, index')
    BY <1>1, <1>2, BelowMore, Zenon
  <2>2. QED
    BY <1>1, <1>3, <2>1 DEF Orderly
<1>4. CASE Loop(Top) /\ kept' = Append(kept, [from |-> index, to |-> index'])
  <2>1. PICK j, x, ls : /\ j = index' /\ x = [from |-> index, to |-> index'] /\ ls = kept'
    OBVIOUS
  <2>2. Below(ls, j) /\ InOrder(ls)
    BY <1>1, <1>2, <1>4, <2>1, StoredInOrder
  <2>3. Floors(calls, ls)
    BY <1>1, <1>4, LoopsFloor, Zenon
  <2>4. QED
    BY <1>1, <2>1, <2>2, <2>3 DEF Orderly
<1>5. QED
  BY <1>3, <1>4

LEMMA OrderPushes ==
    ASSUME IInv, IInv', OrderInv, decoder' = decoder, kept' = kept,
           NEW call \in Activation, calls' = Append(calls, call),
           index <= index', end' <= end,
           call.does = "message" => call.end = end /\ end' <= call.index,
           ~Loop(call) => index <= call.from,
           InSkipped(call) \/ Loop(Top)
    PROVE  OrderInv'
<1> SUFFICES ASSUME decoder # "fast" PROVE Orderly(calls', end', kept, index')
  BY DEF OrderInv
<1>1. /\ Nested(calls, end) /\ Floors(calls, kept) /\ Below(kept, index)
      /\ InOrder(kept) /\ kept \in Seq(Slice) /\ index \in Nat /\ end \in Nat
      /\ calls \in Seq(Activation)
      /\ Loop(Top) => InLoops(calls)
  BY OrderNow, Zenon
<1>2. index' \in Nat /\ end' \in Nat
  BY Zenon DEF IInv, ReaderOK
<1>3. PICK cs, ds, e, f, i : cs = calls' /\ ds = calls /\ e = end /\ f = end' /\ i = index'
  OBVIOUS
<1>4. cs = Append(ds, call) /\ ds \in Seq(Activation) /\ cs \in Seq(Activation)
      /\ Joined(cs, ds, call)
  BY <1>1, <1>3, JoinedAppend
<1>5. Nested(cs, f)
  BY <1>1, <1>2, <1>3, <1>4, NestedPush
<1>6. Below(kept, i)
  BY <1>1, <1>2, <1>3, BelowMore
<1>7. Floors(cs, kept)
  <2>1. ~Loop(call) => Below(kept, call.from)
    <3>1. call.from \in Nat
      BY DEF Activation
    <3>2. QED
      BY <1>1, <3>1, BelowMore, Zenon
  <2>2. InSkipped(call) \/ InLoops(ds)
    BY <1>1, <1>3
  <2>3. Floors(ds, kept)
    BY <1>1, <1>3
  <2>4. QED
    BY <1>4, <2>1, <2>2, <2>3, FloorsPush, Zenon
<1>8. QED
  BY <1>1, <1>3, <1>5, <1>6, <1>7 DEF Orderly

LEMMA OrderReturn ==
    ASSUME IInv, IInv', OrderInv, ReturnFromMessage
    PROVE  OrderInv'
<1> SUFFICES ASSUME decoder # "fast" PROVE Orderly(calls', end', kept', index')
  BY DEF OrderInv, ReturnFromMessage
<1>1. /\ calls' = Front(calls) /\ index' = Top.index /\ end' = Top.end /\ kept' = kept
      /\ index = end /\ Top.does = "message" /\ Len(calls) > 1
  BY Zenon DEF ReturnFromMessage
<1>2. /\ Nested(calls, end) /\ Floors(calls, kept) /\ Below(kept, index)
      /\ InOrder(kept) /\ Joined(calls, Front(calls), Top)
      /\ kept \in Seq(Slice) /\ index \in Nat /\ Top \in Activation
  BY OrderNow, Zenon
<1>3. Len(Front(calls)) # 0
  BY <1>1, <1>2 DEF Joined
<1>4. Nested(Front(calls), Top.end) /\ end <= Top.index
  BY <1>1, <1>2, <1>3, NestedPop, Zenon
<1>5. Floors(Front(calls), kept)
  BY <1>2, FloorsPop, Zenon
<1>6. Top.index \in Nat
  BY <1>2 DEF Activation
<1>7. Below(kept, Top.index)
  BY <1>1, <1>2, <1>4, <1>6, BelowMore
<1>8. QED
  BY <1>1, <1>2, <1>4, <1>5, <1>7 DEF Orderly

LEMMA OrderLeaves ==
    ASSUME IInv, IInv', OrderInv, decoder' = decoder, NEW tag \in NextTag, Leaves(tag),
           Top.does # "message",
           \/ kept' = kept
           \/ /\ Top.does = "skip" /\ Top.keep
              /\ kept' = Append(kept, [from |-> Top.from, to |-> tag.index])
    PROVE  OrderInv'
<1> SUFFICES ASSUME decoder # "fast" PROVE Orderly(calls', end', kept', index')
  BY DEF OrderInv
<1>1. calls' = Front(calls) /\ index' = tag.index /\ end' = end
  BY Zenon DEF Leaves
<1>2. /\ Nested(calls, end) /\ Floors(calls, kept) /\ Below(kept, index)
      /\ InOrder(kept) /\ Joined(calls, Front(calls), Top)
      /\ kept \in Seq(Slice) /\ index \in Nat /\ Top \in Activation
      /\ ~InSkipped(Top) => InLoops(Front(calls))
  BY OrderNow, Zenon
<1>3. tag.index \in Nat /\ index <= tag.index
  BY <1>2, TagRead
<1>4. Nested(Front(calls), end)
  BY <1>2, NestedPop, Zenon
<1>5. Floors(Front(calls), kept) /\ (~Loop(Top) => Below(kept, Top.from))
  BY <1>2, FloorsPop, Zenon
<1>6. CASE kept' = kept
  <2>1. Below(kept, tag.index)
    BY <1>2, <1>3, BelowMore, Zenon
  <2>2. QED
    BY <1>1, <1>2, <1>4, <1>5, <1>6, <2>1 DEF Orderly
<1>7. CASE /\ Top.does = "skip" /\ Top.keep
           /\ kept' = Append(kept, [from |-> Top.from, to |-> tag.index])
  <2>1. ~Loop(Top) /\ ~InSkipped(Top)
    BY <1>7 DEF Loop, InSkipped
  <2>2. PICK f, t, x, ls : /\ f = Top.from /\ t = tag.index
                           /\ x = [from |-> Top.from, to |-> tag.index] /\ ls = kept'
    OBVIOUS
  <2>3. f \in Nat /\ f <= t
    <3>1. Top.from <= index
      BY CallsAre, Zenon DEF IInv, CallsOK, Last
    <3>2. Top.from \in Nat
      BY <1>2 DEF Activation
    <3>3. QED
      BY <1>2, <1>3, <2>2, <3>1, <3>2
  <2>4. Below(ls, t) /\ InOrder(ls)
    BY <1>2, <1>3, <1>5, <1>7, <2>1, <2>2, <2>3, StoredInOrder
  <2>5. Floors(Front(calls), ls)
    BY <1>2, <2>1, LoopsFloor, Zenon
  <2>6. QED
    BY <1>1, <1>4, <2>2, <2>4, <2>5 DEF Orderly
<1>8. QED
  BY <1>6, <1>7

LEMMA OrderBytes ==
    ASSUME IInv, IInv', OrderInv, NEW tag \in NextTag, GroupBytesRead(tag)
    PROVE  OrderInv'
<1>1. PICK call, e, f : call = MessageCall(tag.index, end) /\ e = end /\ f = end'
  OBVIOUS
<1>2. /\ Top.does = "bytes" /\ calls' = Append(Front(calls), call) /\ index' = Top.from
      /\ end' = tag.index - tagSize(tag.number) /\ kept' = kept /\ decoder' = decoder
  BY <1>1 DEF GroupBytesRead, AtEndTag, OnTag
<1> SUFFICES ASSUME decoder # "fast" PROVE Orderly(calls', end', kept, index')
  BY <1>2 DEF OrderInv
<1>3. /\ Nested(calls, end) /\ Floors(calls, kept)
      /\ InOrder(kept) /\ Joined(calls, Front(calls), Top)
      /\ Front(calls) \in Seq(Activation) /\ end \in Nat
      /\ ~InSkipped(Top) => InLoops(Front(calls))
  BY OrderNow, Zenon
<1>4. call \in Activation /\ call.does = "message" /\ call.index = tag.index /\ call.end = end
  <2>1. tag.index \in Nat
    BY TagRead
  <2>2. MessageCall(tag.index, end) \in Activation
    BY <1>3, <2>1, CallTypes, Zenon
  <2>3. QED
    BY <1>1, <2>2 DEF MessageCall
<1>5. ~Loop(Top) /\ ~InSkipped(Top) /\ Loop(call) /\ Top.does # "message"
  BY <1>2, <1>4 DEF Loop, InSkipped
<1>6. f \in Nat /\ f <= tag.index /\ f <= e
  <2>1. f \in Nat
    BY <1>1 DEF IInv, ReaderOK
  <2>2. tag.index \in Nat /\ tag.index <= end
    BY TagRead
  <2>3. tagSize(tag.number) \in 1 .. 5
    BY DEF tagSize
  <2>4. QED
    BY <1>1, <1>2, <1>3, <2>1, <2>2, <2>3
<1>7. PICK cs, ds : cs = calls' /\ ds = Front(calls)
  OBVIOUS
<1>8. cs = Append(ds, call) /\ ds \in Seq(Activation) /\ cs \in Seq(Activation)
      /\ Joined(cs, ds, call)
  BY <1>2, <1>3, <1>4, <1>7, JoinedAppend
<1>9. Nested(ds, end) /\ Floors(ds, kept) /\ Below(kept, Top.from) /\ InLoops(ds)
  BY <1>3, <1>5, <1>7, NestedPop, FloorsPop, Zenon
<1>10. Nested(cs, f)
  BY <1>1, <1>3, <1>4, <1>6, <1>8, <1>9, NestedPush
<1>11. Floors(cs, kept)
  BY <1>5, <1>8, <1>9, FloorsPush, Zenon
<1>12. QED
  BY <1>1, <1>2, <1>3, <1>7, <1>9, <1>10, <1>11 DEF Orderly

LEMMA OrderTagStep ==
    ASSUME IInv, IInv', OrderInv, NEW tag \in NextTag,
           \/ WrongWireType(tag) \/ ReadScalar(tag) \/ ReadMessage(tag) \/ ReadGroup(tag)
           \/ Skip(tag) \/ OutOfMemory(tag) \/ SkipGroup(tag)
           \/ SkippedGroup(tag) \/ OutOfMemoryForGroup(tag)
           \/ GroupDecoded(tag) \/ GroupBytesRead(tag)
           \/ WrongEnd(tag)
    PROVE  OrderInv'
<1>1. ASSUME NEW error, Fail(error), decoder' = decoder PROVE OrderInv'
  BY <1>1, OrderSame, Zenon DEF Fail
<1>2. /\ tag.index \in Nat /\ index \in Nat /\ end \in Nat /\ index < tag.index
      /\ tag.index <= end /\ tag.number \in Nat
      /\ InMessage => Loop(Top)
  BY TagRead, Now
<1>3. CASE WrongWireType(tag) \/ OutOfMemory(tag) \/ OutOfMemoryForGroup(tag) \/ WrongEnd(tag)
  BY <1>1, <1>3, Zenon DEF WrongWireType, OutOfMemory, OutOfMemoryForGroup, WrongEnd,
     FieldToSkip, AtEndTag, OnTag
<1>4. CASE ReadScalar(tag)
  <2>1. PICK value : value = readVarint(input, tag.index, end)
    OBVIOUS
  <2>2. Goes(value) /\ kept' = kept /\ decoder' = decoder
    BY <1>4, <2>1, Zenon DEF ReadScalar, OnTag
  <2>3. CASE value.ok
    <3>1. index' = value.index /\ calls' = calls /\ end' = end
      BY <2>2, <2>3, Zenon DEF Goes
    <3>2. index <= index'
      <4>1. value.index \in Nat /\ tag.index <= value.index
        BY <2>1, TagRead, VarintInside
      <4>2. QED
        BY <1>2, <3>1, <4>1
    <3>3. QED
      BY <2>2, <3>1, <3>2, OrderMoves, Zenon
  <2>4. CASE ~value.ok
    BY <1>1, <2>2, <2>4, Zenon DEF Goes
  <2>5. QED
    BY <2>3, <2>4
<1>5. CASE Skip(tag)
  <2>1. PICK value : value = skipValue(input, tag.index, end, tag.wire_type)
    OBVIOUS
  <2>2. /\ Goes(value) /\ decoder' = decoder /\ tag.wire_type # StartGroup
        /\ tag.wire_type # EndGroup
        /\ IF InMessage /\ value.ok THEN Keeps(index, value.index) ELSE kept' = kept
    BY <1>5, <2>1, Zenon DEF Skip, FieldToSkip, OnTag
  <2>3. CASE value.ok
    <3>1. index' = value.index /\ calls' = calls /\ end' = end
      BY <2>2, <2>3, Zenon DEF Goes
    <3>2. index <= index'
      <4>1. value.index \in Nat /\ tag.index <= value.index
        BY <2>1, <2>2, TagRead, ValueInside
      <4>2. QED
        BY <1>2, <3>1, <4>1
    <3>3. \/ kept' = kept
          \/ Loop(Top) /\ kept' = Append(kept, [from |-> index, to |-> index'])
      BY <1>2, <2>2, <2>3, <3>1, Zenon DEF Keeps
    <3>4. QED
      BY <2>2, <3>1, <3>2, <3>3, OrderMoves, Zenon
  <2>4. CASE ~value.ok
    BY <1>1, <2>2, <2>4, Zenon DEF Goes
  <2>5. QED
    BY <2>3, <2>4
<1>6. CASE ReadMessage(tag)
  <2>1. PICK payload, call : /\ payload = readBytes(input, tag.index, end)
                             /\ call = MessageCall(payload.index, end)
    OBVIOUS
  <2>2. decoder' = decoder /\ InMessage
    BY <1>6, Zenon DEF ReadMessage, OnTag
  <2>3. \/ Fail("input") \/ Fail("recursion")
        \/ /\ payload.ok /\ calls' = Append(calls, call)
           /\ index' = payload.start /\ end' = payload.index /\ kept' = kept
    BY <1>6, <2>1, Zenon DEF ReadMessage
  <2>4. CASE /\ payload.ok /\ calls' = Append(calls, call)
             /\ index' = payload.start /\ end' = payload.index /\ kept' = kept
    <3>1. /\ payload.start \in Nat /\ payload.index \in Nat /\ tag.index <= payload.start
          /\ payload.start <= payload.index /\ payload.index <= end
      BY <2>1, <2>4, TagRead, BytesInside
    <3>2. call \in Activation
      BY <1>2, <2>1, <3>1, CallTypes, Zenon
    <3>3. call.does = "message" /\ call.end = end /\ call.index = payload.index /\ Loop(call)
      BY <2>1 DEF MessageCall, Loop
    <3>4. index <= index' /\ end' <= end /\ end' <= call.index
      BY <1>2, <2>4, <3>1, <3>3
    <3>5. QED
      BY <1>2, <2>2, <2>4, <3>2, <3>3, <3>4, OrderPushes, Zenon
  <2>5. QED
    BY <1>1, <2>2, <2>3, <2>4, Zenon
<1>7. ASSUME NEW call \in Activation, Enters(tag, call), decoder' = decoder,
             call.does # "message", ~Loop(call) => index <= call.from,
             InSkipped(call) \/ Loop(Top)
      PROVE  OrderInv'
  <2>1. \/ Fail("recursion")
        \/ /\ calls' = Append(calls, call) /\ index' = tag.index /\ end' = end
           /\ kept' = kept
    BY <1>7, Zenon DEF Enters
  <2>2. CASE /\ calls' = Append(calls, call) /\ index' = tag.index /\ end' = end
             /\ kept' = kept
    <3>1. index <= index' /\ end' <= end
      BY <1>2, <2>2
    <3>2. QED
      BY <1>7, <2>2, <3>1, OrderPushes, Zenon
  <2>3. QED
    BY <1>1, <1>7, <2>1, <2>2, Zenon
<1>8. CASE ReadGroup(tag)
  <2>1. PICK d, call : /\ d = IF decoder = "dynamic" THEN "group" ELSE "bytes"
                       /\ call = GroupCall(d, tag.number, tag.index, FALSE)
    OBVIOUS
  <2>2. Enters(tag, call) /\ InMessage /\ decoder' = decoder
    BY <1>8, <2>1, Zenon DEF ReadGroup, OnTag
  <2>3. call \in Activation
    <3>1. d \in {"group", "bytes", "skip"} /\ FALSE \in BOOLEAN /\ 0 \in Nat
      BY <2>1
    <3>2. QED
      BY <1>2, <2>1, <3>1, CallTypes, Zenon
  <2>4. call.does # "message" /\ call.from = tag.index
    BY <2>1 DEF GroupCall
  <2>5. index <= call.from
    BY <1>2, <2>4
  <2>6. QED
    BY <1>2, <1>7, <2>2, <2>3, <2>4, <2>5, Zenon
<1>9. CASE SkipGroup(tag)
  <2>1. PICK k, call : k = InMessage /\ call = GroupCall("skip", tag.number, index, k)
    OBVIOUS
  <2>2. Enters(tag, call) /\ decoder' = decoder
    BY <1>9, <2>1, Zenon DEF SkipGroup, FieldToSkip, OnTag
  <2>3. call \in Activation
    <3>1. "skip" \in {"group", "bytes", "skip"} /\ k \in BOOLEAN /\ 0 \in Nat
      BY <2>1 DEF InMessage
    <3>2. QED
      BY <1>2, <2>1, <3>1, CallTypes, Zenon
  <2>4. call.does = "skip" /\ call.from = index /\ call.keep = k
    BY <2>1 DEF GroupCall
  <2>5. index <= call.from /\ call.does # "message"
    BY <1>2, <2>4
  <2>6. InSkipped(call) \/ Loop(Top)
    BY <1>2, <2>1, <2>4, Zenon DEF InSkipped
  <2>7. QED
    BY <1>7, <2>2, <2>3, <2>5, <2>6, Zenon
<1>10. CASE SkippedGroup(tag)
  <2>1. /\ decoder' = decoder /\ Leaves(tag) /\ Top.does = "skip"
        /\ IF Top.keep THEN Keeps(Top.from, tag.index) ELSE kept' = kept
    BY <1>10, Zenon DEF SkippedGroup, AtEndTag, OnTag
  <2>2. Top.does # "message"
    BY <2>1
  <2>3. \/ kept' = kept
        \/ /\ Top.does = "skip" /\ Top.keep
           /\ kept' = Append(kept, [from |-> Top.from, to |-> tag.index])
    BY <2>1, Zenon DEF Keeps
  <2>4. QED
    BY <2>1, <2>2, <2>3, OrderLeaves, Zenon
<1>11. CASE GroupDecoded(tag)
  <2>1. decoder' = decoder /\ Leaves(tag) /\ Top.does = "group" /\ kept' = kept
    BY <1>11, Zenon DEF GroupDecoded, AtEndTag, OnTag
  <2>2. Top.does # "message"
    BY <2>1
  <2>3. QED
    BY <2>1, <2>2, OrderLeaves, Zenon
<1>12. CASE GroupBytesRead(tag)
  BY <1>12, OrderBytes, Zenon
<1>13. QED
  BY <1>3, <1>4, <1>5, <1>6, <1>8, <1>9, <1>10, <1>11, <1>12, Zenon

LEMMA OrderStep ==
    ASSUME IInv, IInv', OrderInv, [Next]_vars
    PROVE  OrderInv'
<1>1. CASE ReturnFromMessage
  BY <1>1, OrderReturn, Zenon
<1>2. CASE Complete
  BY <1>2, OrderSame, Zenon DEF Complete
<1>3. CASE Broken
  BY <1>3, OrderSame, Zenon DEF Broken, Fail
<1>4. CASE UNCHANGED vars
  BY <1>4, OrderSame, Zenon DEF vars
<1>5. QED
  BY <1>1, <1>2, <1>3, <1>4, OrderTagStep, Zenon DEF Next

LEMMA OrderStarts == Init => OrderInv
<1> SUFFICES ASSUME Init PROVE OrderInv
  OBVIOUS
<1>1. PICK c : c = MessageCall(0, 0)
  OBVIOUS
<1>2. calls = <<c>> /\ kept = <<>> /\ Len(calls) = 1 /\ calls[1] = c /\ Loop(c)
  BY <1>1 DEF Init, MessageCall, Loop
<1>3. Nested(calls, end)
  BY <1>2 DEF Nested
<1>4. Floors(calls, kept)
  <2>1. InLoops(calls)
    BY <1>2 DEF InLoops
  <2>2. QED
    BY <2>1, LoopsFloor, Zenon
<1>5. Below(kept, index) /\ InOrder(kept)
  BY <1>2 DEF Below, InOrder
<1>6. QED
  BY <1>3, <1>4, <1>5, Zenon DEF OrderInv, Orderly

-----------------------------------------------------------------------------
LEMMA MeaningIs ==
    ASSUME IInv PROVE Meaning = Means(input) /\ Meaning.done \in BOOLEAN
<1>1. PICK typed : typed = TRUE
  OBVIOUS
<1>2. Meaning = Means(input)
  BY DEF Meaning, Means, Said
<1>3. Place(input, 0, Len(input)) /\ typed \in BOOLEAN
  BY <1>1, CallsAre DEF Place
<1>4. Said(input, 0, Len(input), typed) \in Result
  BY <1>3, CallsAre, Formed, Zenon
<1>5. Means(input) \in Result
  BY <1>1, <1>4 DEF Means
<1>6. QED
  BY <1>2, <1>5 DEF Result

\* What is left of a decode is what is left of the grammar, in order.
THEOREM Tracking == Spec => [](TrackInv /\ OrderInv)
<1>1. Init => TrackInv /\ OrderInv
  BY TrackStarts, OrderStarts, Zenon
<1>2. IInv /\ IInv' /\ TrackInv /\ OrderInv /\ [Next]_vars => TrackInv' /\ OrderInv'
  BY TrackStep, OrderStep, Zenon
<1>3. QED
  BY <1>1, <1>2, Invariance, PTL DEF Spec

\* decodeStream answers what the grammar says.
THEOREM MessagesAccepted == Spec => []AcceptsMessages
<1>1. IInv /\ TrackInv => AcceptsMessages
  <2> SUFFICES ASSUME IInv, TrackInv, decoder = "dynamic", outcome \in {"ok", "input"}
               PROVE  outcome = "ok" <=> Meaning.done
    BY DEF AcceptsMessages
  <2>1. Meaning = Means(input) /\ Meaning.done \in BOOLEAN
    BY MeaningIs, Zenon
  <2>2. /\ outcome = "ok" => Means(input).done = TRUE
        /\ outcome = "input" => Means(input).done # TRUE
    BY Zenon DEF TrackInv, Tracks
  <2>3. outcome = "ok" \/ outcome = "input"
    OBVIOUS
  <2>4. QED
    BY <2>1, <2>2, <2>3
<1>2. QED
  BY <1>1, Tracking, Invariance, PTL

\* What is stored of a whole message are its unknown fields, in their order.
THEOREM UnknownKept == Spec => []UnknownFieldsKept
<1>1. IInv /\ TrackInv /\ OrderInv => UnknownFieldsKept
  <2> SUFFICES ASSUME IInv, TrackInv, OrderInv, decoder # "fast", outcome = "ok", Meaning.done
               PROVE  /\ ToSet(kept) = Meaning.unknown
                      /\ \A i, j \in DOMAIN kept : i < j => kept[i].to <= kept[j].from
    BY Zenon DEF UnknownFieldsKept, HasKept
  <2>1. Meaning = Means(input) /\ Means(input).done = TRUE
    BY MeaningIs
  <2>2. PICK p : p = AtOf(index, end, kept)
    OBVIOUS
  <2>3. p.kept = Means(input).unknown
    BY <2>1, <2>2, Zenon DEF TrackInv, Tracks
  <2>4. p.kept = ToSet(kept)
    BY <2>2, Now, Zenon
  <2>5. InOrder(kept)
    BY Zenon DEF OrderInv, Orderly
  <2>6. QED
    BY <2>1, <2>3, <2>4, <2>5, Zenon DEF InOrder
<1>2. QED
  BY <1>1, Tracking, Invariance, PTL
=============================================================================
