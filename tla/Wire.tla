-------------------------------- MODULE Wire --------------------------------
(***************************************************************************)
(* The byte level of src/src/wire.zig: varints, tags, fixed-width and      *)
(* length-delimited values, as functions of an input, a position in it and *)
(* the end of the slice being read.  A position is the number of bytes     *)
(* before it, as Reader.index is.  Every function returns where the next   *)
(* byte is read and whether the value was well-formed; what a value is     *)
(* matters only for tags and lengths.                                      *)
(***************************************************************************)
EXTENDS Integers, Sequences

Byte == 0 .. 255

MaxVarint == 10         \* bytes of a u64: nine times 7 bits and bit 63
MaxTag == 5             \* bytes nextTag accepts for a tag

\* Positions and lengths from here on are the same to every comparison the
\* reader makes: bound, no input is this long.
Huge == 268435456

\* readVarintAt reads up to the first byte below 0x80.
readVarint(s, i, end) ==
    LET last == {k \in 1 .. MaxVarint :
                    /\ i + k <= end /\ s[i + k] < 128
                    /\ \A j \in 1 .. k - 1 : s[i + j] >= 128}
    IN  IF last # {}
        THEN LET k == CHOOSE k \in last : TRUE
             IN  [ok |-> k < MaxVarint \/ s[i + k] <= 1, index |-> i + k]
        ELSE [ok |-> FALSE, index |-> IF end - i < MaxVarint THEN end ELSE i + MaxVarint]

\* The k-th group of 7 bits of the varint between i and j.
Digit(s, i, j, k) == IF i + k <= j THEN s[i + k] % 128 ELSE 0

Length(s, i, j) ==
    IF \E k \in 5 .. MaxVarint : Digit(s, i, j, k) # 0 THEN Huge
    ELSE Digit(s, i, j, 1) + 128 * (Digit(s, i, j, 2)
            + 128 * (Digit(s, i, j, 3) + 128 * Digit(s, i, j, 4)))

-----------------------------------------------------------------------------
(* Tags *)

Varint == 0
Fixed64 == 1
LengthDelimited == 2
StartGroup == 3
EndGroup == 4
Fixed32 == 5

WireType == Varint .. Fixed32

MaxFieldNumber == 536870911     \* what 29 bits hold
FieldNumber == 1 .. MaxFieldNumber

\* Tag.decode: 29 bits of number, 3 of wire type, no other bit.
Number(s, i, j) ==
    IF Digit(s, i, j, 5) > 15 \/ \E k \in 6 .. MaxVarint : Digit(s, i, j, k) # 0
    THEN 0
    ELSE (Digit(s, i, j, 1) \div 8)
            + 16 * (Digit(s, i, j, 2) + 128 * (Digit(s, i, j, 3)
                + 128 * (Digit(s, i, j, 4) + 128 * Digit(s, i, j, 5))))

\* A tag of at most longest bytes; number 0 and wire types 6 and 7 are refused.
readTag(s, i, end, longest) ==
    LET v == readVarint(s, i, end)
        n == Number(s, i, v.index)
        w == Digit(s, i, v.index, 1) % 8
    IN  [ok |-> v.ok /\ v.index - i <= longest /\ n # 0 /\ w \in WireType,
         index |-> v.index, number |-> n, wire_type |-> w]

\* The size writeTag gives to a tag: the canonical one.
tagSize(number) ==
    IF number < 16 THEN 1
    ELSE IF number < 2048 THEN 2
    ELSE IF number < 262144 THEN 3
    ELSE IF number < 33554432 THEN 4
    ELSE 5

-----------------------------------------------------------------------------
(* Values *)

\* Fault: the bytes that are left are not counted.
AdvanceUnchecked(i, end, n) == [ok |-> TRUE, index |-> i + n]

\* checkedAvailable
Advance(i, end, n) == [ok |-> end - i >= n, index |-> IF end - i >= n THEN i + n ELSE i]

\* A length and that many bytes; start is where they begin.
readBytes(s, i, end) ==
    LET v == readVarint(s, i, end)
        b == Advance(v.index, end, Length(s, i, v.index))
    IN  [ok |-> v.ok /\ b.ok, index |-> b.index, start |-> v.index]

\* skipValue of everything but a group.
skipValue(s, i, end, wire_type) ==
    CASE wire_type = Varint  -> readVarint(s, i, end)
      [] wire_type = Fixed64 -> Advance(i, end, 8)
      [] wire_type = Fixed32 -> Advance(i, end, 4)
      [] OTHER -> [ok |-> readBytes(s, i, end).ok, index |-> readBytes(s, i, end).index]
=============================================================================
