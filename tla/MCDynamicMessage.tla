-------------------------- MODULE MCDynamicMessage --------------------------
(***************************************************************************)
(* Message types for TLC: a oneof of a scalar and a message beside a       *)
(* repeated closed enum and a scalar; two maps; and a repeated closed enum *)
(* beside a map with values of it, which does not declare 0.               *)
(***************************************************************************)
EXTENDS DynamicMessageSafety

CONSTANTS choice, plain, k1, k2, d1, d2

OneofField == {1, 2, 5, 6}
OneofKind == [f \in OneofField |->
    CASE f = 2 -> "message" [] f = 5 -> "closed_enum" [] OTHER -> "scalar"]
OneofOneof == [f \in OneofField |-> IF f \in {1, 2} THEN choice ELSE plain]

MapField == {1, 4}
MapKind == [f \in MapField |-> "map"]
MapOneof == [f \in MapField |-> plain]

\* A repeated closed enum, packed or not, and a map with values of it.
EnumField == {1, 4}
EnumKind == [f \in EnumField |-> IF f = 1 THEN "closed_enum" ELSE "map"]
EnumOneof == [f \in EnumField |-> plain]

OneofSource ==
    {[values |-> <<[number |-> 2, value |-> Nested(<<d1>>)],
                   [number |-> 6, value |-> Scalar(d1)]>>,
      unknown |-> <<>>]}

MapSource ==
    {[values |-> <<[number |-> 4, value |-> MapEntry(k1, d1)],
                   [number |-> 1, value |-> MapEntry(k2, d1)],
                   [number |-> 1, value |-> MapEntry(k1, d2)]>>,
      unknown |-> <<>>]}

EnumSource ==
    {[values |-> <<[number |-> 1, value |-> Scalar(d1)]>>,
      unknown |-> <<[number |-> 1, data |-> d2], [number |-> 9, data |-> d1]>>]}
=============================================================================
