--------------------------- MODULE MCMessageReader ---------------------------
(***************************************************************************)
(* Inputs for TLC: all sequences of a few pieces of a message, most of     *)
(* them whole tags or fields, some written with more bytes than needed,    *)
(* some broken.                                                            *)
(***************************************************************************)
EXTENDS MessageReaderSafety

CONSTANT MaxPieces  \* bound: pieces of an input

\* Field 1 is a scalar, 2 a group, 3 a message; 4 and 5 are unknown.
Piece ==
    {<<8, 5>>,                            \* 1: varint
     <<10, 1, 0>>,                        \* 1: one byte, length-delimited
     <<19>>, <<20>>, <<148, 0>>,          \* 2: start, end, end in two bytes
     <<26, 2>>, <<26, 131, 0>>,           \* 3: a message of two bytes, of three
     <<35>>, <<36>>, <<164, 0>>,          \* 4: start, end, end in two bytes
     <<35, 36>>,                          \* 4: a group of no fields
     <<160, 0, 133, 0>>,                  \* 4: varint, all in two bytes
     <<45, 0, 8, 0, 0>>,                  \* 5: fixed32
     <<33, 0, 0, 8, 0, 0, 0, 0, 0>>,      \* 4: fixed64
     <<34, 9>>,                           \* 4: nine bytes
     <<168, 128, 128, 128, 128, 0, 1>>,   \* 5: varint, the tag in six bytes
     <<0>>, <<128>>}                      \* no field number, no end

Inputs == {FlattenSeq(p) : p \in UNION {[1 .. n -> Piece] : n \in 0 .. MaxPieces}}
=============================================================================
