--------------------------- MODULE MCUnknownFields ---------------------------
(***************************************************************************)
(* Fields for TLC: numbers on both sides of the one-byte tags, a tag with  *)
(* more bytes than needed, items of a message set, and fields that are not *)
(* valid.                                                                  *)
(***************************************************************************)
EXTENDS UnknownFieldsSafety

Short == <<8, 6>>                   \* 1: varint
Long == <<136, 0, 5>>               \* the same with two bytes of tag
Sixteen == <<130, 1, 0>>            \* 16: no bytes

\* An item for 5 with a group inside; one for 4, with two type ids, the second
\* of which is truncated, and a longer end tag; the value of 4 by its own
\* number; an item that does not decode.
Five == <<11, 26, 0, 35, 36, 16, 5, 12>>
Both == <<11, 16, 5, 26, 0, 16, 132, 128, 128, 128, 16, 140, 0>>
Direct == <<34, 1, 7>>
Wrong == <<11, 18, 0, 12>>

Fields == {Long, Sixteen, Five, Both, Direct, Wrong, <<8, 5, 0>>}
FewFields == {Long, Sixteen, <<8, 5, 0>>}

\* Number 1 with six bytes of tag, which only the raw-tag loop accepts.
SixBytes == <<136, 128, 128, 128, 128, 0, 5>>

Streams == {Long \o Short, SixBytes \o Short, Long \o <<11>>}
ItemStreams == {Both \o Five, Long \o <<11>>}
=============================================================================
