--------------------------- MODULE MessageSchema ---------------------------
(***************************************************************************)
(* The message type a DynamicMessage is an instance of, as far as the      *)
(* message store looks at it: src/src/schema.zig, FieldDescriptor and      *)
(* MessageDescriptor.  A field is named by its number.  The payload of a   *)
(* field is a sequence of data:                                            *)
(*   - a scalar or enumeration value is a sequence of length one;          *)
(*   - a message or group value is the sequence of the writes made to it,  *)
(*     so that merging two nested messages is concatenating them;          *)
(*   - a map entry carries its key beside its payload.                     *)
(***************************************************************************)
EXTENDS Integers, Sequences, FiniteSets

CONSTANTS
    Field,        \* the field numbers the descriptor declares
    Kind,         \* Kind[f]: "scalar", "closed_enum", "message" or "map"
    Repeated,     \* the fields of cardinality .repeated that are not maps
    Oneof,        \* Oneof[f]: the oneof f belongs to, or NoOneof
    NoOneof,
    Key,          \* map keys
    NoKey,        \* the "key" of a value that is not a map entry
    Datum,        \* scalar payloads and elements of nested messages
    EnumNumber,   \* the data that are declared numbers of the closed enums
    EnumMap,      \* the maps whose values are of a closed enum
    EnumZero      \* the number 0, which a closed enum need not declare

\* Field numbers start at 1 (schema.zig, parser.zig parseFieldNumber).
ASSUME FieldAssumption == Field \subseteq Nat \ {0}

ASSUME KindAssumption ==
    Kind \in [Field -> {"scalar", "closed_enum", "message", "map"}]

\* The .repeated cardinality the parser gives to a map is folded into its kind.
ASSUME RepeatedAssumption ==
    Repeated \subseteq {f \in Field : Kind[f] # "map"}

ASSUME KeyAssumption == NoKey \notin Key

ASSUME EnumAssumption == EnumNumber \subseteq Datum /\ EnumZero \in Datum

ASSUME EnumMapAssumption == EnumMap \subseteq {f \in Field : Kind[f] = "map"}

isRepeatedLike(f) == f \in Repeated \/ Kind[f] = "map"

\* parser.zig parseField rejects repeated, map and labelled oneof members.
ASSUME OneofAssumption ==
    /\ DOMAIN Oneof = Field
    /\ \A f \in Field : Oneof[f] # NoOneof => ~isRepeatedLike(f)

OneofName == {Oneof[f] : f \in Field} \ {NoOneof}

Members(o) == {f \in Field : Oneof[f] = o}

\* The other members of f's oneof: what a write to f has to remove.
Siblings(f) == IF Oneof[f] = NoOneof THEN {} ELSE Members(Oneof[f]) \ {f}

Value == [key : Key \cup {NoKey}, body : Seq(Datum)]

Scalar(d) == [key |-> NoKey, body |-> <<d>>]
Nested(s) == [key |-> NoKey, body |-> s]
MapEntry(k, d) == [key |-> k, body |-> <<d>>]

\* The values Reflection.validateValueForField accepts for f, nested messages
\* up to m writes long.
ValuesFor(f, m) ==
    CASE Kind[f] = "map"     -> {MapEntry(k, d) : k \in Key, d \in Datum}
      [] Kind[f] = "message" -> {Nested(s) : s \in UNION {[1..n -> Datum] : n \in 0..m}}
      [] OTHER               -> {Scalar(d) : d \in Datum}

shouldMergeSingularMessageField(f) == Kind[f] = "message" /\ f \notin Repeated
=============================================================================
