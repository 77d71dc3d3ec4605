----------------------------- MODULE CppProgram -----------------------------
(***************************************************************************)
(* What bench/cpp_protobuf/main.cc times, and what it prepares before: the *)
(* calls it makes of the C++ protobuf library, in its order.  A payload is *)
(* named by the message it is of, whether that is wrapped in an Any, and   *)
(* how it is spelled; its contents belong to the library.  The variables   *)
(* of a benchmark always belong together in the code (person, bytes,       *)
(* array_buffer sized by bytes), so one payload stands for all of them.    *)
(***************************************************************************)
EXTENDS Integers, SequencesExt

CONSTANTS
    kIterations,         \* 20000
    UnknownIterations    \* 1000, of the decode of unknown fields

PayloadOf(of, any, as) == [of |-> of, any |-> any, as |-> as]

\* The bytes of SerializeToString, what MessageToJsonString prints without
\* options, what TextFormat prints.
Binary(message) == PayloadOf(message, FALSE, "binary")
Json(message) == PayloadOf(message, FALSE, "json")
Text(message) == PayloadOf(message, FALSE, "text")

\* JSON printed with options, or a literal.
Spelled(message, as) == PayloadOf(message, FALSE, as)

UnknownBytes == PayloadOf("person", FALSE, "unknown")

-----------------------------------------------------------------------------
(* Benchmarks: the call in the body of the lambda, the payload, and where  *)
(* the object comes from that the call fills: made anew by the body, or    *)
(* captured; then the body clears it first, or it is a buffer that is      *)
(* written from its beginning.                                             *)
Bench(does, on) ==
    [does |-> does, on |-> on, object |-> "new", iterations |-> kIterations]

\* Clear() or clear(), then the call.
Reused(bench) == [bench EXCEPT !.object = "cleared"]

InBuffer(bench) == [bench EXCEPT !.object = "buffer"]

\* Fault: the clear is forgotten.
Uncleared(bench) == [bench EXCEPT !.object = "kept"]

Encode(message) == Bench("encode", Binary(message))
ToArray(message) == InBuffer(Bench("array", Binary(message)))
Deterministic(message) == InBuffer(Bench("deterministic", Binary(message)))
Decode(message) == Bench("decode", Binary(message))
Stringify(json) == Bench("stringify", json)
Parse(json) == Bench("parse", json)
Format(message) == Bench("format", Text(message))
Read(message) == Bench("read", Text(message))

Both(bench) == <<bench, Reused(bench)>>

\* encode, encode reuse, SerializeToArray reuse, decode, decode reuse
BinaryBenchmarks(message) ==
    Both(Encode(message)) \o <<ToArray(message)>> \o Both(Decode(message))

JsonBenchmarks(message) == <<Stringify(Json(message)), Parse(Json(message))>>

PersonBenchmarks ==
    Both(Encode("person")) \o <<ToArray("person"), Deterministic("person")>>
        \o Both(Decode("person"))
        \o <<[Bench("decode_unknown", UnknownBytes) EXCEPT !.iterations = UnknownIterations],
             Bench("count_unknown", UnknownBytes)>>

\* Fault: the scalar message that is decoded again keeps what it holds.
ScalarMixUncleared ==
    <<Encode("scalarmix"), ToArray("scalarmix"), Decode("scalarmix"),
      Uncleared(Decode("scalarmix"))>>

ScalarMixBenchmarks ==
    <<Encode("scalarmix"), ToArray("scalarmix")>> \o Both(Decode("scalarmix"))

TextBytesBenchmarks == BinaryBenchmarks("textbytes") \o JsonBenchmarks("textbytes")

LargeBytesBenchmarks == BinaryBenchmarks("largebytes")

PresenceMixBenchmarks == BinaryBenchmarks("presencemix") \o JsonBenchmarks("presencemix")

ComplexBinaryBenchmarks ==
    Both(Encode("complex")) \o <<ToArray("complex"), Deterministic("complex")>>
        \o Both(Decode("complex"))

ComplexJsonBenchmarks ==
    Both(Stringify(Json("complex"))) \o Both(Parse(Json("complex")))
        \o <<Stringify(Spelled("complex", "proto_name")), Parse(Spelled("complex", "proto_name"))>>
        \o Both(Format("complex")) \o Both(Read("complex"))

JsonStringifyBenchmarks ==
    <<Stringify(Json("person")), Stringify(Json("scalarmix")),
      Stringify(Spelled("empty_person", "always_print")),
      Stringify(Spelled("scalarmix", "proto_name_stringify")),
      Stringify(Spelled("scalarmix", "enum_number")),
      Reused(Stringify(Json("person")))>>

JsonParseBenchmarks ==
    Both(Parse(Json("person")))
        \o <<Parse(Json("scalarmix")),
             Parse(Spelled("person", "map_key_surrogate")),
             Parse(Spelled("person", "null_fields")),
             Parse(Spelled("person", "ignore_unknown")),
             Parse(Spelled("scalarmix", "open_enum")),
             Parse(Spelled("scalarmix", "enum_name")),
             Parse(Spelled("scalarmix", "proto_name")),
             Parse(Spelled("scalarmix", "int_exponent")),
             Parse(Spelled("scalarmix", "string_number"))>>

TextFormatBenchmarks == Both(Format("person")) \o Both(Read("person"))

\* The messages made by MakeFixedPacked to MakeEnumPacked.
PackedMessages ==
    <<"fixed_packed", "fixed64_packed", "sfixed_packed", "sfixed64_packed", "float_packed",
      "double_packed", "uint64_packed", "uint32_packed", "int64_packed", "sint32_packed",
      "sint64_packed", "bool_packed", "enum_packed">>

PackedBenchmarks == BinaryBenchmarks("packed")

OtherPackedBenchmarks ==
    FlattenSeq([i \in DOMAIN PackedMessages |->
        <<Encode(PackedMessages[i]), ToArray(PackedMessages[i])>>
            \o Both(Decode(PackedMessages[i]))])

LargeMapBenchmarks ==
    <<Encode("large_map"), ToArray("large_map"), Deterministic("shuffled_large_map")>>
        \o Both(Decode("large_map")) \o JsonBenchmarks("large_map")

-----------------------------------------------------------------------------
(* Well-known types.  A row is a message with what MessageToJsonString     *)
(* prints for it ("json"), or with a literal of another spelling.          *)
Row(of, as) == <<[of |-> of, as |-> as]>>

Printed(messages) == [i \in DOMAIN messages |-> [of |-> messages[i], as |-> "json"]]

Spellings(of, forms) == [i \in DOMAIN forms |-> [of |-> of, as |-> forms[i]]]

\* RunWktJsonBenchPair for what was printed, RunWktJsonParseOnly for a literal
\* (some of these calls are written out).
RunWktJson(any, rows) ==
    FlattenSeq([i \in DOMAIN rows |->
        LET json == PayloadOf(rows[i].of, any, rows[i].as)
        IN  IF rows[i].as = "json" THEN <<Stringify(json), Parse(json)>> ELSE <<Parse(json)>>])

Durations ==
    Spellings("duration", <<"json", "escape", "plus", "short_fraction">>)
        \o Printed(<<"micro_duration", "nano_duration", "negative_duration",
                     "fractional_negative_duration", "max_duration", "min_duration",
                     "zero_duration">>)

FieldMasks == Spellings("field_mask", <<"json", "escape">>) \o Printed(<<"empty_field_mask">>)

Timestamps ==
    Spellings("timestamp", <<"json", "escape", "short_fraction">>)
        \o Printed(<<"micro_timestamp", "nano_timestamp">>) \o Row("timestamp", "offset")
        \o Printed(<<"pre_epoch_timestamp", "max_timestamp", "min_timestamp">>)

Tree == <<"json", "escape", "number_exponent", "surrogate", "key_surrogate">>
Letters == <<"json", "escape", "surrogate">>

Structs ==
    Printed(<<"empty">>) \o Spellings("struct", Tree) \o Printed(<<"empty_struct">>)

Values ==
    Spellings("value", Tree) \o Printed(<<"null_value">>)
        \o Spellings("string_scalar_value", Letters) \o Printed(<<"empty_string_scalar_value">>)
        \o Spellings("number_value", <<"json", "exponent">>)
        \o Printed(<<"negative_number_value", "zero_number_value", "bool_scalar_value",
                     "false_bool_scalar_value">>)
        \o Spellings("list_kind_value", Letters)
        \o Printed(<<"empty_struct_kind_value", "empty_list_kind_value">>)

ListValues == Spellings("list_value", Letters) \o Printed(<<"empty_list_value">>)

Shared == Durations \o FieldMasks \o Timestamps \o Structs \o Values

AnyBenchmarks ==
    RunWktJson(TRUE, Shared \o Printed(<<"string_value", "bytes_value", "nested">>))

WktBenchmarks == RunWktJson(FALSE, Shared \o ListValues)

\* A wrapper type: the spellings of one value, then other values of it.
Wrapper(of, forms, others) ==
    [spelled |-> Spellings(of, forms), others |-> Printed(others)]

FloatingWrappers ==
    <<Wrapper("double_value", <<"json", "string", "exponent">>,
              <<"negative_double_value", "zero_double_value", "double_value_nan",
                "double_value_inf", "double_value_neg_inf">>),
      Wrapper("float_value", <<"json", "string", "exponent">>,
              <<"negative_float_value", "zero_float_value", "float_value_nan",
                "float_value_inf", "float_value_neg_inf">>)>>

LongWrappers ==
    <<Wrapper("int64_value", <<"json", "number", "exponent">>,
              <<"zero_int64_value", "negative_int64_value", "min_int64_value",
                "max_int64_value">>),
      Wrapper("uint64_value", <<"json", "number", "exponent">>,
              <<"zero_uint64_value", "max_uint64_value">>)>>

IntWrappers ==
    <<Wrapper("int32_value", <<"json", "string", "exponent">>,
              <<"zero_int32_value", "negative_int32_value", "min_int32_value",
                "max_int32_value">>),
      Wrapper("uint32_value", <<"json", "string", "exponent">>,
              <<"zero_uint32_value", "max_uint32_value">>)>>

BoolWrappers == <<Wrapper("bool_value", <<"json">>, <<"false_bool_value">>)>>

DirectAndAny(rows) ==
    FlattenSeq([i \in DOMAIN rows |->
        RunWktJson(FALSE, <<rows[i]>>) \o RunWktJson(TRUE, <<rows[i]>>)])

WrapperBenchmarks(wrappers) ==
    FlattenSeq([i \in DOMAIN wrappers |->
        RunWktJson(FALSE, wrappers[i].spelled) \o RunWktJson(TRUE, wrappers[i].spelled)
            \o DirectAndAny(wrappers[i].others)])

\* Strings and bytes, whose values in an Any come among the others above.
Strings == Spellings("string_value", <<"escape", "surrogate">>)
Bytes == Spellings("bytes_value", <<"url", "standard_base64", "unpadded">>)

StringBenchmarks ==
    RunWktJson(FALSE, Row("string_value", "json") \o Strings) \o RunWktJson(TRUE, Strings)
        \o DirectAndAny(Printed(<<"empty_string_value">>))

BytesBenchmarks ==
    RunWktJson(FALSE, Row("bytes_value", "json") \o Bytes) \o RunWktJson(TRUE, Bytes)
        \o DirectAndAny(Printed(<<"empty_bytes_value">>))

-----------------------------------------------------------------------------
(* main, in its order *)

MainBenchmarks ==
    PersonBenchmarks \o ScalarMixBenchmarks \o TextBytesBenchmarks \o LargeBytesBenchmarks
        \o PresenceMixBenchmarks \o ComplexBinaryBenchmarks \o ComplexJsonBenchmarks
        \o JsonStringifyBenchmarks \o JsonParseBenchmarks
        \o AnyBenchmarks \o WktBenchmarks \o WrapperBenchmarks(FloatingWrappers)
        \o WrapperBenchmarks(LongWrappers) \o WrapperBenchmarks(IntWrappers)
        \o WrapperBenchmarks(BoolWrappers) \o StringBenchmarks \o BytesBenchmarks
        \o TextFormatBenchmarks \o PackedBenchmarks \o OtherPackedBenchmarks
        \o LargeMapBenchmarks

(* Preparation: each step makes one call for some payloads.  What a step   *)
(* expects of the result (find, the values of the message parsed back) is  *)
(* part of the call: a result that is not as expected is a refusal.        *)
Step(does, on) == <<[does |-> does, on |-> on]>>

\* Prints JSON and parses it back.
StringifyAndParse(json) == Step("stringify", {json}) \o Step("parse", {json})

PreparePerson ==
    Step("encode", {Binary("person")}) \o Step("decode_unknown", {UnknownBytes})

PrepareJson ==
    Step("stringify", {Json("person")})
        \o StringifyAndParse(Json("scalarmix"))
        \o Step("stringify", {Spelled("empty_person", "always_print")})
        \o Step("stringify", {Spelled("scalarmix", "proto_name_stringify")})
        \o Step("stringify", {Spelled("scalarmix", "enum_number")})
        \o StringifyAndParse(Json("presencemix"))

\* The literals that are parsed once to see what they mean; map_key_surrogate is
\* not.
PrepareLiterals ==
    Step("parse", {Spelled("person", as) : as \in {"null_fields", "ignore_unknown"}})
        \o Step("parse", {Spelled("scalarmix", as) :
              as \in {"open_enum", "enum_name", "proto_name", "int_exponent", "string_number"}})

PrepareBytes ==
    Step("format", {Text("person")})
        \o Step("encode", {Binary("scalarmix"), Binary("textbytes")})
        \o StringifyAndParse(Json("textbytes"))
        \o Step("encode", {Binary("largebytes"), Binary("presencemix"), Binary("complex")})
        \o Step("stringify", {Json("complex")})
        \o StringifyAndParse(Spelled("complex", "proto_name"))
        \o Step("format", {Text("complex")})

\* JsonStringFor, for the rows that are printed; literals are not parsed here.
JsonStringFor(any, rows) ==
    {PayloadOf(row.of, any, "json") : row \in {r \in ToSet(rows) : r.as = "json"}}

DirectAndAnyJson(rows) == JsonStringFor(FALSE, rows) \cup JsonStringFor(TRUE, rows)

PrepareDurations == Step("stringify", DirectAndAnyJson(Durations))
PrepareFieldMasks == Step("stringify", DirectAndAnyJson(FieldMasks))
PrepareTimestamps == Step("stringify", DirectAndAnyJson(Timestamps))
PrepareStructs == Step("stringify", DirectAndAnyJson(Structs))
PrepareValues ==
    Step("stringify", DirectAndAnyJson(Values) \cup JsonStringFor(FALSE, ListValues))

PrepareWrappers(wrappers) ==
    Step("stringify", UNION {DirectAndAnyJson(wrapper.spelled \o wrapper.others) :
                                wrapper \in ToSet(wrappers)})

PrepareStrings ==
    Step("stringify", DirectAndAnyJson(Printed(<<"string_value", "empty_string_value">>))
                          \cup JsonStringFor(TRUE, Printed(<<"nested">>)))

PrepareBytesValues ==
    Step("stringify", DirectAndAnyJson(Printed(<<"bytes_value", "empty_bytes_value">>)))

PreparePacked ==
    Step("encode", {Binary("packed")} \cup {Binary(message) : message \in ToSet(PackedMessages)})

\* Fault: the shuffled map is only made.
PrepareOneMap ==
    Step("encode", {Binary("large_map")}) \o StringifyAndParse(Json("large_map"))

PrepareMaps ==
    Step("encode", {Binary("large_map")}) \o StringifyAndParse(Json("large_map"))
        \o Step("encode", {Binary("shuffled_large_map")})

MainPreparation ==
    PreparePerson \o PrepareJson \o PrepareLiterals \o PrepareBytes
        \o PrepareDurations \o PrepareFieldMasks \o PrepareTimestamps \o PrepareStructs
        \o PrepareValues \o PrepareWrappers(FloatingWrappers) \o PrepareWrappers(LongWrappers)
        \o PrepareWrappers(IntWrappers) \o PrepareWrappers(BoolWrappers)
        \o PrepareStrings \o PrepareBytesValues \o PreparePacked \o PrepareMaps

\* All payloads of the program.
MainPayloads ==
    UNION {step.on : step \in ToSet(MainPreparation)} \cup {b.on : b \in ToSet(MainBenchmarks)}
=============================================================================
