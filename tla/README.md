# TLA+ models and proofs of pbz

pbz is a protobuf toolkit in Zig: a parser for `.proto` files, a registry of
schemas, messages whose type is known only at run time, the wire, JSON and text
formats, reflection, a code generator and a conformance runner. This directory
holds TLA+ modules that model the parts of it that keep state, the TLC runs
that check them on small instances, and theorems about them that TLAPS proves
for every value of their constants. Line numbers below are of the files in
`src/src/`, those of `main.cc` of `src/bench/cpp_protobuf/main.cc`.

pbz is single-threaded and nothing it keeps survives the process. What makes it
hard to get right is not interleaving of threads but *interruption*: almost
every operation allocates, any allocation may fail, input may end or be
malformed at any record, and an operation that returns an error leaves the
object it worked on to be used again. The other sources of trouble are storage
order (`swapRemove` everywhere), in-place compaction with two indexes, calls
that combine in ways nobody wrote a test for, and recursion over graphs the
user supplies (imports) with errors that some activations swallow.

## The parts of the system

| part | state it keeps | operations | hard about it | what makes it correct |
|---|---|---|---|---|
| message store (`dynamic.zig`, setters in `reflect.zig`) | an array of entries (field, values) in storage order; an array of unknown fields | add, set, clear*, remove, swap, setRepeatedValue, clearMapEntry, clearOneof, mergeFrom, copyFrom, decode, unknown-field edits | failure between two allocations; removal while scanning; decode defers map deduplication to its end | one entry per field, one member per oneof, one value per singular field, one entry per map key; storage order never shows |
| map entry and message-set decoding (`dynamic.zig`) | owned key and value, type id and payload | decodeMapEntryValue, decodeMessageSetItem | repeated parts of an entry, errors between freeing and replacing | each owned value is freed once; last one wins |
| encoders (`dynamic.zig`) | none | encode, encodedSize, deterministic order | size computed apart from the bytes; presence rules | decode(encode(m)) = m; size = length |
| wire format (`wire.zig`) | a cursor, a recursion depth | varints, tags, groups, skip, cutting out unknown fields | ten-byte varints, non-minimal tags, depth budget across nested readers | every read moves the cursor past exactly what it read or fails |
| unknown fields of generated messages (`wire.zig` 105-568 and the methods `codegen.zig` emits) | a table of byte slices, each an allocation of its own | append, merge, clone, decode, decodeReuse, clear, extension helpers; queries by number, deterministic order | ownership moves field by field between a message, a call and the allocator, and any allocation may fail; tags with more bytes than needed; message-set items | every block has one owner; a call does all or nothing; the fast queries agree with the slow ones |
| schema (`schema.zig`) | descriptors, immutable after parsing | lookups, features | feature inheritance | lookups agree with declarations |
| parser (`parser.zig`) | tokens, a FileDescriptor being built | one recursive descent per declaration | dozens of validity rules | what it accepts satisfies what the store and the registry assume |
| registry (`registry.zig`) | the list of added files | addFile, validateAllFileReferences, visibility, name lookup | public imports, a chain limit of 32, the tolerance for weak imports | a name resolves exactly if an import path makes it visible |
| loader (`loader.zig`) | the result, `loading`, `loaded`, the call stack | loadMemory, loadDir | cycles; errors unwinding; weak imports that fail half way | files come after their imports; the answer is true of the sources; it returns |
| reflection (`reflect.zig`) | none of its own | typed access to a message store | set and add free their argument when they fail | same as the message store |
| JSON, text, well-known types (`json.zig`, `text.zig`, `wkt.zig`) | none | conversions | ranges, presence | round trips |
| descriptor bridge, code generator, plugin (`descriptor.zig`, `codegen.zig`, `plugin.zig`) | none | conversions of descriptors to bytes and text | volume | round trips; text is outside a model |
| comparison benchmark (`bench/cpp_protobuf/main.cc`) | the prepared payloads, the objects that benchmarks reuse, the samples | prepare, RunTimed, print | 474 benchmarks written by hand that share objects and payloads; a call that aborts, or that is slow the first time, must not meet a sample | each row is the time of the same work, done the same way |
| conformance runner (`conformance.zig`, `pbz_conformance.zig`) | none between requests | read a request, answer it | a malformed frame ends the process | one answer per request, in order |

The parser gives `FileDescriptor`s to the loader, which adds them to a registry
in load order. The registry gives descriptors to the message store and the
codecs, which look types up through it. Reflection and the decoders write the
message store through the same `add`. Everything is a direct call; there are no
callbacks, threads, queues or files written. The benchmark program is apart: it
measures the C++ library on the same messages and shares nothing with pbz but
their schema.

## Modules

| module | models | role |
|---|---|---|
| `MessageSchema` | `schema.zig` and `parser.zig`, as far as the store depends on them | constants of a message type with named assumptions, values, oneof members |
| `FieldStore` | `dynamic.zig` 64-356, 527-540 | operators on the field array: lookup, swapRemove, map slots, the three listing algorithms |
| `Message` | nothing: it is the abstract specification | a message as a function from fields to contents |
| `DynamicMessage` | `dynamic.zig` 105-1172, `reflect.zig` 3061-3272 | one message and every call on it, one action per loop iteration or step between two allocations |
| `DynamicMessageSafety` | | its properties and the refinement of `Message` |
| `DynamicMessageProofs` | | lemmas about the operators; the inductive invariant and its theorems |
| `Subsequence` | nothing of its own | the members of a sequence at a set of positions, in their order |
| `CommonProofs` | | lemmas that several proofs rest on: subsequences, what `Wire` reads of a slice and of a longer one, induction by a rank, recursive functions that exist |
| `MessageRefinementProofs` | | that `DynamicMessage` implements `Message`, and the two action properties of `DynamicMessageSafety` |
| `Wire` | `wire.zig` 15-103, 1419-1621 | operators: varints in ten bytes, tags, lengths, skipping a value |
| `MessageReader` | `wire.zig` 1362-1562, the decode loops of `dynamic.zig` 1040-1154, 1591-1640, 1741-1789 and those `codegen.zig` 5331-5424 emits | one decode of bytes: an iteration of a loop over tags per step, the recursive calls as a stack |
| `MessageReaderSafety` | | its properties, stated with a grammar of messages |
| `MessageReaderProofs` | | the inductive invariant of a decode and its theorems |
| `RawField` | `wire.zig` 105-358, 430-450, 484-529, 1518-1562, `codegen.zig` 5404-5424, 11533-11567 | operators on the bytes of one unknown field: number, validity, matcher, runs, order, message-set items |
| `UnknownFields` | `wire.zig` 360-482, 531-568; `codegen.zig` 3368-3440, 4057-4068, 4328-4400, 5314-5424, 5577-5616, 11218-11297 | the unknown fields of a few messages of one generated type, one allocation per step |
| `UnknownFieldLog` | nothing: it is the abstract specification | a message as a list of the bytes of its unknown fields |
| `UnknownFieldsSafety` | | the properties of `UnknownFields` and the refinement of `UnknownFieldLog` |
| `UnknownFieldsProofs` | | its inductive invariant and theorems, among them ownership and the refinement of `UnknownFieldLog` |
| `Registry` | `registry.zig` 54-258, 610-802 | operators: visibility, lookup, conflicts, validation of references |
| `Loader` | `loader.zig` 50-93 and 316-368 | one load: the activations of `loadOne` as a stack, then `addFile` and validation |
| `LoaderSafety` | | its properties, stated over paths through the import graph |
| `LoaderProofs` | | the inductive invariant of a load and its theorems |
| `OwnedValues` | `dynamic.zig` 519-542, 635-646, 1643-1740, 1992-2013, `reflect.zig` 3229-3251, 3691-3779 | who frees the values of a message: map entries as they are decoded, and values that Reflection's calls hand over |
| `OwnedValuesProofs` | | its inductive invariant and theorems |
| `CppProgram` | `main.cc` 77-3843, without the fixtures | what the benchmark program prepares and times: the calls of each lambda with their payload, in the order of `main` |
| `CppFixtures` | `main.cc` 25-32, 126-152, 265-289 | the two fixtures it computes: a payload of unknown fields and a shuffled map |
| `CppBenchmark` | `main.cc` 24-75 and the control of `main` | one run of the program, one call of the library per step |
| `CppBenchmarkSafety`, `CppBenchmarkProofs` | | its properties; the inductive invariant and its theorems |
| `MCDynamicMessage`, `MCMessageReader`, `MCUnknownFields`, `MCLoader`, `MCCppBenchmark` | | small message types, inputs and source trees for TLC |

### DynamicMessage

`fields` and `unknown_fields` are the two arrays of the code. `pc`, `op`,
`fld`, `val`, `drop`, `idx`, `rd`, `wr`, `src`, `records` are the frame of the
call in progress: which call, the arguments of `add`, the loop indexes. A call
begins with a `Call...` action and ends in `Finish`; between, each action is a
loop iteration (`ClearSibling`, `Compact`, `RetainUnknown`, `MergeField`,
`DecodeField`) or the code between two allocations (`Create`, `Place`), and each
allocation has an action in which it fails (`CreateFails`, `PlaceFails`,
`MergeSingularFails`, `MergeFails`, `CompactFails`, `DecodeFails`). `decode` and
`mergeFrom` go through the same `add` steps as a client's `add`, as in the code.
Calls that do not allocate are one action (`Immediate`). `capacity` remembers
that an array that shrank by `swapRemove` can grow again without allocating, so
that `getOrCreateMutable` cannot fail right after a removal. `prior` and
`denormalized` are history variables for the properties.

Data is abstracted as follows. A field is its number. A scalar is one datum; a
nested message is the sequence of the writes made to it, so merging two is
concatenation; a map entry is a key and a datum. An input to `decode` is chosen
record by record: a declared field with a well-formed value, an unknown number
or an undeclared number of a closed enum, a packed payload, or a malformed
record (`DecodeFails`). An undeclared number of a closed enum becomes an unknown
field, and so does a whole map entry with one (`DecodeUnknown`; `EnumMap` are the
maps with such values). A map entry without a value gets 0 (`EnumZero`), whether
or not the enum declares it. `add` validates its argument before it changes
anything; only validated values enter the model.

The abstract `Message` says what a client relies on: `contents[f]` is a list of
payloads or a key-to-payload function; `Put` appends, replaces, merges or maps,
and wants the rest of the oneof absent; clearing a set of fields is a step of
its own because a failed write may leave only that. After a failed decode or a
map slot overwritten by position the contents are unspecified until the next
clear: this is exactly as much as the code keeps (see the findings).

### MessageReader

`index`, `end` and `recursion_depth` are the Reader that is being read.
`calls` is the stack of activations: a loop over the fields of a message with a
Reader of its own (`message`), the same loop up to an end tag on the caller's
Reader (`group`: `decodeGroupValue`, `decodeDelimitedMessageValue`),
`readGroupBytes` (`bytes`) and `skipGroup` (`skip`). Three loops decode the same
inputs: `decodeStream` of the dynamic message, the loop of a generated message
(which has `readGroupBytes` find the end of a group and then decodes the slice),
and the loop over raw tags that the generator emits for types without messages
and groups (`messageCanFastRawTagDecode`). They differ in the tags they accept
(`LongestTag`), in what a declared field of another wire type means
(`Expected`, `Declared`) and in how a group is read; each difference is one
operator. An iteration is one action; the copy of an unknown field may fail
(`OutOfMemory`, `OutOfMemoryForGroup`). An error ends the decode: nothing in the
loops catches one.

Bytes are numbers 0 to 255, and a varint, a tag and a length are read byte by
byte as `readVarintAt` does, with its limits of ten bytes and 64 bits; a length
that is larger than any input is `Huge`, since only its being too large is
looked at. `kept` and `payloads` are history variables: the slices stored as
unknown fields, and those returned by `readGroupBytes`. The message type has
singular varint fields, message fields and group fields, the latter two of the
same type. Values are not kept (that is `DynamicMessage`'s part), and packed
fields, map entries and message sets, which start loops of their own, are not
in the loops yet.

### UnknownFields

A generated message keeps its unknown fields, extension values among them, in
`_unknown_fields`. `unknown[m]` is that table: the block it was allocated in and
the fields, each a block and its bytes. `heap` is the set of allocated blocks,
`defined` the variables that hold a message (one that was never assigned or was
`deinit`ed is `undefined` in the code). `call` is the frame of the call in
progress: the table it builds (`fresh`), the raw fields still to be copied
(`todo`), the old fields still to be looked at (`items`), and what
`replaceInUnknown` appends when it has cleared (`then`: what `encodeRaw` gives for a
value of the extension).

A call validates or makes its first pass when it begins (`AppendUnknownRaw`,
`MergeFrom`, `CloneOwned`, `CallDecode`, `CallRemove`, `CallClearItems`). After that
each allocation is a step, with what the code does before the next one
(`AllocateTable`, `CopyField`, `KeepField`, `FreeField`), and a call ends in
`Appended`, `Decoded` or `Cleared`. `OutOfMemory` may replace any step that
allocates, `BadInput` ends a decode or the clearing of a message-set extension;
both do what the `errdefer`s of the call do (`Fails`). Note that `Fails` differs
by call: the copies of an append are freed, of the values of a message set only
the new table, and `decodeReuse` deinits the message it was called on.

Left out are the declared fields, the buffer an extension is encoded into before
it is appended, and the capacity of the growing lists: a list is one block,
allocated when its first element is. `toOwnedSlice` may fail once more
(`Shrinking`). After a failure that leaves a message with freed fields (see
`FieldsOwned` below) nothing that call could lead to is defined, and `Idle` lets
no call begin. No fairness is assumed here and no liveness stated: every loop
shortens a list.

The abstract `UnknownFieldLog` has one step per call, and a step of the code that
does not end a call is a stutter there. `ReadMessage` of a stream, which both use,
is the decode loop of the type on bytes without declared fields.

There are two such loops, and the constant `RawTags` says which one the type has.
`writeDecode` and `writeDecodeReuse` emit a loop over `nextTag`, or, for types with
strings or bytes or with eight fields and more (`messageCanFastRawTagDecode`), one that
reads a tag as a varint. They differ in the longest tag of a field that is stored: five
bytes or ten (`LongestTag`); in a group that is skipped it is `nextTag` that reads,
whichever loop met the group (`TagLimit`). A message set has no fields of its own, so it
is decoded by `nextTag` (`LoopAssumption`). The other calls know one kind of field only,
that of `validateRawField`, with at most five bytes of tag. So a type with `RawTags` may
store a field that `mergeFrom` and an append refuse, that `clearRawFieldsByNumber`
answers with an error, and that `RawFieldNumberMatcher` takes for impossible
(`StoredFieldsAccepted` below). The calls of the model do all of that but the last:
`QueriesAgree` and `DeterministicAgrees` are about types decoded by `nextTag`, since behind
such a field the matcher is undefined and the deterministic order, which compares it by
bytes and the others by number, is no order. `StoredFieldsValid`, `OwnedOnce`,
`RoundTrip` and `ImplementsLog` are about both.

### OwnedValues

A value is the set of its blocks: a scalar has none, a string or a message one (a
nested message is allocated and freed as one), a map entry its own and those of
its key and value. `heap` is what is allocated, `stored` the values of the message,
`slot` the two optionals `maybe_key` and `maybe_value` of `decodeMapEntryValue` and
then its `key` and `value`, `owned` a value on its way to `add`. A slot is null, holds
a value, or is `undefined`, which is what `deinitValue` leaves.

`DecodeMapEntry` begins an entry of a map of any of the types; each field of the
entry is a step (`ReadKey`, `ReadValue`), which frees what the slot held before it
reads, as lines 1666 and 1670 do. Whatever can fail is a step: the read
(`ReadFails`), the tag (`TagFails`), the default of an absent value (`DefaultFails`),
the entry itself (`MakeFails`), and the `add` it is given to (`AddFails`). `Cleanup` is
the deferred code. `PutMapEntryOwned` joins with parts of the caller, `HandOver` is
`set` and `add`, `MutableMessage` the four calls that make a message and hand it to
`set` or `add`. `Gone` is what gives way to a value (a oneof sibling, a singular value,
the repeated values `set` clears, the entry with the same key): `DynamicMessage`
says which; here any stored values may, also when the call fails later. After a
block was freed twice nothing is defined, and no call begins (`Idle`).

### CppBenchmark

`CppProgram` has the calls of the C++ library that `main` makes: 37 preparation
steps and 474 calls of `RunTimed`, each an operation, a payload, where the object comes
from that the call fills (`object`), and its iterations. A lambda makes that object
(415 rows), captures one and clears it (35 rows, as many as `main.cc` has calls of
`clear` and `Clear`), or writes a captured buffer from its beginning (24 rows). `CppBenchmark` runs such a program: `Prepare`
and `ReportSizes`, then `RunTimed` with one step per call of the lambda (`Body`), the
warm-up, three samples and `PrintRow`. The library is not in the repository; of it is
assumed only that a call that succeeded succeeds again. Any other call
whose result `main` checks may be refused, which ends the program (`PrepareAborts`,
`BodyAborts`), a call takes between no time and `Longest`, and one that fills an
object replaces what it holds or appends to it (`Fills`), so that a single lambda that
does not clear the object it reuses is found. `sized` are the messages with cached sizes.
Time passes in calls only. `calls`, `spent` and `samples` are history variables.

### Registry and Loader

`tree` is the set of sources (`MemorySourceTree` or the directory): which paths
exist, which of them parse, and what a parse gives. Nothing writes to it, so it
is chosen in `Init` and constant. An activation of `loadOne` whose file is
parsed is a frame `[path, next, missing]`; `loading`, `loaded` and `files` are
the code's. An error is raised (`pc = "raise"`) and then leaves one activation
after another (`Unwind`, which stands for the `defer` and `errdefer` of the
activation) until the `catch` of a weak import swallows it (`SwallowWeak`) or
the load fails. Every step allocates, so `OutOfMemory` may replace it;
`CloseFails` and `SwallowFails` are the two allocations after which state has
already changed. After the root closes, `AddFile` runs once per file in the
order of `files`, and `Validate` checks all references.

A file declares one message and uses full names; the walk of `findTypeVisible`
up the enclosing scopes is one lookup. Extensions have distinct numbers inside
the ranges of their extendee, so `DuplicateSymbol` stands for symbol conflicts
only, and extendees are not the custom options that `addFile` tolerates.
`loadDir` has the same control as `loadMemory`; any read error other than
OutOfMemory is FileNotFound there.

## Runs

Passing runs:

| run | instance | properties |
|---|---|---|
| `fields` | fields 1 (scalar) and 2 (message) of a oneof, 5 repeated closed enum, 6 plain scalar | `TypeOK`, `StoredOnce`, `OneofExclusive`, `ListingAgrees`, `FailedSetKeepsField`, `ImplementsMessage`, `CallsReturn` |
| `map` | two map fields, two keys, two data | `MapKeysUnique`, `DedupInvisible`, `ImplementsMessage`, `CallsReturn` |
| `unknown` | a repeated closed enum that does not declare 0, a map with values of it, an undeclared field number | `ImplementsMessage`, `CallsReturn` |
| `reader` | 6138 inputs of up to three pieces, each decoded by the three loops | `TypeOK`, `DepthIsNesting`, `AcceptsMessages`, `UnknownFieldsKept`, `StoredFieldsWhole`, `DecodeReturns` |
| `raws` | two messages of a type decoded by the loop over raw tags, at most two fields each, three raw fields, three streams | `TypeOK`, `OwnedOnce`, `StoredFieldsValid`, `ImplementsLog` |
| `queries` | one message of a message-set type, decoded by `nextTag`, at most three fields out of six, an invalid one | `RoundTrip`, `QueriesAgree`, `DeterministicAgrees`, `ItemsAgree`, `ImplementsLog` |
| `load` | 22800 source trees of four files | `ImportsListedFirst`, `MissingNotListed`, `OrderNeverRejects`, `OutcomeIsTrue`, `LoadReturns` |
| `values` | five blocks, maps from a string or a scalar to bytes, a message or a scalar | `OneOwner`, `LeaksKeysOnly` |
| `bench` | the whole program of `main.cc`, two iterations per sample (one for the decode of unknown fields) | `BestOfSamples`, `AbortsBeforeTiming`, `SizesCachedFirst`, `CallsAlike`, `FixturesAgree` |

Bounds, all named in the modules. `MaxValues` (values of a repeated field or
map) is 2 or 3: three entries of two keys are the smallest map in which a
duplicate sits before and after another key, so that the compaction moves and
overwrites. `HashThreshold` is 3 instead of 16 so that maps on both sides of it
occur; the two code paths differ only in the allocation. `MaxBody` (writes per
nested message) is 2: one in place, one merged. `MaxRecords` bounds an input of
`decode`, `MaxUnknown` the unknown fields; 3 and 2 suffice for a kept, a removed
and a moved record. `MaxChainDepth` is 2 instead of 32, and the trees have a
public chain of that length. The trees have four files because the interesting
shapes need a root, an importer between, a file that is reached twice and a file
below it; each may be absent or malformed, and imports are normal, public, weak
or option, in both orders, with cycles through normal and weak imports.

An input of `reader` is a sequence of up to `MaxPieces` (3) of 18 pieces: tags,
end tags, whole fields and fragments, with tags in one, two, five and six bytes,
varints of ten bytes on both sides of the limit, and lengths that end a
submessage inside a group or a field. Three pieces make a group in a group or in
a submessage, closed by the right, the wrong or no end tag. `RecursionLimit` is 2
instead of 100, so inputs reach and exceed it. The widths of varints (ten bytes)
and tags (five) are the code's own.

In `raws` a message has `Room` for two fields: the second append replaces a table
that holds a field, a merge of a message into itself doubles it, and with two
messages a block could be shared. The fields have a tag
longer than needed, a tag of two bytes, or bytes behind the value; one stream
repeats a number, one begins with a tag of six bytes, which only the loop over raw
tags stores and a merge then refuses, and one ends in an error. In
`queries` there is one message with room for three: the binary search then has
runs on both sides of its middle, and the deterministic order three fields of
equal tag. Its fields are one of number 1 with a tag longer than needed, one of
number 16, items of extension 4 and of another one (a group inside, two type
ids), a value of 4 under its own number and an item that does not decode.

In `values` five blocks are an entry with a key and a value beside another stored
value and one more: a second entry, or what a key that comes twice replaces.

In `bench` an iteration count of 20000 is `kIterations` = 2, and of 1000
`UnknownIterations` = 1: a loop then ends after its first call or goes on, and the
warm-up is one call (it is never none). A call takes 0 or 1 (`Longest`), so
samples differ, and `Never` = 3 is more than a sample takes. The payload of unknown
fields has 144 fields instead of 1024, nine of each of the 16 numbers, which keeps
values on both sides of 128; the map has its 1024 entries. The program itself, its
474 benchmarks and 252 payloads (77 of which no preparation tries) is not cut down.

The refinement says that every step is some step of `Message`; which call may
take which step is left open there, so `DedupInvisible` states on its own that a
compaction changes nothing.

The violation runs show disagreements between the code and what the repository
says of it; each checks one property:

| run | property | what it shows |
|---|---|---|
| `group_bytes` | `GroupBytesEndAtTag` | `readGroupBytes` finds the end of a group by subtracting the canonical size of the end tag (`wire.zig` 1538); with a longer encoding of that tag the slice contains part of it, although tag lengths are not to be recomputed (`wire.zig` 422-425) |
| `weak_import` | `WeakLeavesUsable` | a weak import whose own import is missing leaves files behind that turn off the tolerance for unresolved names, and the load is rejected; with its imports in the other order it succeeds |
| `double_free` | `FreesOnce` | `mutableMessage` gives its message to `set`, which frees it when it fails as its comment says ("freed on failure", `reflect.zig` 3231-3232), and the `errdefer`s of `mutableMessage` (3698, 3701) free it again; so do `addMutableMessage` and the two calls for groups |

The modules state eight more such properties that have no run of their own. Each
fails when it is added to a configuration of its module:

| property | add to | what it shows |
|---|---|---|
| `CallsLeaveNormalized` | `map` | successful calls alone reach a map with a key twice: `setRepeatedValue` overwrites a slot by position (`reflect.zig` 3061), while clone relies on messages being "already normalized" (`dynamic.zig` 2041) |
| `ReuseKeepsMessage` | `raws` | a `decodeReuse` that fails leaves its message undefined (`codegen.zig` 5589, 4371) for the `deinit` that the example has deferred (`examples/generated_merge_semantics.zig` 93-94) |
| `FieldsOwned` | `queries` | clearing a message-set extension frees values before its last fallible step (`codegen.zig` 11275-11277); when that fails the message still has the freed fields, although they are "individually owned" (`wire.zig` 413-414) |
| `SetReplaces` | `fields` | `Reflection.set` ("Replace a singular field", `reflect.zig` 3230) merges into a singular message that is already set |
| `FailedSetKeepsOneof` | `fields` | a set that runs out of memory has already removed the other member of the oneof, although "callers should not lose the previous value" (`reflect.zig` 3237-3239) |
| `DecodeLeavesNormalized` | `map` | a failed decode leaves duplicate map keys (`dynamic.zig` 1016-1021, 2041) |
| `StoredFieldsAccepted` | `reader` | the generated loop over raw tags stores an unknown field whose tag has six bytes, which `rawFieldNumber` refuses and `RawFieldNumberMatcher` takes for impossible (`wire.zig` 277-282) |
| `DeterministicKeepsValue` | `raws` | deterministic encoding sorts the fields of one number by their bytes (`wire.zig` 522-529) and so changes which one is the last, the value of a singular extension |

`FreesOnce` has a second counterexample that no run shows: with `MutableFails` left
out, TLC finds `ReadKey`, `ReadFails`, `Cleanup`. A key or value that comes twice in an
entry is freed before it is read again; when that read fails, or a closed enum does
not have the second number, the deferred `deinitValue` meets the freed value
(`dynamic.zig` 1655-1678). `LeaksKeysOnly` names the one leak of these calls: when the
default message of an absent value cannot be allocated (1687), `maybe_key` is null
already and the second `defer` is not reached.

`load`, `weak_import`, `reader`, `group_bytes` and `bench` do not check for deadlock: a
load, a decode or a program that has ended stops. Neither do the runs of
`UnknownFields` and `OwnedValues`, which stop where the code is undefined (`raws`,
`queries`, `values`, `double_free`). The other runs check it: a message can always be
called.

### Fairness

`CallsReturn` assumes weak fairness of the steps inside a call, `LoadReturns`
of the steps of a load, `DecodeReturns` of the steps of a decode. All are code that
one thread executes without waiting for anything, so it runs to its end; no
fairness is assumed of the calls a client makes. What the properties then say is
that the loops end. For `CallsReturn` these are, in `fields`, the scan of
`clearOneofExcept`, which does not advance after a removal, and the passes of a
merge; in `map` the compaction of duplicate keys; in `unknown` the compaction of
unknown fields and the packed split of a closed enum. For the others it is recursion
over cyclic imports, and loops that wait for an end tag.

## Proofs

`DynamicMessageProofs` proves of `DynamicMessage`, for
every message type, every source of a merge and every bound, from the
assumptions named in `MessageSchema` and `DynamicMessage`:
`TypeCorrect`, `FieldsStayOnce`, `OneofStaysExclusive`, `MapsStayNormalized`,
`ListingsStayAlike`.

`OneofExclusive` is not inductive. `add` removes the siblings in a loop and
creates the new entry in a later step, so what carries it over is `FrameOK` and
`IndexesOK` of the invariant `IInv`: while the loop runs, the entries before
`idx` are not siblings; when it ends, none is; and between that and `Place`
nothing else touches the array. In the same way `MapsOK` says of a compaction
that the slots before `wr` have distinct keys, and that maps before `idx` are
done. The lemmas of its first part say what replacing, appending and
swap-removing keep of a well-formed array; the proofs about the actions cite
them and never open a `CHOOSE`. `ListingsStayAlike` is `ListingAgrees`: the pass k of
the selection loop finds the present number with k smaller ones, and the list in
order has that number at place k, whatever the order of the entries.

`MessageRefinementProofs` proves that every step of `DynamicMessage` is a step of
`Message` or changes nothing it can see: `Implementation` is the theorem of
`ImplementsMessage`, `DedupKeepsMeaning` of `DedupInvisible` and `FailedSetKeeps` of
`FailedSetKeepsField`. It holds for the same message types and bounds, with two more
assumptions of `DynamicMessage`: the messages that `mergeFrom` and `copyFrom` read
hold values of their fields (`SourceAssumption`), and a nested message has room for a
write (`MaxBody`). `IInv` is not enough: that a new entry holds what the call wants
to write needs the arguments of the call, and `ArgsOK` says which they are in every
step of `add`, of a merge and of a decode (`ArgumentsFit`). The refinement mapping
turns an array of entries into a function of fields (`Said`), so the lemmas in the
middle say what replacing, appending, swapping out and removing an entry does to
`Said` at one field and at the others. Two parts are about order. A map in the middle
of a compaction has live slots and dead ones; the live ones, at the positions of
`LiveValues`, have the same keys and data before and after every step of it. And
removing unknown fields in place keeps those that stay in their order, which is a
fact about the members of a sequence at a set of positions (`Subsequence`); the
abstract specification says it with the same operator.

`LoaderProofs` proves of `Loader`, for every set of source trees,
`LoadTyped`, `ImportsComeFirst`, `MissingStaysOut`, `OrderIsNoReason`
(`OrderNeverRejects`) and `AnswersAreTrue` (`OutcomeIsTrue`). The invariant says that
the stack is the set of paths in `loading` without repetition, apart from
`loaded`; that an activation below another waits at the import the other one
loads; and that the imports it has passed are listed or recorded missing
(`PassedOK`), which is what `Close` needs. For `MissingStaysOut` the invariant
uses a notion the code does not have: a path is `Present` if it is there and so is
every path that imports lead to from it, weak ones aside. A
FileNotFound on its way up comes from a path that is not `Present`
(`RaisedOK`), while all files of the result are. What imports lead to is defined
without recursion, as what lies in every set of paths closed under them (`From`), so a
closed set is a proof: the files of the result are one, the files before one of them
another, and this replaces an induction over import paths.

The answers of a load rest on a second invariant, `TrueInv`: the activations are a
path of imports from the root, each below all before it (`PathOK`), so that a path
met while it is loading is on a cycle; and an error is true of the sources wherever
it is (`ReasonOK`). For `OrderIsNoReason` it is shown that files added later change
nothing of what an earlier file sees: the files up to one of them import none that
comes later (`LaterIsApart`), and by the least number of public imports for which it
would fail, no chain of public imports leaves them either (`SameWithin`).

`MessageReaderProofs` proves of `MessageReader`, for every set of inputs, every
message type and every limit, `TypeCorrect` and `DepthCounts`. `TypeCorrect`
says that no cursor leaves the input and that every slice the code takes is one:
the slices of unknown fields are not empty, and `index - tagSize` in
`readGroupBytes` does not reach before the start of the group, although the
subtraction may be wrong (see the findings). That needs two facts: along the
stack of calls positions are in order and inside the caller's slice, and a tag
has at least as many bytes as its canonical encoding. The second one is proved
from the bytes, `readVarint` unfolded, for varints of one to five bytes.
`DepthCounts` is the theorem of `DepthIsNesting`. `StoredWhole` is the theorem of
`StoredFieldsWhole`: what is stored of a field the message does not have is that
field as `validateRawField` reads it. The grammar is a recursive function on the
slices of the input, so it is shown first that the function exists: what it says of a
slice depends on slices further on only (`Local`), hence a function that solves the
equation from some position on can be extended to the position before it, and by the
least such position there is one for the whole input (`Solvable`, `GrammarIs`). What
was read of a slice is read of any slice it fits into (`TagFits`, `ValueFits`), which
is needed because `validateRawField` gets the field alone and the reader saw it at the
begin of a longer slice. The invariant, `WholeInv`, is about the groups being skipped: their
activations are the last ones, and whole fields lead from behind the opening tag of each
to where its activation has come (`SkipFrame`).

`MessagesAccepted` is the theorem of `AcceptsMessages`, and `UnknownKept` that of
`UnknownFieldsKept`. Both assume `FieldAssumption`, that a number has one
declaration; the parser (`parser.zig` 2177) and the descriptor bridge
(`descriptor.zig` 2391) refuse a message with two. The invariant, `TrackInv`
(theorem `Tracking`), says that what is left of a decode is what is left of the
grammar. A reading is an index, an end and what is kept so far; each activation
`Leads` from the reading it has come to, over the rest of its message or group, to
one its caller goes on with, and the stack `Ends` in a set of unknown fields if its
activations lead to it one after the other. Every decode of a message ends in the
message's unknown fields, and, for the dynamic message, whatever still ends in any
set is the decode of a message: hence success, when it comes, is of a message, and
an error in the input is not. The second half does not hold of generated code, and
is not stated of it: the slice `readGroupBytes` returns may be cut short (see the
findings), so the loop over it may end well inside a group. For the first half it is
enough that such a slice may be read as if it went on to the end tag of its group
(`Wides`). One declaration for a number is needed because the code takes the wire
type of the declaration it finds, and the grammar that of every declaration. The
order of what is kept is a third invariant, `OrderInv`: nothing is stored while a
group is scanned or skipped, and the slices stored lie before the index and do not
overlap.

`UnknownFieldsProofs` proves of `UnknownFields`, for any set of messages, raw
fields, streams and numbers, `TypeCorrect`, `TablesStayFull`, `FieldsStayValid`,
`OwnershipKept`, the four properties of the bytes below and the refinement. The
assumptions, named in the modules, say of what kind the constants are: raw fields and
streams are sequences of bytes, numbers are below 2^29, and the recursion limit is a
number. Neither the tables nor
the fields are inductive alone: `CallInv` says what a call has established, for instance
that the raw fields still to be copied are whole and that a decode's message is empty.
The invariant knows of a stored field that it is one whole field to the loop that
decodes the type (`StoredWhole`). What that loop cuts out of a stream is one
(`StreamValid`), and what `validateRawField` accepts is one to either loop, since inside
groups the two do the same (`InGroupsAlike`, `ValidIsWhole`). For a type decoded by
`nextTag` whole and valid are the same (`ValidWhole`), so `FieldsStayValid` says there
what the matcher relies on, and `NumbersAreFound`, `OrderDoesNotMatter` and `ItemsAreRead`
follow of those types.

The rest is about the bytes of what is stored, and the functions over them are
recursive. Each is shown to exist first (`RecursionExists`: a recursion along which a
rank falls has a solution), and what it computes is proved of all inputs of a rank
from those of a smaller one (`ByRank`).

- `FieldsReadBack` is the theorem of `RoundTrip`. Skipping a field is a sequence of
  moves, each of which leads to the same place in a field that stands alone and in one
  with others behind it, so a valid field in front of a stream ends where it ended
  alone (`ReadsBack`).
- `NumbersAreFound` is the theorem of `QueriesAgree`. The matcher compares the first
  bytes of a field, seven bits each, with the canonical tag and a rest of zeros;
  `MatchesNumber` shows that this is equality of the numbers, for tags of one to five
  bytes. The runs are strictly ascending (`RunsIncrease`), so the binary search ends at
  the only run that may have the number (`SearchFinds`), and its count is the number of
  positions where the matcher says yes (`QueriesCount`).
- `OrderDoesNotMatter` is the theorem of `DeterministicAgrees`. `RawFieldLess` is a
  strict total order of the fields that have a tag (`LessTransitive`, `LessTotal`); the
  insertion sort puts every field of a list at one place, in ascending order
  (`SortArranges`); and two such arrangements of the same fields are equal
  (`OneOrder`), since a k-th field greater in one would leave k fields for k - 1 places
  in the other.
- `ItemsAreRead` is the theorem of `ItemsAgree`. `decodeMessageSetItem` reads tag by tag
  until an end of group; `ItemMeaning` cuts the group into fields first. Skipping a
  group is skipping the fields in it one by one and then its end (`SkipAround`,
  `GroupStep`), so the group has an end and what is before it reads as fields
  (`GroupHasEnd`); a field that is cut out has the tag and the type id it had in place
  (`CutTag`); and from every place in the group on, the loop ends with what the fields
  from there on say (`ItemsRead`).

`OwnershipKept` is the theorem of `OwnedOnce`. Messages and the call in progress are
treated alike, as holders of a table; a message being cleared holds its old table
and the fields not yet looked at, the call those it kept. Every action is then
one of few exchanges between the heap and at most two holders, and the lemma
`Exchange` says which of them keep every block with one owner; the lemmas named
`...Keeps` show for each action that it is one. The theorem assumes a type without
`message_set_wire_format`: with it the statement is false (`FieldsOwned`).

`ImplementsUnknownFieldLog` is the theorem of `ImplementsLog`. The refinement mapping
forgets blocks and calls (`FieldsStored`), so every step of a call but its last is a
stutter, and what the last step stores must be known from the first one on: `LogInv`.
For copies it is the sequence that has been copied, followed by what is still to be
(`Copied`), which no step in between changes and which began as one raw field, as the
fields of a message or as those read from an input. For a removal it is that the
fields kept are the members of the old list at the positions that have been looked
at and stay, and that those still to be looked at are the rest of it (`Sifted`). That
clearing by number and `rawFieldNumber` mean the same field needs the check the call
makes before it changes anything: a field has bytes, since a valid one does
(`EmptyRefused`), and its first tag is one.

`OwnedValuesProofs` proves of `OwnedValues`, for any blocks and any set of map types,
`TypeCorrect`, `NothingDangles` (`OneOwner`) and `OnlyKeysAreLost` (`LeaksKeysOnly`),
without an assumption. The invariant states `OneOwner` block by block (`Apart`) and
adds what the calls rely on (`Tidy`): the slots are empty outside an entry, nothing is
handed over outside an add, and only a slot that is set has blocks. The leak of a step
follows from `Accounted`: a block that is allocated afterwards is used, or was
not used before, or is the key at risk.

`CppBenchmarkProofs` proves of `CppBenchmark`, for every program that satisfies
`ProgramAssumption` and whose samples cannot reach `Never` (`TimeAssumption`),
`TypeCorrect`, `BestIsFastest` (`BestOfSamples`), `AbortsComeEarly`
(`AbortsBeforeTiming`) and, if each row that fills an object makes, clears or overwrites it
(`ObjectsCleared`), `CallsStayAlike` (`CallsAlike`). The invariant says that
the clock since `start` is what the calls of the sample took and that `best` is the
least sample so far (`Timing`), and that no refused call was done before
(`Refusals`): a refusal therefore meets the first call of a benchmark, which is in
its warm-up because that is never empty. `SizesComeFirst` is `SizesCachedFirst` for every program whose deterministic
benchmarks have their message serialized earlier in the text (`SizedBefore`), and the
run `bench` shows it of `main.cc`. `ShuffleKeepsMap` is of one half of
`FixturesAgree`: the shuffled map has the entries of the large one. That the index
computed modulo 1024 is a permutation follows from the inverse of its multiplier:
769 * 257 is 1 modulo 1024.

TLC checked the invariants on the instances above before they were proved.

Only model-checked: the payload of unknown fields (`UnknownFieldsCounted`), which is
about bytes that a recursive function computes; liveness
(`CallsReturn`, `LoadReturns`, `DecodeReturns`), since fairness and ENABLED are out of
the prover's reach.

## Not modelled

Of the code generator the decode loops it emits and the methods on unknown fields
are modelled; the rest of it and the descriptor bridge are long conversions
without state. The public facade, examples and tools hold no logic of their own,
nor do the benchmark programs in Zig, Rust and Go and the scripts that run them and
compare their rows. Of the C++ benchmark the contents of the payloads and the text of
the rows are left out. Memory ownership (what is freed when, who owns a string) is
modelled for unknown fields of generated messages and for the values a dynamic
message is given; not for the strings that the loader borrows from the files it
frees (`loader.zig` 80).

## Plan

The modules above were built in this order: the message store with its
abstract specification and proofs, then the registry and the loader, then the
reader of the wire format, then unknown fields of generated messages with their
ownership, the benchmark program, and the ownership of values. Next, in order of what matters most:

1. `MessageReader`: packed fields, map entries and message-set items, which
   begin loops inside the loops it has. Theorem: the cursor never moves back.
2. `Encode`: encode, encodedSize and presence rules over `FieldStore`; decode
   after encode gives the abstract message back; message sets.
3. `ImportLists` and `FieldRules`: the parser's checks, so that the assumptions
   of `MessageSchema` and `Registry` become properties of a model of the code.
4. Registry queries and extension conflicts; several clients' `addFile` calls,
   failing and repeated.
5. JSON and text presence rules, well-known type arithmetic, the conformance
   loop, plugin parameters.
6. Proofs: `UnknownFieldsCounted`, by counting the tags a payload is built from.
