----------------------------- MODULE OwnedValues -----------------------------
(***************************************************************************)
(* Who owns the memory of the values of a DynamicMessage: what decode      *)
(* does with a map entry (decodeMapEntryValue), and what the calls of      *)
(* Reflection do that hand a value over (set, add, putMapEntryOwned,       *)
(* mutableMessage).  A value is the set of its blocks: none for a scalar,  *)
(* one for a string, bytes or a message, for a map entry its own and those *)
(* of its key and value.  Every allocation and every read may fail.        *)
(***************************************************************************)
CONSTANTS
    Block,
    KeyKind,    \* of the maps: "string" or "scalar"
    ValueKind   \* "bytes", "message" or "scalar", which enums are as well

VARIABLES
    heap,      \* the allocated blocks
    stored,    \* the values with blocks that the message has
    call,      \* what is in progress
    map,       \* the types of the map of the entry in progress
    slot,      \* maybe_key and maybe_value, then key and value, of the entry
    owned,     \* the value that is handed over
    misused    \* something was freed that is undefined or not allocated

vars == <<heap, stored, call, map, slot, owned, misused>>

Part == {"key", "value"}
Blocks == SUBSET Block
Slot == [is : {"null", "set", "undefined"}, blocks : Blocks]

Null == [is |-> "null", blocks |-> {}]
Full(blocks) == [is |-> "set", blocks |-> blocks]

\* deinitValue leaves the value undefined.
Deinited(s) == IF s.is = "set" THEN [is |-> "undefined", blocks |-> {}] ELSE s

NoSlots == [p \in Part |-> Null]

SlotBlocks == slot["key"].blocks \cup slot["value"].blocks

TypeOK ==
    /\ heap \in Blocks /\ stored \in SUBSET Blocks
    /\ call \in {"none", "entry", "cleanup", "make", "add", "build"}
    /\ map \in [key : KeyKind, value : ValueKind]
    /\ slot \in [Part -> Slot]
    /\ owned \in Blocks
    /\ misused \in BOOLEAN

Init ==
    /\ heap = {} /\ stored = {} /\ call = "none"
    /\ map \in [key : KeyKind, value : ValueKind]
    /\ slot = NoSlots /\ owned = {} /\ misused = FALSE

\* A free of what is not allocated is undefined behaviour: nothing follows it.
Idle == call = "none" /\ ~misused

New(kind) == IF kind = "scalar" THEN {{}} ELSE {{b} : b \in Block}

-----------------------------------------------------------------------------
(* decodeMapEntryValue *)

DecodeMapEntry ==
    /\ Idle
    /\ call' = "entry"
    /\ map' \in [key : KeyKind, value : ValueKind]
    /\ UNCHANGED <<heap, stored, slot, owned, misused>>

\* deinitValue(old) for a part that comes again, before it is read.
Kept(p) == heap \ slot[p].blocks

Reads(p) ==
    /\ call = "entry"
    /\ \E blocks \in New(map[p]) :
          /\ blocks \cap Kept(p) = {}
          /\ heap' = Kept(p) \cup blocks
          /\ slot' = [slot EXCEPT ![p] = Full(blocks)]
    /\ UNCHANGED <<stored, call, map, owned, misused>>

ReadKey == Reads("key")
ReadValue == Reads("value")

\* A read that fails: truncated or invalid bytes, memory, for a value its wire type;
\* or a number a closed enum does not have (the entry becomes an unknown field).
ReadFails ==
    /\ call = "entry"
    /\ \E p \in Part :
          /\ heap' = Kept(p)
          /\ slot' = [slot EXCEPT ![p] = Deinited(@)]
    /\ call' = "cleanup"
    /\ UNCHANGED <<stored, map, owned, misused>>

\* A bad tag, the wrong wire type of a key, or another field that cannot be skipped.
TagFails ==
    /\ call = "entry"
    /\ call' = "cleanup"
    /\ UNCHANGED <<heap, stored, map, slot, owned, misused>>

Present(s) == IF s.is = "null" THEN Full({}) ELSE s

\* The defaults of a string, bytes, a scalar and an enum take no memory.
EntryEnds ==
    /\ call = "entry"
    /\ slot["value"].is = "null" => map.value # "message"
    /\ slot' = [p \in Part |-> Present(slot[p])]
    /\ call' = "make"
    /\ UNCHANGED <<heap, stored, map, owned, misused>>

EntryEndsWithMessage ==
    /\ call = "entry" /\ slot["value"].is = "null" /\ map.value = "message"
    /\ \E b \in Block \ heap :
          /\ heap' = heap \cup {b}
          /\ slot' = [p \in Part |-> IF p = "value" THEN Full({b}) ELSE Present(slot[p])]
    /\ call' = "make"
    /\ UNCHANGED <<stored, map, owned, misused>>

\* maybe_key is null already and the second defer not reached: nobody frees the key.
DefaultFails ==
    /\ call = "entry" /\ slot["value"].is = "null" /\ map.value = "message"
    /\ slot' = NoSlots
    /\ call' = "none"
    /\ UNCHANGED <<heap, stored, map, owned, misused>>

\* The deferred deinitValue of what is not null.
Cleanup ==
    /\ call = "cleanup"
    /\ heap' = heap \ SlotBlocks
    /\ misused' = (misused \/ \E p \in Part : slot[p].is = "undefined")
    /\ slot' = NoSlots
    /\ call' = "none"
    /\ UNCHANGED <<stored, map, owned>>

-----------------------------------------------------------------------------
(* Map entries and values that are handed over *)

\* putMapEntryOwned, with a key and a value of the caller.
PutMapEntryOwned ==
    /\ Idle
    /\ map' \in [key : KeyKind, value : ValueKind]
    /\ \E key \in New(map'.key), value \in New(map'.value) :
          /\ key \cap value = {} /\ (key \cup value) \cap heap = {}
          /\ heap' = heap \cup key \cup value
          /\ slot' = [p \in Part |-> IF p = "key" THEN Full(key) ELSE Full(value)]
    /\ call' = "make"
    /\ UNCHANGED <<stored, owned, misused>>

\* Fault: without success = true the parts are still freed.
MakeEntryUnsuccessful ==
    /\ call = "make"
    /\ \E b \in Block \ heap :
          /\ heap' = (heap \ SlotBlocks) \cup {b}
          /\ owned' = {b} \cup SlotBlocks
    /\ slot' = NoSlots
    /\ call' = "add"
    /\ UNCHANGED <<stored, map, misused>>

MakeEntry ==
    /\ call = "make"
    /\ \E b \in Block \ heap :
          /\ heap' = heap \cup {b}
          /\ owned' = {b} \cup SlotBlocks
    /\ slot' = NoSlots
    /\ call' = "add"
    /\ UNCHANGED <<stored, map, misused>>

\* The field is not a map of these types, or there is no memory for the entry.
MakeFails ==
    /\ call = "make"
    /\ call' = "cleanup"
    /\ UNCHANGED <<heap, stored, map, slot, owned, misused>>

\* Reflection.set and add: a value of the caller.
HandOver ==
    /\ Idle
    /\ \E b \in Block \ heap : heap' = heap \cup {b} /\ owned' = {b}
    /\ call' = "add"
    /\ UNCHANGED <<stored, map, slot, misused>>

\* mutableMessage, mutableGroup, addMutableMessage and addMutableGroup make a message
\* for set or add.
MutableMessage ==
    /\ Idle
    /\ \E b \in Block \ heap : heap' = heap \cup {b} /\ owned' = {b}
    /\ call' = "build"
    /\ UNCHANGED <<stored, map, slot, misused>>

Adding == call \in {"add", "build"}

\* What gives way to the value: another member of its oneof, what a singular field
\* had, all of a repeated field in set, the entry with the same key.
Gone == SUBSET stored

Add ==
    /\ Adding
    /\ \E gone \in Gone :
          /\ stored' = (stored \ gone) \cup {owned}
          /\ heap' = heap \ UNION gone
    /\ owned' = {}
    /\ call' = "none"
    /\ UNCHANGED <<map, slot, misused>>

\* Fault: the message is merged and not freed.
AddMergingLeaking ==
    /\ call = "add" /\ stored # {}
    /\ owned' = {}
    /\ call' = "none"
    /\ UNCHANGED <<heap, stored, map, slot, misused>>

\* A singular message is merged into the one there, and freed.
AddMerging ==
    /\ call = "add" /\ stored # {}
    /\ heap' = heap \ owned
    /\ owned' = {}
    /\ call' = "none"
    /\ UNCHANGED <<stored, map, slot, misused>>

\* Whatever gave way before the failure is gone.
Failing ==
    /\ \E gone \in Gone :
          /\ stored' = stored \ gone
          /\ heap' = heap \ (owned \cup (UNION gone))
    /\ owned' = {}
    /\ call' = "none"
    /\ UNCHANGED <<map, slot>>

\* set and add free the value ...
AddFails == call = "add" /\ Failing /\ UNCHANGED misused

\* ... and the errdefers of mutableMessage deinit and destroy it again.
MutableFails == call = "build" /\ Failing /\ misused' = TRUE

Clear ==
    /\ Idle
    /\ heap' = heap \ UNION stored
    /\ stored' = {}
    /\ UNCHANGED <<call, map, slot, owned, misused>>

Next ==
    \/ DecodeMapEntry \/ ReadKey \/ ReadValue \/ ReadFails \/ TagFails
    \/ EntryEnds \/ EntryEndsWithMessage \/ DefaultFails \/ Cleanup
    \/ PutMapEntryOwned \/ MakeEntry \/ MakeFails
    \/ HandOver \/ MutableMessage \/ Add \/ AddMerging \/ AddFails \/ MutableFails
    \/ Clear

Spec == Init /\ [][Next]_vars

-----------------------------------------------------------------------------
Reachable == (UNION stored) \cup SlotBlocks \cup owned
Leaked == heap \ Reachable

(* Whatever fails, a block that a value of the message, a part of the      *)
(* entry in progress or the value that is handed over refers to is         *)
(* allocated, and nothing else refers to it: no later read meets freed     *)
(* memory, and clear frees everything once.                                *)
OneOwner ==
    /\ Reachable \subseteq heap
    /\ \A v \in stored :
          /\ \A w \in stored : v # w => v \cap w = {}
          /\ v \cap (SlotBlocks \cup owned) = {}
    /\ slot["key"].blocks \cap slot["value"].blocks = {}
    /\ owned \cap SlotBlocks = {}

\* The key of an entry whose value is absent and has a message as its default.
KeyAtRisk ==
    IF call = "entry" /\ slot["value"].is = "null" /\ map.value = "message"
    THEN slot["key"].blocks
    ELSE {}

(* No step leaks, whether it succeeds or fails, but one: the key of an     *)
(* entry is lost when there is no memory for the message that is the       *)
(* default of its absent value.                                            *)
LeaksKeysOnly == [][Leaked' \subseteq Leaked \cup KeyAtRisk]_vars

(* What a comment of the code says and the code does not do.  Reflection's *)
(* set and add: "payloads are consumed on success and freed on failure":   *)
(* whoever hands a value over, or decodes one, does not free it again.     *)
FreesOnce == ~misused

=============================================================================
