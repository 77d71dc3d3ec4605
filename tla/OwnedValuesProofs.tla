-------------------------- MODULE OwnedValuesProofs --------------------------
(***************************************************************************)
(* Proofs about OwnedValues, for any blocks and any types of maps.         *)
(***************************************************************************)
EXTENDS OwnedValues, TLAPS

\* OneOwner, block by block.
Apart ==
    /\ \A v \in stored : \A b \in v : b \in heap /\ b \notin SlotBlocks /\ b \notin owned
    /\ \A v, w \in stored : \A b \in v : b \in w => v = w
    /\ \A b \in owned : b \in heap /\ b \notin SlotBlocks
    /\ \A b \in SlotBlocks : b \in heap
    /\ \A b \in slot["key"].blocks : b \notin slot["value"].blocks

\* What the calls rely on between their steps.
Tidy ==
    /\ call \notin {"entry", "cleanup", "make"} => SlotBlocks = {}
    /\ call \notin {"add", "build"} => owned = {}
    /\ \A p \in Part : slot[p].is # "set" => slot[p].blocks = {}

IInv == TypeOK /\ Apart /\ Tidy

Used(b) == (\E v \in stored : b \in v) \/ b \in SlotBlocks \/ b \in owned

\* Blocks that are in use stay in use or are freed, and new ones are used.
Accounted == \A b \in heap' : Used(b)' \/ (b \in heap /\ ~Used(b)) \/ b \in KeyAtRisk

\* A step keeps the invariant, and leaks nothing but a key.
Sound == IInv' /\ Accounted

LEMMA NewBlocks ==
    ASSUME NEW kind, NEW blocks \in New(kind)
    PROVE  blocks \subseteq Block
  BY DEF New

LEMMA EmptySlots ==
    /\ NoSlots \in [Part -> Slot]
    /\ NoSlots["key"].blocks = {} /\ NoSlots["value"].blocks = {}
    /\ \A p \in Part : NoSlots[p].blocks = {}
  BY DEF NoSlots, Null, Part, Slot, Blocks

LEMMA InitHolds == Init => IInv
  BY EmptySlots DEF Init, IInv, TypeOK, Apart, Tidy, SlotBlocks, Blocks

(* A map entry is decoded *)

LEMMA DecodeMapEntrySound == IInv /\ DecodeMapEntry => Sound
<1> SUFFICES ASSUME IInv, DecodeMapEntry PROVE Sound
  OBVIOUS
<1>1. TypeOK'
  BY DEF DecodeMapEntry, Idle, IInv, TypeOK, Blocks
<1>2. Apart'
  BY DEF DecodeMapEntry, Idle, IInv, Apart, SlotBlocks
<1>3. Tidy'
  BY DEF DecodeMapEntry, Idle, IInv, Tidy, SlotBlocks
<1>4. Accounted
  BY DEF DecodeMapEntry, Idle, IInv, Apart, Tidy, Accounted, Used, KeyAtRisk, SlotBlocks
<1> QED
  BY <1>1, <1>2, <1>3, <1>4 DEF IInv, Sound

LEMMA ReadsSound ==
    ASSUME NEW p \in Part, IInv, Reads(p)
    PROVE  Sound
<1> PICK blocks \in New(map[p]) :
       /\ blocks \cap Kept(p) = {}
       /\ heap' = Kept(p) \cup blocks
       /\ slot' = [slot EXCEPT ![p] = Full(blocks)]
  BY DEF Reads
<1> USE DEF Part
<1>1. TypeOK'
  BY NewBlocks DEF Reads, Kept, Full, Slot, IInv, TypeOK, Blocks
<1>2. /\ slot'[p].is = "set" /\ slot'[p].blocks = blocks
      /\ \A q \in Part : q # p => slot'[q] = slot[q]
  BY DEF IInv, TypeOK, Full
<1>3. Apart'
  <2>1. CASE p = "key"
    BY <1>2, <2>1 DEF Reads, Kept, IInv, Apart, SlotBlocks
  <2>2. CASE p = "value"
    BY <1>2, <2>2 DEF Reads, Kept, IInv, Apart, SlotBlocks
  <2> QED
    BY <2>1, <2>2
<1>4. Tidy'
  BY <1>2 DEF Reads, IInv, Tidy, SlotBlocks
<1>5. Accounted
  BY <1>2 DEF Reads, Kept, IInv, Apart, Accounted, Used, SlotBlocks
<1> QED
  BY <1>1, <1>3, <1>4, <1>5 DEF IInv, Sound

LEMMA ReadFailsSound == IInv /\ ReadFails => Sound
<1> SUFFICES ASSUME IInv, ReadFails PROVE Sound
  OBVIOUS
<1> PICK p \in Part :
       heap' = Kept(p) /\ slot' = [slot EXCEPT ![p] = Deinited(@)]
  BY DEF ReadFails
<1> USE DEF Part
<1>1. TypeOK'
  BY DEF ReadFails, Kept, Deinited, Slot, IInv, TypeOK, Blocks
<1>2. /\ slot'[p].is # "set" /\ slot'[p].blocks = {}
      /\ \A q \in Part : q # p => slot'[q] = slot[q]
  BY DEF IInv, TypeOK, Tidy, Deinited, Slot
<1>3. Apart'
  BY <1>2 DEF ReadFails, Kept, IInv, Apart, SlotBlocks
<1>4. Tidy'
  BY <1>2 DEF ReadFails, IInv, Tidy, SlotBlocks
<1>5. Accounted
  BY <1>2 DEF ReadFails, Kept, IInv, Apart, Accounted, Used, SlotBlocks
<1> QED
  BY <1>1, <1>3, <1>4, <1>5 DEF IInv, Sound

LEMMA TagFailsSound == IInv /\ TagFails => Sound
<1> SUFFICES ASSUME IInv, TagFails PROVE Sound
  OBVIOUS
<1>1. TypeOK'
  BY DEF TagFails, IInv, TypeOK, Blocks
<1>2. Apart'
  BY DEF TagFails, IInv, Apart, SlotBlocks
<1>3. Tidy'
  BY DEF TagFails, IInv, Tidy, SlotBlocks
<1>4. Accounted
  BY DEF TagFails, IInv, Apart, Tidy, Accounted, Used, KeyAtRisk, SlotBlocks
<1> QED
  BY <1>1, <1>2, <1>3, <1>4 DEF IInv, Sound

LEMMA EntryEndsSound == IInv /\ EntryEnds => Sound
<1> SUFFICES ASSUME IInv, EntryEnds PROVE Sound
  OBVIOUS
<1>1. TypeOK'
  BY DEF EntryEnds, Present, Full, Part, Slot, IInv, TypeOK, Blocks
<1>2. Apart'
  BY DEF EntryEnds, Present, Full, Part, Slot, IInv, Apart, SlotBlocks
<1>3. Tidy'
  BY DEF EntryEnds, Present, Full, Part, Slot, IInv, Tidy, SlotBlocks
<1>4. Accounted
  BY DEF EntryEnds, Present, Full, Part, Slot, IInv, Apart, Tidy, Accounted, Used, KeyAtRisk, SlotBlocks
<1> QED
  BY <1>1, <1>2, <1>3, <1>4 DEF IInv, Sound

LEMMA EntryEndsWithMessageSound == IInv /\ EntryEndsWithMessage => Sound
<1> SUFFICES ASSUME IInv, EntryEndsWithMessage PROVE Sound
  OBVIOUS
<1>1. TypeOK'
  BY DEF EntryEndsWithMessage, Present, Full, Part, Slot, IInv, TypeOK, Blocks
<1>2. Apart'
  BY DEF EntryEndsWithMessage, Present, Full, Part, Slot, IInv, Apart, SlotBlocks
<1>3. Tidy'
  BY DEF EntryEndsWithMessage, Present, Full, Part, Slot, IInv, Tidy, SlotBlocks
<1>4. Accounted
  BY DEF EntryEndsWithMessage, Present, Full, Part, Slot, IInv, Apart, Tidy, Accounted, Used, KeyAtRisk, SlotBlocks
<1> QED
  BY <1>1, <1>2, <1>3, <1>4 DEF IInv, Sound

LEMMA DefaultFailsSound == IInv /\ DefaultFails => Sound
<1> SUFFICES ASSUME IInv, DefaultFails PROVE Sound
  OBVIOUS
<1>1. TypeOK'
  BY EmptySlots DEF DefaultFails, IInv, TypeOK, Blocks
<1>2. Apart'
  BY EmptySlots DEF DefaultFails, IInv, Apart, SlotBlocks
<1>3. Tidy'
  BY EmptySlots DEF DefaultFails, IInv, Tidy, SlotBlocks
<1>4. Accounted
  BY EmptySlots DEF DefaultFails, Part, IInv, Apart, Tidy, Accounted, Used, KeyAtRisk, SlotBlocks
<1> QED
  BY <1>1, <1>2, <1>3, <1>4 DEF IInv, Sound

LEMMA CleanupSound == IInv /\ Cleanup => Sound
<1> SUFFICES ASSUME IInv, Cleanup PROVE Sound
  OBVIOUS
<1>1. TypeOK'
  BY EmptySlots DEF Cleanup, IInv, TypeOK, Blocks
<1>2. Apart'
  BY EmptySlots DEF Cleanup, IInv, Apart, SlotBlocks
<1>3. Tidy'
  BY EmptySlots DEF Cleanup, IInv, Tidy, SlotBlocks
<1>4. Accounted
  BY EmptySlots DEF Cleanup, IInv, Apart, Tidy, Accounted, Used, KeyAtRisk, SlotBlocks
<1> QED
  BY <1>1, <1>2, <1>3, <1>4 DEF IInv, Sound

-----------------------------------------------------------------------------
(* Values are handed over *)

LEMMA PutMapEntryOwnedSound == IInv /\ PutMapEntryOwned => Sound
<1> SUFFICES ASSUME IInv, PutMapEntryOwned PROVE Sound
  OBVIOUS
<1>1. TypeOK'
  BY NewBlocks DEF PutMapEntryOwned, Idle, Full, Part, Slot, IInv, TypeOK, Blocks
<1>2. Apart'
  BY NewBlocks DEF PutMapEntryOwned, Idle, Full, Part, Slot, IInv, Apart, SlotBlocks
<1>3. Tidy'
  BY NewBlocks DEF PutMapEntryOwned, Idle, Full, Part, Slot, IInv, Tidy, SlotBlocks
<1>4. Accounted
  BY NewBlocks DEF PutMapEntryOwned, Idle, Full, Part, Slot, IInv, Apart, Tidy, Accounted, Used, KeyAtRisk, SlotBlocks
<1> QED
  BY <1>1, <1>2, <1>3, <1>4 DEF IInv, Sound

LEMMA MakeEntrySound == IInv /\ MakeEntry => Sound
<1> SUFFICES ASSUME IInv, MakeEntry PROVE Sound
  OBVIOUS
<1>1. TypeOK'
  BY EmptySlots DEF MakeEntry, IInv, TypeOK, Apart, Blocks
<1>2. Apart'
  BY EmptySlots DEF MakeEntry, IInv, Apart, SlotBlocks
<1>3. Tidy'
  BY EmptySlots DEF MakeEntry, IInv, Tidy, SlotBlocks
<1>4. Accounted
  BY EmptySlots DEF MakeEntry, IInv, Apart, Tidy, Accounted, Used, KeyAtRisk, SlotBlocks
<1> QED
  BY <1>1, <1>2, <1>3, <1>4 DEF IInv, Sound

LEMMA MakeFailsSound == IInv /\ MakeFails => Sound
<1> SUFFICES ASSUME IInv, MakeFails PROVE Sound
  OBVIOUS
<1>1. TypeOK'
  BY DEF MakeFails, IInv, TypeOK, Blocks
<1>2. Apart'
  BY DEF MakeFails, IInv, Apart, SlotBlocks
<1>3. Tidy'
  BY DEF MakeFails, IInv, Tidy, SlotBlocks
<1>4. Accounted
  BY DEF MakeFails, IInv, Apart, Tidy, Accounted, Used, KeyAtRisk, SlotBlocks
<1> QED
  BY <1>1, <1>2, <1>3, <1>4 DEF IInv, Sound

LEMMA HandOverSound == IInv /\ HandOver => Sound
<1> SUFFICES ASSUME IInv, HandOver PROVE Sound
  OBVIOUS
<1>1. TypeOK'
  BY DEF HandOver, Idle, IInv, TypeOK, Blocks
<1>2. Apart'
  BY DEF HandOver, Idle, IInv, Apart, SlotBlocks
<1>3. Tidy'
  BY DEF HandOver, Idle, IInv, Tidy, SlotBlocks
<1>4. Accounted
  BY DEF HandOver, Idle, IInv, Apart, Tidy, Accounted, Used, KeyAtRisk, SlotBlocks
<1> QED
  BY <1>1, <1>2, <1>3, <1>4 DEF IInv, Sound

LEMMA MutableMessageSound == IInv /\ MutableMessage => Sound
<1> SUFFICES ASSUME IInv, MutableMessage PROVE Sound
  OBVIOUS
<1>1. TypeOK'
  BY DEF MutableMessage, Idle, IInv, TypeOK, Blocks
<1>2. Apart'
  BY DEF MutableMessage, Idle, IInv, Apart, SlotBlocks
<1>3. Tidy'
  BY DEF MutableMessage, Idle, IInv, Tidy, SlotBlocks
<1>4. Accounted
  BY DEF MutableMessage, Idle, IInv, Apart, Tidy, Accounted, Used, KeyAtRisk, SlotBlocks
<1> QED
  BY <1>1, <1>2, <1>3, <1>4 DEF IInv, Sound

LEMMA AddSound == IInv /\ Add => Sound
<1> SUFFICES ASSUME IInv, Add PROVE Sound
  OBVIOUS
<1>1. TypeOK'
  BY DEF Add, Adding, Gone, IInv, TypeOK, Blocks
<1>2. Apart'
  BY DEF Add, Adding, Gone, IInv, Apart, SlotBlocks
<1>3. Tidy'
  BY DEF Add, Adding, Gone, IInv, Tidy, SlotBlocks
<1>4. Accounted
  BY DEF Add, Adding, Gone, IInv, Apart, Tidy, Accounted, Used, KeyAtRisk, SlotBlocks
<1> QED
  BY <1>1, <1>2, <1>3, <1>4 DEF IInv, Sound

LEMMA AddMergingSound == IInv /\ AddMerging => Sound
<1> SUFFICES ASSUME IInv, AddMerging PROVE Sound
  OBVIOUS
<1>1. TypeOK'
  BY DEF AddMerging, IInv, TypeOK, Blocks
<1>2. Apart'
  BY DEF AddMerging, IInv, Apart, SlotBlocks
<1>3. Tidy'
  BY DEF AddMerging, IInv, Tidy, SlotBlocks
<1>4. Accounted
  BY DEF AddMerging, IInv, Apart, Tidy, Accounted, Used, KeyAtRisk, SlotBlocks
<1> QED
  BY <1>1, <1>2, <1>3, <1>4 DEF IInv, Sound

LEMMA AddFailsSound == IInv /\ AddFails => Sound
<1> SUFFICES ASSUME IInv, AddFails PROVE Sound
  OBVIOUS
<1>1. TypeOK'
  BY DEF AddFails, Failing, Gone, IInv, TypeOK, Blocks
<1>2. Apart'
  BY DEF AddFails, Failing, Gone, IInv, Apart, SlotBlocks
<1>3. Tidy'
  BY DEF AddFails, Failing, Gone, IInv, Tidy, SlotBlocks
<1>4. Accounted
  BY DEF AddFails, Failing, Gone, IInv, Apart, Tidy, Accounted, Used, KeyAtRisk, SlotBlocks
<1> QED
  BY <1>1, <1>2, <1>3, <1>4 DEF IInv, Sound

LEMMA MutableFailsSound == IInv /\ MutableFails => Sound
<1> SUFFICES ASSUME IInv, MutableFails PROVE Sound
  OBVIOUS
<1>1. TypeOK'
  BY DEF MutableFails, Failing, Gone, IInv, TypeOK, Blocks
<1>2. Apart'
  BY DEF MutableFails, Failing, Gone, IInv, Apart, SlotBlocks
<1>3. Tidy'
  BY DEF MutableFails, Failing, Gone, IInv, Tidy, SlotBlocks
<1>4. Accounted
  BY DEF MutableFails, Failing, Gone, IInv, Apart, Tidy, Accounted, Used, KeyAtRisk, SlotBlocks
<1> QED
  BY <1>1, <1>2, <1>3, <1>4 DEF IInv, Sound

LEMMA ClearSound == IInv /\ Clear => Sound
<1> SUFFICES ASSUME IInv, Clear PROVE Sound
  OBVIOUS
<1>1. TypeOK'
  BY DEF Clear, Idle, IInv, TypeOK, Blocks
<1>2. Apart'
  BY DEF Clear, Idle, IInv, Apart, SlotBlocks
<1>3. Tidy'
  BY DEF Clear, Idle, IInv, Tidy, SlotBlocks
<1>4. Accounted
  BY DEF Clear, Idle, IInv, Apart, Tidy, Accounted, Used, KeyAtRisk, SlotBlocks
<1> QED
  BY <1>1, <1>2, <1>3, <1>4 DEF IInv, Sound

-----------------------------------------------------------------------------

LEMMA NextSound == IInv /\ [Next]_vars => Sound
<1> SUFFICES ASSUME IInv, [Next]_vars PROVE Sound
  OBVIOUS
<1>1. CASE ReadKey \/ ReadValue
  BY <1>1, ReadsSound DEF ReadKey, ReadValue, Part
<1>2. CASE DecodeMapEntry \/ ReadFails \/ TagFails \/ EntryEnds \/ EntryEndsWithMessage
           \/ DefaultFails \/ Cleanup
  BY <1>2, DecodeMapEntrySound, ReadFailsSound, TagFailsSound, EntryEndsSound,
     EntryEndsWithMessageSound, DefaultFailsSound, CleanupSound
<1>3. CASE PutMapEntryOwned \/ MakeEntry \/ MakeFails \/ HandOver \/ MutableMessage
  BY <1>3, PutMapEntryOwnedSound, MakeEntrySound, MakeFailsSound, HandOverSound,
     MutableMessageSound
<1>4. CASE Add \/ AddMerging \/ AddFails \/ MutableFails \/ Clear
  BY <1>4, AddSound, AddMergingSound, AddFailsSound, MutableFailsSound, ClearSound
<1>5. CASE UNCHANGED vars
  BY <1>5 DEF vars, IInv, TypeOK, Apart, Tidy, SlotBlocks, Sound, Accounted, Used
<1> QED
  BY <1>1, <1>2, <1>3, <1>4, <1>5 DEF Next

LEMMA Inductive == Spec => []IInv
<1>1. IInv /\ [Next]_vars => IInv'
  BY NextSound DEF Sound
<1> QED
  BY InitHolds, <1>1, PTL DEF Spec

LEMMA Union ==
    ASSUME NEW S, NEW b
    PROVE  b \in UNION S <=> \E v \in S : b \in v
  OBVIOUS

LEMMA ApartIsOneOwner ==
    ASSUME Apart PROVE OneOwner
<1>1. Reachable \subseteq heap
  <2> DEFINE all == UNION stored
  <2>1. ASSUME NEW b \in all PROVE b \in heap
    BY <2>1, Union DEF Apart
  <2>2. SlotBlocks \subseteq heap /\ owned \subseteq heap
    BY DEF Apart
  <2>3. Reachable = all \cup SlotBlocks \cup owned
    BY DEF Reachable
  <2> HIDE DEF all
  <2> QED
    BY <2>1, <2>2, <2>3
<1>2. ASSUME NEW v \in stored, NEW w \in stored, v # w PROVE v \cap w = {}
  BY <1>2 DEF Apart
<1>3. ASSUME NEW v \in stored PROVE v \cap (SlotBlocks \cup owned) = {}
  BY <1>3 DEF Apart
<1>4. slot["key"].blocks \cap slot["value"].blocks = {}
  BY DEF Apart
<1>5. owned \cap SlotBlocks = {}
  BY DEF Apart
<1> QED
  BY <1>1, <1>2, <1>3, <1>4, <1>5 DEF OneOwner

LEMMA AccountedLeaks ==
    ASSUME Accounted PROVE Leaked' \subseteq Leaked \cup KeyAtRisk
<1> SUFFICES ASSUME NEW b \in Leaked' PROVE b \in Leaked \cup KeyAtRisk
  OBVIOUS
<1> DEFINE all == UNION stored
           all_then == (UNION stored)'
<1>1. b \in all <=> \E v \in stored : b \in v
  BY Union
<1>2. b \in all_then <=> \E v \in stored' : b \in v
  BY Union
<1>3. /\ Reachable = all \cup SlotBlocks \cup owned
      /\ Reachable' = all_then \cup SlotBlocks' \cup owned'
  BY DEF Reachable
<1> HIDE DEF all, all_then
<1>4. b \in heap' /\ ~Used(b)'
  BY <1>2, <1>3 DEF Leaked, Used
<1>5. b \in heap /\ ~Used(b) => b \in Leaked
  BY <1>1, <1>3 DEF Leaked, Used
<1> QED
  BY <1>4, <1>5 DEF Accounted

\* Every variable has its type.
THEOREM TypeCorrect == Spec => []TypeOK
  BY Inductive, PTL DEF IInv

\* Whatever decode and the calls of Reflection fail at, what is referred to is
\* allocated and has one owner.
THEOREM NothingDangles == Spec => []OneOwner
<1>1. IInv => OneOwner
  BY ApartIsOneOwner DEF IInv
<1> QED
  BY Inductive, <1>1, PTL

\* The key of an entry without a value is all that can be leaked.
THEOREM OnlyKeysAreLost == Spec => LeaksKeysOnly
<1>1. IInv /\ [Next]_vars => [Leaked' \subseteq Leaked \cup KeyAtRisk]_vars
  BY NextSound, AccountedLeaks DEF Sound
<1> QED
  BY Inductive, <1>1, PTL DEF Spec, LeaksKeysOnly
=============================================================================
