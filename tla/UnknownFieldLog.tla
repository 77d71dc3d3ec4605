--------------------------- MODULE UnknownFieldLog ---------------------------
(***************************************************************************)
(* What the unknown fields of generated messages promise: each message is  *)
(* a list of fields that are exactly the bytes they came with.  A call     *)
(* that appends appends all it was given or nothing, one that removes      *)
(* removes all it was asked to and keeps the others in their order, and    *)
(* one that fails changes nothing, except that a failed decode leaves no   *)
(* message and a failed replacement may have removed.                      *)
(***************************************************************************)
EXTENDS Subsequence

CONSTANTS
    Message, Raw, Encoded, Asked,
    Valid(_),       \* bytes are one field
    Read(_),        \* the fields bytes are read as, and whether to their end
    NumberOf(_),    \* the number of a field
    OfExtension(_)  \* a field is a value of the message-set extension

VARIABLES
    log,        \* log[m]: the unknown fields of m
    defined     \* the variables that hold a message

vars == <<log, defined>>

Init == log = [m \in Message |-> <<>>] /\ defined = {}

Gets(m, fields) == log' = [log EXCEPT ![m] = fields]

Construct(m) == m \notin defined /\ defined' = defined \cup {m} /\ UNCHANGED log

Deinit(m) == m \in defined /\ defined' = defined \ {m} /\ Gets(m, <<>>)

Clear(m) == m \in defined /\ Gets(m, <<>>) /\ UNCHANGED defined

AppendRaw(m, raw) ==
    m \in defined /\ Gets(m, Append(log[m], raw)) /\ Valid(raw) /\ UNCHANGED defined

Merge(m, other) ==
    {m, other} \subseteq defined /\ Gets(m, log[m] \o log[other]) /\ UNCHANGED defined

Clone(m, other) ==
    m \notin defined /\ other \in defined /\ Gets(m, log[other]) /\ defined' = defined \cup {m}

Decode(m, s) ==
    /\ log[m] = <<>>
    /\ defined' = defined \cup {m}
    /\ Read(s).ok /\ Gets(m, Read(s).fields)

Keep(m, kept) == m \in defined /\ Gets(m, AtPositions(log[m], kept)) /\ UNCHANGED defined

RemoveNumber(m, number) == Keep(m, {i \in DOMAIN log[m] : NumberOf(log[m][i]) # number})

RemoveExtension(m) == Keep(m, {i \in DOMAIN log[m] : ~OfExtension(log[m][i])})

Next ==
    \E m \in Message :
        \/ Construct(m) \/ Deinit(m) \/ Clear(m)
        \/ \E raw \in Raw : AppendRaw(m, raw)
        \/ \E other \in Message : Merge(m, other) \/ Clone(m, other)
        \/ \E s \in Encoded : Decode(m, s)
        \/ \E number \in Asked : RemoveNumber(m, number)
        \/ RemoveExtension(m)

Spec == Init /\ [][Next]_vars
=============================================================================
