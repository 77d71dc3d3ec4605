------------------------------ MODULE MCLoader ------------------------------
(***************************************************************************)
(* Source trees for TLC: a root, a bridge between the root and the rest,   *)
(* and two files that may be absent, malformed, leaves, or import another. *)
(***************************************************************************)
EXTENDS LoaderSafety

CONSTANTS root, bridge, base, leaf

Files == {root, bridge, base, leaf}

Imp(p, k) == [path |-> p, kind |-> k]

Lists(P, K) ==
    LET one == {Imp(p, k) : p \in P, k \in K}
    IN  {<<>>} \cup {<<i>> : i \in one}
        \cup {<<i, j>> : i, j \in one}

\* validateImports: no path twice, option imports last, not beside weak ones.
WellFormed(s) ==
    /\ \A i, j \in DOMAIN s : s[i].path = s[j].path => i = j
    /\ \A i, j \in DOMAIN s :
          s[i].kind = "option" => s[j].kind # "weak" /\ (j > i => s[j].kind = "option")

ImportLists(P, K) == {s \in Lists(P, K) : WellFormed(s)}

\* What is there and what parses; the import lists; a message the root's fields
\* use or its extensions extend; the bridge may declare the leaf's message again.
GraphTrees ==
    {[there |-> h[1], malformed |-> h[2],
      imports |-> [p \in Files |-> CASE p = root -> r [] p = bridge -> b
                                     [] p = base -> s [] p = leaf -> <<>>],
      declares |-> [p \in Files |-> IF p = bridge THEN n[1] ELSE p],
      uses |-> [p \in Files |-> IF p = root THEN n[2] ELSE {}],
      extends |-> [p \in Files |-> IF p = root THEN n[3] ELSE {}]] :
        h \in {<<Files, {}>>, <<Files, {leaf}>>, <<Files \ {base}, {}>>, <<Files \ {leaf}, {}>>},
        r \in ImportLists({bridge, base}, {"normal", "weak", "option"}),
        b \in ImportLists({base, leaf}, {"public", "normal", "weak"}),
        s \in {<<>>, <<Imp(root, "normal")>>, <<Imp(leaf, "public")>>, <<Imp(bridge, "weak")>>},
        n \in {<<bridge, {leaf}, {}>>, <<bridge, {}, {leaf}>>, <<leaf, {}, {}>>}}
=============================================================================
