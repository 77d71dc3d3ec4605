------------------------------ MODULE Registry ------------------------------
(***************************************************************************)
(* What a Registry (src/src/registry.zig) decides about the files it       *)
(* holds: which file sees which through its imports, which names resolve,  *)
(* and whether a file may be added.  A registry is the set rs of the paths *)
(* of its files; the files themselves are a tree of sources t.  A file     *)
(* declares one top-level message, which stands for its symbols; names are *)
(* full names, so the walk up the scopes of findTypeVisible is one lookup. *)
(* The extensions of a file have pairwise distinct numbers inside the      *)
(* ranges of their extendees.                                              *)
(***************************************************************************)
EXTENDS Integers, Sequences, FiniteSets

CONSTANTS
    Path,             \* file names
    Symbol,           \* full names of messages
    MaxChainDepth     \* max_import_chain_depth (32)

ASSUME ChainAssumption == MaxChainDepth \in Nat \ {0}

Import == [path : Path, kind : {"normal", "public", "weak", "option"}]

\* Sources: the paths there are, those that do not parse, and for each path
\* what a parse of it gives.
Tree == [there     : SUBSET Path,
         malformed : SUBSET Path,
         imports   : [Path -> Seq(Import)],
         declares  : [Path -> Symbol],
         uses      : [Path -> SUBSET Symbol],   \* types of fields
         extends   : [Path -> SUBSET Symbol]]   \* extendees of extensions

Imports(t, f) == {t.imports[f][i] : i \in DOMAIN t.imports[f]}

PublicImports(t, rs, f) ==
    {i.path : i \in {j \in Imports(t, f) : j.kind = "public" /\ j.path \in rs}}

\* One more public import in front of those that lead below.
Behind(t, rs, below) ==
    [g \in Path |-> UNION {{h} \cup below[h] : h \in PublicImports(t, rs, g)}]

\* publicImportChainFrom: the files behind f that n more public imports reach.
PublicWithin(t, rs, f, n) ==
    LET reach[k \in 0 .. n] ==
            IF k = 0 THEN [g \in Path |-> {}] ELSE Behind(t, rs, reach[k - 1])
    IN  reach[n][f]

\* importChain # null: one import of any kind but option, then public ones.
fileCanSee(t, rs, from, to) ==
    \/ from = to
    \/ \E i \in Imports(t, from) :
          /\ i.kind # "option" /\ i.path \in rs
          /\ to = i.path \/ to \in PublicWithin(t, rs, i.path, MaxChainDepth - 1)

\* findMessageVisible: the file's own messages, then those of visible files.
Visible(t, rs, f, s) ==
    \E g \in rs \cup {f} : t.declares[g] = s /\ fileCanSee(t, rs, f, g)

\* findType: a message of any file.
Known(t, rs, s) == \E g \in rs : t.declares[g] = s

\* validateNoSymbolConflicts, for a file about to be added.
SymbolConflict(t, rs, f) == \E g \in rs : t.declares[g] = t.declares[f]

\* validateExtensionDeclarations: every extension of every file has its extendee.
ExtensionsResolve(t, rs) ==
    \A f \in rs : \A s \in t.extends[f] : Visible(t, rs, f, s)

\* validateKindTypeReference: a name that does not resolve passes when the file
\* has missing weak imports and no file at all declares the name.
ReferencePasses(t, rs, f, missing, s) ==
    Visible(t, rs, f, s) \/ (missing /\ ~Known(t, rs, s))

\* validateFileReferences.
ReferencesPass(t, rs, f, missing) ==
    /\ \A s \in t.extends[f] : Visible(t, rs, f, s)
    /\ \A s \in t.uses[f] : ReferencePasses(t, rs, f, missing, s)
=============================================================================
