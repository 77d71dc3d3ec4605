---------------------------- MODULE LoaderSafety ----------------------------
(***************************************************************************)
(* The properties of Loader.  The sources as written are the reference:    *)
(* what a load returns is compared with paths through the import graph.    *)
(***************************************************************************)
EXTENDS Loader

(* A file is in the result once, and after everything it imports, unless   *)
(* the import is weak and recorded as missing.  addFile resolves           *)
(* extendees against the files added before, so it depends on this order.  *)
ImportsListedFirst ==
    \A i \in DOMAIN files :
        /\ \A j \in DOMAIN files : files[j].name = files[i].name => i = j
        /\ \A im \in Imports(tree, files[i].name) :
              \/ im.path \in FirstFiles(i - 1)
              \/ im.kind = "weak" /\ im.path \in ToSet(files[i].missing)

(* A path recorded as a missing weak import is not in the result, however  *)
(* often and from wherever it is imported: the tolerance for unresolved    *)
(* names in validateKindTypeReference is for files that are not there.     *)
MissingNotListed ==
    \A i \in DOMAIN files : ToSet(files[i].missing) \cap FileNames = {}

(* No addFile fails because of the order of the files: an extension that   *)
(* is rejected has no visible extendee among all the files loaded.         *)
OrderNeverRejects ==
    pc = "raise" /\ err = "InvalidExtensionDeclaration"
        => ~ExtensionsResolve(tree, FileNames)

\* The files of S import by the kinds K only what is in S.
Closed(t, S, K) ==
    \A p \in S \cap (t.there \ t.malformed) : \A im \in Imports(t, p) :
        im.kind \in K => im.path \in S

\* The paths that imports of the kinds K lead to from S, S included.
From(t, S, K) ==
    {p \in Path : \A C \in SUBSET Path : S \subseteq C /\ Closed(t, C, K) => p \in C}

\* And the paths they lead to from the imports of p.
Below(t, p, K) == From(t, {im.path : im \in {i \in Imports(t, p) : i.kind \in K}}, K)

NotWeak == {"normal", "public", "option"}
AnyKind == NotWeak \cup {"weak"}

\* p is on a cycle of imports of the kinds K.
OnCycle(t, p, K) == p \in t.there \ t.malformed /\ p \in Below(t, p, K)

(* What a load answers is true of the sources.  Success: every file that   *)
(* is imported without going through a weak import is there, parses, is on *)
(* no cycle of such imports, and is in the result.  FileNotFound has       *)
(* crossed no weak import; a reported cycle is a cycle; a parse error is   *)
(* of a file the root reaches.                                             *)
OutcomeIsTrue ==
    /\ outcome = "ok" =>
         \A p \in From(tree, {Root}, NotWeak) :
            p \in (tree.there \ tree.malformed) \cap FileNames /\ ~OnCycle(tree, p, NotWeak)
    /\ outcome = "FileNotFound" =>
         \E p \in From(tree, {Root}, NotWeak) : p \notin tree.there
    /\ outcome = "ImportCycle" => \E p \in From(tree, {Root}, AnyKind) : OnCycle(tree, p, AnyKind)
    /\ outcome = "ParseError" =>
         From(tree, {Root}, AnyKind) \cap tree.there \cap tree.malformed # {}

(* Every load returns: cycles are found and no import is taken twice.      *)
LoadReturns == <>(pc = "done")

-----------------------------------------------------------------------------
(* README: "dynamic loader support for public and weak imports, including  *)
(* missing weak imports that leave the rest of a schema usable".  A load   *)
(* that rejects a reference has found one that the sources do not justify: *)
(* some file in the result uses a type it would not see if every import    *)
(* that is there were loaded.                                              *)
WeakLeavesUsable ==
    pc = "raise" /\ err = "InvalidFieldType" =>
        \E f \in FileNames : \E s \in tree.uses[f] \cup tree.extends[f] :
            ~Visible(tree, tree.there, f, s)
=============================================================================
