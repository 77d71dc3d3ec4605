------------------------------- MODULE Loader -------------------------------
(***************************************************************************)
(* loadMemory and loadDir (src/src/loader.zig): a depth-first load of a    *)
(* root file and its imports, followed by one addFile per loaded file and  *)
(* the validation of all references.  loadOne is recursive; its            *)
(* activations are the frames of a stack, and an error unwinds them one by *)
(* one until a weak import swallows it or the load fails.                  *)
(***************************************************************************)
EXTENDS Registry, SequencesExt

CONSTANTS
    Trees,    \* the source trees a load may be given
    Root      \* root_path

ASSUME TreesAssumption == Trees \subseteq Tree
ASSUME RootAssumption == Root \in Path

VARIABLES
    tree,        \* the MemorySourceTree, or the directory; nothing writes to it
    stack,       \* activations of loadOne whose file is parsed
    loading,     \* paths being loaded
    loaded,      \* paths in files
    files,       \* result.files
    registered,  \* how many of them result.registry holds
    pc,          \* where the load is
    arg,         \* the path loadOne is called with
    err,         \* the error being returned
    outcome      \* what the load returned

vars == <<tree, stack, loading, loaded, files, registered, pc, arg, err, outcome>>

Error == {"FileNotFound", "ImportCycle", "ParseError", "OutOfMemory",
          "DuplicateSymbol", "InvalidExtensionDeclaration", "InvalidFieldType"}

Frame == [path : Path, next : Nat \ {0}, missing : Seq(Path)]

File == [name : Path, missing : Seq(Path)]

TypeOK ==
    /\ tree \in Tree
    /\ stack \in Seq(Frame)
    /\ loading \subseteq Path /\ loaded \subseteq Path
    /\ files \in Seq(File)
    /\ registered \in 0 .. Len(files)
    /\ pc \in {"visit", "imports", "raise", "add", "validate", "done"}
    /\ arg \in Path
    /\ err \in Error \cup {"none"}
    /\ outcome \in Error \cup {"none", "ok"}

Init ==
    /\ tree \in Trees
    /\ stack = <<>> /\ loading = {} /\ loaded = {}
    /\ files = <<>> /\ registered = 0
    /\ pc = "visit" /\ arg = Root
    /\ err = "none" /\ outcome = "none"

Top == stack[Len(stack)]

FileNames == {files[i].name : i \in DOMAIN files}

\* The registry's files while file number n is being looked at.
FirstFiles(n) == {files[i].name : i \in 1 .. n}

-----------------------------------------------------------------------------
(* loadOne *)

Raise(e) ==
    /\ err' = e /\ pc' = "raise"
    /\ UNCHANGED <<tree, stack, loading, loaded, files, registered, arg, outcome>>

\* The activation on top goes on with its next import.
Advance(s) == [s EXCEPT ![Len(s)].next = @ + 1]

\* The path is in loaded: nothing to do.
AlreadyLoaded ==
    /\ pc = "visit" /\ arg \in loaded
    /\ stack' = Advance(stack) /\ pc' = "imports"
    /\ UNCHANGED <<tree, loading, loaded, files, registered, arg, err, outcome>>

Cycle ==
    /\ pc = "visit" /\ arg \notin loaded /\ arg \in loading
    /\ Raise("ImportCycle")

\* loading.put is undone by the defer in the same activation.
NotThere ==
    /\ pc = "visit" /\ arg \notin loaded \cup loading
    /\ arg \notin tree.there
    /\ Raise("FileNotFound")

DoesNotParse ==
    /\ pc = "visit" /\ arg \notin loaded \cup loading
    /\ arg \in tree.there \cap tree.malformed
    /\ Raise("ParseError")

\* Fault: a file is listed when it is parsed, before its imports.
OpenListing ==
    /\ pc = "visit" /\ arg \notin loaded \cup loading
    /\ arg \in tree.there \ tree.malformed
    /\ stack' = Append(stack, [path |-> arg, next |-> 1, missing |-> <<>>])
    /\ loading' = loading \cup {arg}
    /\ files' = Append(files, [name |-> arg, missing |-> <<>>])
    /\ pc' = "imports"
    /\ UNCHANGED <<tree, loaded, registered, arg, err, outcome>>

Open ==
    /\ pc = "visit" /\ arg \notin loaded \cup loading
    /\ arg \in tree.there \ tree.malformed
    /\ stack' = Append(stack, [path |-> arg, next |-> 1, missing |-> <<>>])
    /\ loading' = loading \cup {arg}
    /\ pc' = "imports"
    /\ UNCHANGED <<tree, loaded, files, registered, arg, err, outcome>>

NextImport ==
    /\ pc = "imports" /\ Top.next <= Len(tree.imports[Top.path])
    /\ arg' = tree.imports[Top.path][Top.next].path
    /\ pc' = "visit"
    /\ UNCHANGED <<tree, stack, loading, loaded, files, registered, err, outcome>>

\* Fault: the file is put before those it imports.
CloseInFront ==
    /\ pc = "imports" /\ Top.next > Len(tree.imports[Top.path])
    /\ files' = <<[name |-> Top.path, missing |-> Top.missing]>> \o files
    /\ loaded' = loaded \cup {Top.path}
    /\ loading' = loading \ {Top.path}
    /\ IF Len(stack) = 1
       THEN stack' = <<>> /\ pc' = "add"
       ELSE stack' = Advance(Front(stack)) /\ pc' = "imports"
    /\ UNCHANGED <<tree, registered, arg, err, outcome>>

\* The imports are loaded: the file joins the result and loadOne returns.
Close ==
    /\ pc = "imports" /\ Top.next > Len(tree.imports[Top.path])
    /\ files' = Append(files, [name |-> Top.path, missing |-> Top.missing])
    /\ loaded' = loaded \cup {Top.path}
    /\ loading' = loading \ {Top.path}
    /\ IF Len(stack) = 1
       THEN stack' = <<>> /\ pc' = "add"
       ELSE stack' = Advance(Front(stack)) /\ pc' = "imports"
    /\ UNCHANGED <<tree, registered, arg, err, outcome>>

\* loaded.put fails: the file is in the result, which the load will free.
CloseFails ==
    /\ pc = "imports" /\ Top.next > Len(tree.imports[Top.path])
    /\ files' = Append(files, [name |-> Top.path, missing |-> Top.missing])
    /\ err' = "OutOfMemory" /\ pc' = "raise"
    /\ UNCHANGED <<tree, stack, loading, loaded, registered, arg, outcome>>

\* The import of the activation on top that an error comes from.
Failing == tree.imports[Top.path][Top.next]

\* Fault: a cycle that a weak import closes is swallowed too.
SwallowsCycle == err \in {"FileNotFound", "ImportCycle"} /\ Failing.kind = "weak"

\* Fault: any import may be missing.
SwallowsAnyImport == err = "FileNotFound"

Swallows == err = "FileNotFound" /\ Failing.kind = "weak"

\* Fault: the loop does not go on to the next import.
SwallowWeakAgain ==
    /\ pc = "raise" /\ stack # <<>> /\ Swallows
    /\ pc' = "imports" /\ err' = "none"
    /\ UNCHANGED <<tree, stack, loading, loaded, files, registered, arg, outcome>>

SwallowWeak ==
    /\ pc = "raise" /\ stack # <<>> /\ Swallows
    /\ stack' = Advance([stack EXCEPT ![Len(stack)].missing = Append(@, Failing.path)])
    /\ pc' = "imports" /\ err' = "none"
    /\ UNCHANGED <<tree, loading, loaded, files, registered, arg, outcome>>

\* The activation frees its file and takes its path out of loading.
Unwind ==
    /\ pc = "raise" /\ stack # <<>> /\ ~Swallows
    /\ stack' = Front(stack) /\ loading' = loading \ {Top.path}
    /\ UNCHANGED <<tree, loaded, files, registered, pc, arg, err, outcome>>

-----------------------------------------------------------------------------
(* loadMemory after loadOne *)

\* errdefer result.deinit(): a load that fails leaves nothing.
LoadFails ==
    /\ pc = "raise" /\ stack = <<>>
    /\ files' = <<>> /\ registered' = 0
    /\ outcome' = err /\ pc' = "done"
    /\ UNCHANGED <<tree, stack, loading, loaded, arg, err>>

AddFile ==
    /\ pc = "add" /\ registered < Len(files)
    /\ ~SymbolConflict(tree, FirstFiles(registered), files[registered + 1].name)
    /\ ExtensionsResolve(tree, FirstFiles(registered + 1))
    /\ registered' = registered + 1
    /\ UNCHANGED <<tree, stack, loading, loaded, files, pc, arg, err, outcome>>

AddFileFails ==
    /\ pc = "add" /\ registered < Len(files)
    /\ IF SymbolConflict(tree, FirstFiles(registered), files[registered + 1].name)
       THEN Raise("DuplicateSymbol")
       ELSE /\ ~ExtensionsResolve(tree, FirstFiles(registered + 1))
            /\ Raise("InvalidExtensionDeclaration")

AllAdded ==
    /\ pc = "add" /\ registered = Len(files)
    /\ pc' = "validate"
    /\ UNCHANGED <<tree, stack, loading, loaded, files, registered, arg, err, outcome>>

\* validateAllFileReferences.
ReferencesValid ==
    \A i \in DOMAIN files :
        ReferencesPass(tree, FileNames, files[i].name, files[i].missing # <<>>)

Validate ==
    /\ pc = "validate"
    /\ IF ReferencesValid
       THEN /\ outcome' = "ok" /\ pc' = "done"
            /\ UNCHANGED <<tree, stack, loading, loaded, files, registered, arg, err>>
       ELSE Raise("InvalidFieldType")

\* Every step before the load returns allocates.
OutOfMemory ==
    /\ pc \in {"visit", "imports", "add", "validate"}
    /\ Raise("OutOfMemory")

\* The append to missing_weak_imports fails: the error that leaves is not the
\* one the weak import would have swallowed.
SwallowFails ==
    /\ pc = "raise" /\ stack # <<>> /\ Swallows
    /\ Raise("OutOfMemory")

-----------------------------------------------------------------------------
loadOne ==
    \/ AlreadyLoaded \/ Cycle \/ NotThere \/ DoesNotParse \/ Open
    \/ NextImport \/ Close \/ CloseFails \/ SwallowWeak \/ SwallowFails \/ Unwind

loadMemory == LoadFails \/ AddFile \/ AddFileFails \/ AllAdded \/ Validate

Next == loadOne \/ loadMemory \/ OutOfMemory

Spec == Init /\ [][Next]_vars

\* The thread of the load runs it to its end.
FairSpec == Spec /\ WF_vars(Next)
=============================================================================
