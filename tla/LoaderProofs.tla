---------------------------- MODULE LoaderProofs ----------------------------
(***************************************************************************)
(* Proofs about Loader, for every set of source trees: types, the order of *)
(* the result, that what is recorded missing is not there to be loaded,    *)
(* and that what a load answers is true of the sources.                    *)
(***************************************************************************)
EXTENDS LoaderSafety, SequenceTheorems, WellFoundedInduction, TLAPS

\* Import im of a file needs nothing more: it is among names or recorded.
Handled(im, names, missing) ==
    im.path \in names \/ (im.kind = "weak" /\ im.path \in ToSet(missing))

\* p is there, and all that it needs: what it imports, but for weak imports.
Present(t, p) == From(t, {p}, NotWeak) \subseteq t.there

\* The stack is the set of paths being loaded.
StackOK ==
    /\ \A i, j \in DOMAIN stack : stack[i].path = stack[j].path => i = j
    /\ loading = {stack[i].path : i \in DOMAIN stack}
    /\ loading \cap loaded = {}
    /\ loading \subseteq tree.there \ tree.malformed

\* An activation below another waits at the import the other one loads.
WaitingOK ==
    /\ \A i \in DOMAIN stack :
          i < Len(stack) =>
             /\ stack[i].next \in DOMAIN tree.imports[stack[i].path]
             /\ tree.imports[stack[i].path][stack[i].next].path = stack[i + 1].path
    /\ pc = "visit" /\ stack # <<>> =>
             /\ Top.next \in DOMAIN tree.imports[Top.path]
             /\ tree.imports[Top.path][Top.next].path = arg

\* FileNotFound comes from an import that cannot be loaded.
RaisedOK ==
    pc = "raise" /\ err = "FileNotFound" /\ stack # <<>> =>
        /\ Top.next \in DOMAIN tree.imports[Top.path]
        /\ ~Present(tree, Failing.path)

\* Where the load is, and what it holds there.
PlaceOK ==
    /\ pc = "imports" => stack # <<>>
    /\ pc = "visit" /\ stack = <<>> => loaded = {}
    /\ pc \in {"add", "validate", "done"} => stack = <<>>
    /\ pc \notin {"raise", "done"} => err = "none"
    /\ pc # "done" /\ err # "OutOfMemory" => loaded = FileNames

\* The imports an activation has passed are dealt with.
PassedOK ==
    \A i \in DOMAIN stack : \A m \in 1 .. stack[i].next - 1 :
        /\ m \in DOMAIN tree.imports[stack[i].path]
        /\ Handled(tree.imports[stack[i].path][m], FileNames, stack[i].missing)

\* What is recorded missing needs a file that is not there; what is listed is.
MissingOK ==
    /\ \A i \in DOMAIN stack : \A p \in ToSet(stack[i].missing) : ~Present(tree, p)
    /\ \A i \in DOMAIN files : \A p \in ToSet(files[i].missing) : ~Present(tree, p)
    /\ FileNames \subseteq tree.there \ tree.malformed

IInv ==
    /\ TypeOK /\ StackOK /\ WaitingOK /\ RaisedOK /\ PlaceOK /\ PassedOK
    /\ MissingOK /\ ImportsListedFirst

-----------------------------------------------------------------------------
(* A sequence that is not empty ends somewhere.                             *)
LEMMA Bounds ==
    ASSUME NEW n \in Nat, n > 0
    PROVE  n \in 1 .. n /\ \A i \in 1 .. n : i = n \/ i \in 1 .. n - 1
OBVIOUS

(* The activation on top goes on, and nothing else changes.                 *)
LEMMA AdvanceIs ==
    ASSUME NEW s \in Seq(Frame), Len(s) > 0
    PROVE  /\ Advance(s) \in Seq(Frame) /\ Len(Advance(s)) = Len(s)
           /\ \A i \in 1 .. Len(s) : /\ Advance(s)[i].path = s[i].path
                                    /\ Advance(s)[i].missing = s[i].missing
           /\ \A i \in 1 .. Len(s) - 1 : Advance(s)[i].next = s[i].next
           /\ Advance(s)[Len(s)].next = s[Len(s)].next + 1
<1> DEFINE n == Len(s)
           f == [path |-> s[n].path, next |-> s[n].next + 1, missing |-> s[n].missing]
<1>1. n \in Nat /\ n > 0
  BY LenProperties
<1>2. n \in 1 .. n /\ \A i \in 1 .. n : i = n \/ i \in 1 .. n - 1
  BY <1>1, Bounds
<1>3. s[n] \in Frame
  BY <1>2, ElementOfSeq
<1>4. f \in Frame /\ [s[n] EXCEPT !.next = @ + 1] = f
  BY <1>3 DEF Frame
<1>5. Advance(s) = [s EXCEPT ![n] = f]
  BY <1>4 DEF Advance
<1>6. f.path = s[n].path /\ f.next = s[n].next + 1 /\ f.missing = s[n].missing
  OBVIOUS
<1> DEFINE t == Advance(s)
<1> HIDE DEF f
<1>7. /\ t \in Seq(Frame) /\ Len(t) = Len(s)
      /\ \A i \in 1 .. n : t[i] = IF i = n THEN f ELSE s[i]
  BY <1>2, <1>4, <1>5, ExceptSeq
<1> HIDE DEF n, t
<1>8. t[n] = f /\ \A i \in 1 .. n - 1 : t[i] = s[i]
  <2>1. \A i \in 1 .. n - 1 : i \in 1 .. n /\ i # n
    BY <1>1
  <2> QED
    BY <1>2, <1>7, <2>1, Zenon
<1>9. \A i \in 1 .. n : t[i].path = s[i].path /\ t[i].missing = s[i].missing
  BY <1>2, <1>6, <1>8, Zenon
<1>10. /\ \A i \in 1 .. n - 1 : t[i].next = s[i].next
       /\ t[n].next = s[n].next + 1
  BY <1>6, <1>8, Zenon
<1> QED
  BY <1>7, <1>9, <1>10, Zenon DEF n, t

(* What is noted is appended.                                               *)
LEMMA AppendedSet ==
    ASSUME NEW m \in Seq(Path), NEW p \in Path
    PROVE  Append(m, p) \in Seq(Path) /\ ToSet(Append(m, p)) = ToSet(m) \cup {p}
<1>1. /\ Append(m, p) \in Seq(Path) /\ Len(Append(m, p)) = Len(m) + 1
      /\ \A i \in 1 .. Len(m) : Append(m, p)[i] = m[i]
      /\ Append(m, p)[Len(m) + 1] = p
  BY AppendProperties
<1>2. Len(m) \in Nat /\ DOMAIN m = 1 .. Len(m)
  BY LenProperties
<1>3. DOMAIN Append(m, p) = 1 .. Len(m) + 1
  BY <1>1, LenProperties
<1> QED
  BY <1>1, <1>2, <1>3 DEF ToSet

(* The activation on top records a missing import.                          *)
LEMMA NotedIs ==
    ASSUME NEW s \in Seq(Frame), Len(s) > 0, NEW p \in Path
    PROVE  LET t == [s EXCEPT ![Len(s)].missing = Append(@, p)]
           IN  /\ t \in Seq(Frame) /\ Len(t) = Len(s)
               /\ \A i \in 1 .. Len(s) : t[i].path = s[i].path /\ t[i].next = s[i].next
               /\ \A i \in 1 .. Len(s) - 1 : t[i].missing = s[i].missing
               /\ ToSet(t[Len(s)].missing) = ToSet(s[Len(s)].missing) \cup {p}
<1> DEFINE n == Len(s)
           m == Append(s[n].missing, p)
           f == [path |-> s[n].path, next |-> s[n].next, missing |-> m]
           t == [s EXCEPT ![n].missing = Append(@, p)]
<1>1. n \in Nat /\ n > 0
  BY LenProperties
<1>2. n \in 1 .. n /\ \A i \in 1 .. n : i = n \/ i \in 1 .. n - 1
  BY <1>1, Bounds
<1>3. s[n] \in Frame
  BY <1>2, ElementOfSeq
<1>4. m \in Seq(Path) /\ ToSet(m) = ToSet(s[n].missing) \cup {p}
  BY <1>3, AppendedSet DEF Frame
<1>5. t = [s EXCEPT ![n] = [s[n] EXCEPT !.missing = m]]
  OBVIOUS
<1> HIDE DEF m, t
<1>6. f \in Frame /\ [s[n] EXCEPT !.missing = m] = f
  BY <1>3, <1>4 DEF Frame
<1>7. f.path = s[n].path /\ f.next = s[n].next /\ f.missing = m
  OBVIOUS
<1> HIDE DEF f
<1>8. /\ t \in Seq(Frame) /\ Len(t) = Len(s)
      /\ \A i \in 1 .. n : t[i] = IF i = n THEN f ELSE s[i]
  BY <1>2, <1>5, <1>6, ExceptSeq
<1> HIDE DEF n
<1>9. t[n] = f /\ \A i \in 1 .. n - 1 : t[i] = s[i]
  <2>1. \A i \in 1 .. n - 1 : i \in 1 .. n /\ i # n
    BY <1>1
  <2> QED
    BY <1>2, <1>8, <2>1, Zenon
<1>10. \A i \in 1 .. n : t[i].path = s[i].path /\ t[i].next = s[i].next
  BY <1>2, <1>7, <1>9, Zenon
<1>11. /\ \A i \in 1 .. n - 1 : t[i].missing = s[i].missing
       /\ t[n].missing = m
  BY <1>7, <1>9, Zenon
<1> QED
  BY <1>4, <1>8, <1>10, <1>11, Zenon DEF n, t

(* The activation on top is gone.                                           *)
LEMMA FrontIs ==
    ASSUME NEW s \in Seq(Frame), Len(s) > 0
    PROVE  /\ Front(s) \in Seq(Frame) /\ Len(Front(s)) = Len(s) - 1
           /\ \A i \in 1 .. Len(s) - 1 : Front(s)[i] = s[i]
<1> DEFINE n == Len(s) - 1
<1>1. Len(s) \in Nat /\ n \in Nat
  BY LenProperties
<1>2. \A i \in 1 .. n : s[i] \in Frame
  BY <1>1, ElementOfSeq
<1> HIDE DEF n
<1>3. /\ SubSeq(s, 1, n) \in Seq(Frame)
      /\ Len(SubSeq(s, 1, n)) = IF 1 <= n THEN n - 1 + 1 ELSE 0
      /\ \A i \in 1 .. n - 1 + 1 : SubSeq(s, 1, n)[i] = s[1 + i - 1]
  BY <1>1, <1>2, SubSeqProperties
<1>4. /\ Len(SubSeq(s, 1, n)) = n
      /\ \A i \in 1 .. n : SubSeq(s, 1, n)[i] = s[i]
  BY <1>1, <1>3
<1> QED
  BY <1>3, <1>4 DEF Front, n

(* A file is listed.                                                        *)
LEMMA ListedIs ==
    ASSUME files \in Seq(File), NEW f \in File, files' = Append(files, f)
    PROVE  /\ files' \in Seq(File) /\ Len(files') = Len(files) + 1
           /\ DOMAIN files = 1 .. Len(files) /\ DOMAIN files' = 1 .. Len(files) + 1
           /\ \A i \in DOMAIN files : files'[i] = files[i]
           /\ files'[Len(files) + 1] = f
           /\ FileNames' = FileNames \cup {f.name}
<1>1. /\ files' \in Seq(File) /\ Len(files') = Len(files) + 1
      /\ DOMAIN files = 1 .. Len(files) /\ DOMAIN files' = 1 .. Len(files) + 1
      /\ \A i \in DOMAIN files : files'[i] = files[i]
      /\ files'[Len(files) + 1] = f /\ Len(files) \in Nat
  BY AppendProperties, LenProperties
<1> QED
  BY <1>1 DEF FileNames

(* What a tree of sources gives for a path.                                 *)
LEMMA TreeIs ==
    ASSUME tree \in Tree, NEW p \in Path
    PROVE  /\ tree.imports[p] \in Seq(Import)
           /\ Len(tree.imports[p]) \in Nat
           /\ DOMAIN tree.imports[p] = 1 .. Len(tree.imports[p])
           /\ \A m \in DOMAIN tree.imports[p] :
                 /\ tree.imports[p][m] \in Imports(tree, p)
                 /\ tree.imports[p][m].path \in Path
<1>1. tree.imports[p] \in Seq(Import)
  BY DEF Tree
<1>2. /\ Len(tree.imports[p]) \in Nat
      /\ DOMAIN tree.imports[p] = 1 .. Len(tree.imports[p])
  BY <1>1, LenProperties
<1>3. \A m \in DOMAIN tree.imports[p] : tree.imports[p][m] \in Import
  BY <1>1, <1>2, ElementOfSeq
<1> QED
  BY <1>1, <1>2, <1>3 DEF Imports, Import

(* The activation on top of a stack that is not empty.                      *)
LEMMA TopIs ==
    ASSUME TypeOK, stack # <<>>
    PROVE  /\ Len(stack) \in Nat /\ Len(stack) > 0 /\ DOMAIN stack = 1 .. Len(stack)
           /\ Len(stack) \in DOMAIN stack
           /\ Top \in Frame /\ Top.path \in Path /\ Top.next \in Nat \ {0}
<1>1. stack \in Seq(Frame) /\ Len(stack) # 0
  BY EmptySeq, Zenon DEF TypeOK
<1>2. Len(stack) \in Nat /\ DOMAIN stack = 1 .. Len(stack)
  BY <1>1, LenProperties
<1>3. Len(stack) > 0 /\ Len(stack) \in 1 .. Len(stack)
  BY <1>1, <1>2
<1>4. Top \in Frame
  BY <1>1, <1>3, ElementOfSeq DEF Top
<1> QED
  BY <1>2, <1>3, <1>4 DEF Frame

(* Imports that are not weak are of the other kinds.                        *)
LEMMA KindsAre ==
    ASSUME tree \in Tree, NEW p \in Path, NEW im \in Imports(tree, p)
    PROVE  im.path \in Path /\ im.kind \in AnyKind /\ (im.kind # "weak" => im.kind \in NotWeak)
<1>1. PICK m \in DOMAIN tree.imports[p] : im = tree.imports[p][m]
  BY DEF Imports
<1>2. im \in Import
  BY <1>1, TreeIs, ElementOfSeq, LenProperties DEF Tree
<1> QED
  BY <1>2 DEF Import, NotWeak, AnyKind

(* What is not there is not present, and what imports it, but for weak      *)
(* imports, is not either.                                                  *)
LEMMA NotPresent ==
    ASSUME tree \in Tree
    PROVE  /\ \A p \in Path : p \notin tree.there => ~Present(tree, p)
           /\ \A p \in tree.there \ tree.malformed : \A im \in Imports(tree, p) :
                 im.kind # "weak" /\ ~Present(tree, im.path) => ~Present(tree, p)
<1>1. \A p \in Path : p \in From(tree, {p}, NotWeak)
  BY DEF From
<1>2. ASSUME NEW p \in tree.there \ tree.malformed, NEW im \in Imports(tree, p),
             im.kind # "weak"
      PROVE  From(tree, {im.path}, NotWeak) \subseteq From(tree, {p}, NotWeak)
  <2>1. p \in Path
    BY DEF Tree
  <2>2. im.kind \in NotWeak
    BY <1>2, <2>1, KindsAre
  <2>3. \A C \in SUBSET Path : {p} \subseteq C /\ Closed(tree, C, NotWeak) => im.path \in C
    BY <2>2 DEF Closed
  <2> QED
    BY <2>3 DEF From
<1> QED
  BY <1>1, <1>2 DEF Present

(* The files of the result import, but for weak imports, only each other,   *)
(* and so do those listed up to one of them.                                *)
LEMMA ListIsClosed ==
    ASSUME IInv, NEW i \in 0 .. Len(files)
    PROVE  /\ FirstFiles(i) \in SUBSET Path
           /\ FirstFiles(i) \subseteq FileNames
           /\ Closed(tree, FirstFiles(i), NotWeak)
           /\ FirstFiles(Len(files)) = FileNames
<1>1. DOMAIN files = 1 .. Len(files) /\ Len(files) \in Nat
  BY LenProperties DEF IInv, TypeOK
<1>2. FirstFiles(i) \subseteq FileNames /\ FirstFiles(Len(files)) = FileNames
  BY <1>1 DEF FirstFiles, FileNames
<1>3. FileNames \subseteq tree.there \ tree.malformed /\ tree.there \subseteq Path
  BY DEF IInv, MissingOK, TypeOK, Tree
<1>4. ASSUME NEW q \in FirstFiles(i), NEW im \in Imports(tree, q), im.kind \in NotWeak
      PROVE  im.path \in FirstFiles(i)
  <2>1. PICK j \in 1 .. i : files[j].name = q
    BY DEF FirstFiles
  <2>2. j \in DOMAIN files /\ im.kind # "weak"
    BY <1>1, <1>4 DEF NotWeak
  <2>3. im.path \in FirstFiles(j - 1)
    BY <2>1, <2>2 DEF IInv, ImportsListedFirst
  <2> QED
    BY <1>1, <2>3 DEF FirstFiles
<1>5. Closed(tree, FirstFiles(i), NotWeak)
  BY <1>4 DEF Closed
<1> QED
  BY <1>2, <1>3, <1>5

(* A file in the result is present.                                         *)
LEMMA ListedIsPresent ==
    ASSUME IInv, NEW p \in FileNames
    PROVE  Present(tree, p)
<1>1. Len(files) \in Nat
  BY LenProperties DEF IInv, TypeOK
<1>2. FileNames \in SUBSET Path /\ Closed(tree, FileNames, NotWeak)
  <2>1. Len(files) \in 0 .. Len(files)
    BY <1>1
  <2> QED
    BY <2>1, ListIsClosed
<1>3. FileNames \subseteq tree.there
  BY DEF IInv, MissingOK
<1>4. From(tree, {p}, NotWeak) \subseteq FileNames
  BY <1>2 DEF From
<1> QED
  BY <1>3, <1>4 DEF Present

(* What is known of the files and of passed imports stays while neither the *)
(* files nor the stack change.                                              *)
LEMMA SameFiles ==
    ASSUME tree' = tree, stack' = stack, files' = files,
           PassedOK, MissingOK, ImportsListedFirst
    PROVE  PassedOK' /\ MissingOK' /\ ImportsListedFirst'
<1>1. FileNames' = FileNames
  BY DEF FileNames
<1>2. PassedOK'
  BY <1>1 DEF PassedOK, Handled
<1>3. MissingOK'
  BY <1>1 DEF MissingOK
<1>4. ImportsListedFirst'
  BY DEF ImportsListedFirst, FirstFiles
<1> QED
  BY <1>2, <1>3, <1>4

(* Raising an error: FileNotFound for a path that is not there, OutOfMemory *)
(* anywhere, the others before an error is on its way.                      *)
LEMMA RaiseSafe ==
    ASSUME IInv, NEW e \in Error, Raise(e), pc # "done",
           pc = "raise" => e = "OutOfMemory",
           e = "FileNotFound" => pc = "visit" /\ arg \notin tree.there
    PROVE  IInv'
<1>1. /\ tree' = tree /\ stack' = stack /\ loading' = loading /\ loaded' = loaded
      /\ files' = files /\ registered' = registered /\ arg' = arg
      /\ outcome' = outcome /\ pc' = "raise" /\ err' = e
  BY DEF Raise
<1>2. TypeOK' /\ StackOK' /\ PassedOK' /\ MissingOK' /\ ImportsListedFirst'
  <2>1. TypeOK'
    BY <1>1 DEF IInv, TypeOK
  <2>2. StackOK'
    BY <1>1 DEF IInv, StackOK
  <2>3. PassedOK' /\ MissingOK' /\ ImportsListedFirst'
    BY <1>1, SameFiles DEF IInv
  <2> QED
    BY <2>1, <2>2, <2>3
<1>3. WaitingOK'
  BY <1>1 DEF IInv, WaitingOK
<1>4. RaisedOK'
  <2> SUFFICES ASSUME e = "FileNotFound", stack # <<>>
               PROVE  /\ Top.next \in DOMAIN tree.imports[Top.path]
                      /\ ~Present(tree, Failing.path)
    <3>1. Top' = Top /\ Failing' = Failing
      BY <1>1 DEF Failing, Top
    <3> QED
      BY <1>1, <3>1, Zenon DEF RaisedOK
  <2>1. /\ Top.next \in DOMAIN tree.imports[Top.path] /\ Failing.path = arg
    BY DEF IInv, WaitingOK, Failing
  <2> QED
    BY <2>1, NotPresent DEF IInv, TypeOK
<1>5. PlaceOK'
  BY <1>1 DEF IInv, PlaceOK, FileNames
<1> QED
  BY <1>2, <1>3, <1>4, <1>5 DEF IInv

\* What holds of the activations in s while the one on top waits at an import.
Waiting(s) ==
    /\ s \in Seq(Frame) /\ Len(s) > 0
    /\ \A i, j \in 1 .. Len(s) : s[i].path = s[j].path => i = j
    /\ \A i \in 1 .. Len(s) : s[i].next \in DOMAIN tree.imports[s[i].path]
    /\ \A i \in 1 .. Len(s) - 1 :
          tree.imports[s[i].path][s[i].next].path = s[i + 1].path

\* Up to the import the one on top waits at, all imports are dealt with.
Passed(s, names) ==
    \A i \in 1 .. Len(s) : \A m \in 1 .. s[i].next :
        m < s[i].next \/ i = Len(s) =>
            /\ m \in DOMAIN tree.imports[s[i].path]
            /\ Handled(tree.imports[s[i].path][m], names, s[i].missing)

(* The activation on top of s goes on with its next import.                 *)
LEMMA GoesOn ==
    ASSUME NEW s, Waiting(s), Passed(s, FileNames'),
           tree' = tree, stack' = Advance(s), pc' = "imports"
    PROVE  /\ stack' \in Seq(Frame) /\ stack' # <<>> /\ DOMAIN stack' = 1 .. Len(s)
           /\ \A i \in 1 .. Len(s) : stack'[i].path = s[i].path
           /\ \A i \in 1 .. Len(s) : stack'[i].missing = s[i].missing
           /\ WaitingOK' /\ RaisedOK' /\ PassedOK'
<1> DEFINE n == Len(s)
<1>1. s \in Seq(Frame) /\ n \in Nat /\ n > 0
  BY LenProperties DEF Waiting
<1>2. /\ stack' \in Seq(Frame) /\ Len(stack') = n
      /\ \A i \in 1 .. n : stack'[i].path = s[i].path
      /\ \A i \in 1 .. n : stack'[i].missing = s[i].missing
      /\ \A i \in 1 .. n - 1 : stack'[i].next = s[i].next
      /\ stack'[n].next = s[n].next + 1
  BY <1>1, AdvanceIs
<1>3. DOMAIN stack' = 1 .. n
  BY <1>2, LenProperties
<1>4. \A i \in 1 .. n : s[i].next \in Nat
  <2>1. \A i \in 1 .. n : s[i] \in Frame
    BY <1>1, ElementOfSeq
  <2> QED
    BY <2>1 DEF Frame
<1>5. stack' # <<>>
  <2>1. Len(stack') # 0
    BY <1>1, <1>2
  <2> QED
    BY <1>2, <2>1, EmptySeq, Zenon
<1>6. WaitingOK'
  <2>1. \A i \in 1 .. n : i < n => i \in 1 .. n - 1 /\ i + 1 \in 1 .. n
    BY <1>1
  <2>2. \A i \in 1 .. n : i < n =>
           /\ stack'[i].next \in DOMAIN tree.imports[stack'[i].path]
           /\ tree.imports[stack'[i].path][stack'[i].next].path = stack'[i + 1].path
    BY <1>2, <2>1 DEF Waiting
  <2> QED
    BY <1>2, <1>3, <2>2 DEF WaitingOK
<1>7. RaisedOK'
  BY DEF RaisedOK
<1>8. PassedOK'
  <2> SUFFICES ASSUME NEW i \in 1 .. n, NEW m \in 1 .. stack'[i].next - 1
               PROVE  /\ m \in DOMAIN tree.imports[s[i].path]
                      /\ Handled(tree.imports[s[i].path][m], FileNames', s[i].missing)
    BY <1>2, <1>3 DEF PassedOK, Handled
  <2>1. i = n \/ i \in 1 .. n - 1
    BY <1>1
  <2>2. m \in 1 .. s[i].next /\ (m < s[i].next \/ i = n)
    BY <1>2, <1>4, <2>1
  <2> QED
    BY <2>2 DEF Passed
<1> QED
  BY <1>2, <1>3, <1>5, <1>6, <1>7, <1>8

(* Below an error or at a visit, the activations wait at an import.         *)
LEMMA StackWaits ==
    ASSUME IInv, stack # <<>>,
           Top.next \in DOMAIN tree.imports[Top.path]
    PROVE  Waiting(stack)
<1> DEFINE n == Len(stack)
<1>1. /\ stack \in Seq(Frame) /\ n \in Nat /\ n > 0
      /\ DOMAIN stack = 1 .. n /\ Top = stack[n]
  BY TopIs DEF IInv, TypeOK, Top
<1>2. \A i \in 1 .. n : i < n =>
         /\ stack[i].next \in DOMAIN tree.imports[stack[i].path]
         /\ tree.imports[stack[i].path][stack[i].next].path = stack[i + 1].path
  BY <1>1 DEF IInv, WaitingOK
<1>3. \A i, j \in 1 .. n : stack[i].path = stack[j].path => i = j
  BY <1>1 DEF IInv, StackOK
<1> HIDE DEF n
<1>4. \A i \in 1 .. n : i = n \/ i < n
  BY <1>1
<1>5. \A i \in 1 .. n - 1 : i \in 1 .. n /\ i < n
  BY <1>1
<1>6. \A i \in 1 .. n : stack[i].next \in DOMAIN tree.imports[stack[i].path]
  BY <1>1, <1>2, <1>4, Zenon
<1>7. \A i \in 1 .. n - 1 :
         tree.imports[stack[i].path][stack[i].next].path = stack[i + 1].path
  BY <1>2, <1>5, Zenon
<1> QED
  BY <1>1, <1>3, <1>6, <1>7 DEF Waiting, n

(* The visited path is in the result already: the import is dealt with.     *)
LEMMA AlreadyLoadedSafe ==
    ASSUME IInv, AlreadyLoaded
    PROVE  IInv'
<1>1. /\ pc = "visit" /\ arg \in loaded /\ stack' = Advance(stack) /\ pc' = "imports"
      /\ tree' = tree /\ loading' = loading /\ loaded' = loaded /\ files' = files
      /\ registered' = registered /\ arg' = arg /\ err' = err /\ outcome' = outcome
  BY DEF AlreadyLoaded
<1>2. stack # <<>>
  BY <1>1, Zenon DEF IInv, PlaceOK
<1> DEFINE n == Len(stack)
<1>3. n \in Nat /\ DOMAIN stack = 1 .. n /\ Top = stack[n] /\ stack \in Seq(Frame)
  BY <1>2, TopIs DEF IInv, TypeOK, Top
<1>4. /\ Top.next \in DOMAIN tree.imports[Top.path]
      /\ tree.imports[Top.path][Top.next].path = arg
  BY <1>1, <1>2 DEF IInv, WaitingOK
<1>5. err = "none" /\ loaded = FileNames /\ FileNames' = FileNames
  BY <1>1 DEF IInv, PlaceOK, FileNames
<1>6. Waiting(stack)
  BY <1>2, <1>4, StackWaits
<1>7. Passed(stack, FileNames')
  <2> SUFFICES ASSUME NEW i \in 1 .. n, NEW m \in 1 .. stack[i].next,
                      m < stack[i].next \/ i = n
               PROVE  /\ m \in DOMAIN tree.imports[stack[i].path]
                      /\ Handled(tree.imports[stack[i].path][m], FileNames, stack[i].missing)
    BY <1>5 DEF Passed
  <2>1. stack[i].next \in Nat
    <3>1. stack[i] \in Frame
      BY <1>3, ElementOfSeq
    <3> QED
      BY <3>1 DEF Frame
  <2>2. CASE m \in 1 .. stack[i].next - 1
    BY <1>3, <2>2 DEF IInv, PassedOK
  <2>3. CASE i = n /\ m = stack[n].next
    BY <1>1, <1>3, <1>4, <1>5, <2>3 DEF Handled
  <2> QED
    BY <2>1, <2>2, <2>3
<1>8. /\ stack' \in Seq(Frame) /\ stack' # <<>> /\ DOMAIN stack' = 1 .. n
      /\ \A i \in 1 .. n : stack'[i].path = stack[i].path
      /\ \A i \in 1 .. n : stack'[i].missing = stack[i].missing
      /\ WaitingOK' /\ RaisedOK' /\ PassedOK'
  BY <1>1, <1>6, <1>7, GoesOn
<1> HIDE DEF n
<1>9. TypeOK'
  BY <1>1, <1>8 DEF IInv, TypeOK
<1>10. StackOK'
  BY <1>1, <1>3, <1>8 DEF IInv, StackOK
<1>11. PlaceOK'
  BY <1>1, <1>5, <1>8, Zenon DEF PlaceOK
<1>12. MissingOK'
  BY <1>1, <1>3, <1>5, <1>8 DEF IInv, MissingOK
<1>13. ImportsListedFirst'
  BY <1>1 DEF IInv, ImportsListedFirst, FirstFiles
<1> QED
  BY <1>8, <1>9, <1>10, <1>11, <1>12, <1>13 DEF IInv

(* A weak import that cannot be loaded is recorded and passed.              *)
LEMMA SwallowWeakSafe ==
    ASSUME IInv, SwallowWeak
    PROVE  IInv'
<1> DEFINE n == Len(stack)
           p == Failing.path
           t == [stack EXCEPT ![Len(stack)].missing = Append(@, p)]
<1>1. /\ pc = "raise" /\ stack # <<>> /\ err = "FileNotFound" /\ Failing.kind = "weak"
      /\ stack' = Advance(t) /\ pc' = "imports" /\ err' = "none"
      /\ tree' = tree /\ loading' = loading /\ loaded' = loaded /\ files' = files
      /\ registered' = registered /\ arg' = arg /\ outcome' = outcome
  BY DEF SwallowWeak, Swallows
<1>2. /\ n \in Nat /\ n > 0 /\ DOMAIN stack = 1 .. n /\ Top = stack[n]
      /\ stack \in Seq(Frame) /\ Top.path \in Path
  BY <1>1, TopIs DEF IInv, TypeOK, Top
<1>3. Top.next \in DOMAIN tree.imports[Top.path] /\ ~Present(tree, p)
  BY <1>1 DEF IInv, RaisedOK
<1>4. p \in Path
  BY <1>2, <1>3, TreeIs DEF IInv, TypeOK, Failing
<1>5. /\ t \in Seq(Frame) /\ Len(t) = n
      /\ \A i \in 1 .. n : t[i].path = stack[i].path /\ t[i].next = stack[i].next
      /\ \A i \in 1 .. n - 1 : t[i].missing = stack[i].missing
      /\ ToSet(t[n].missing) = ToSet(stack[n].missing) \cup {p}
  BY <1>2, <1>4, NotedIs
<1>6. \A i \in 1 .. n : i = n \/ i \in 1 .. n - 1
  BY <1>2, Bounds
<1>7. \A i \in 1 .. n : ToSet(t[i].missing) \subseteq ToSet(stack[i].missing) \cup {p}
  BY <1>5, <1>6, Zenon
<1>8. \A i \in 1 .. n : ToSet(stack[i].missing) \subseteq ToSet(t[i].missing)
  BY <1>5, <1>6, Zenon
<1>9. loaded = FileNames /\ FileNames' = FileNames
  BY <1>1 DEF IInv, PlaceOK, FileNames
<1> HIDE DEF t, p
<1>10. Waiting(t)
  <2>1. Waiting(stack)
    BY <1>1, <1>3, StackWaits
  <2>2. \A i \in 1 .. n - 1 : i \in 1 .. n /\ i + 1 \in 1 .. n
    BY <1>2
  <2> QED
    BY <1>2, <1>5, <2>1, <2>2 DEF Waiting
<1> HIDE DEF n
<1>11. Passed(t, FileNames')
  <2> SUFFICES ASSUME NEW i \in 1 .. n, NEW m \in 1 .. stack[i].next,
                      m < stack[i].next \/ i = n
               PROVE  /\ m \in DOMAIN tree.imports[stack[i].path]
                      /\ Handled(tree.imports[stack[i].path][m], FileNames, t[i].missing)
    BY <1>5, <1>9 DEF Passed
  <2>1. stack[i].next \in Nat
    <3>1. stack[i] \in Frame
      BY <1>2, ElementOfSeq DEF n
    <3> QED
      BY <3>1 DEF Frame
  <2>2. CASE m \in 1 .. stack[i].next - 1
    <3>1. /\ m \in DOMAIN tree.imports[stack[i].path]
          /\ Handled(tree.imports[stack[i].path][m], FileNames, stack[i].missing)
      BY <1>2, <2>2 DEF IInv, PassedOK
    <3> QED
      BY <1>8, <3>1 DEF Handled
  <2>3. CASE i = n /\ m = stack[n].next
    BY <1>1, <1>2, <1>3, <1>5, <2>3 DEF Handled, Failing, p
  <2> QED
    BY <2>1, <2>2, <2>3
<1>12. /\ stack' \in Seq(Frame) /\ stack' # <<>> /\ DOMAIN stack' = 1 .. n
       /\ \A i \in 1 .. n : stack'[i].path = t[i].path
       /\ \A i \in 1 .. n : stack'[i].missing = t[i].missing
       /\ WaitingOK' /\ RaisedOK' /\ PassedOK'
  BY <1>1, <1>5, <1>10, <1>11, GoesOn
<1>13. TypeOK'
  BY <1>1, <1>12 DEF IInv, TypeOK
<1>14. StackOK'
  BY <1>1, <1>2, <1>5, <1>12 DEF IInv, StackOK
<1>15. PlaceOK'
  BY <1>1, <1>9, <1>12, Zenon DEF PlaceOK
<1>16. MissingOK'
  <2>1. \A i \in 1 .. n : \A q \in ToSet(t[i].missing) : ~Present(tree, q)
    BY <1>2, <1>3, <1>7 DEF IInv, MissingOK
  <2> QED
    BY <1>1, <1>9, <1>12, <2>1 DEF IInv, MissingOK
<1>17. ImportsListedFirst'
  BY <1>1 DEF IInv, ImportsListedFirst, FirstFiles
<1> QED
  BY <1>12, <1>13, <1>14, <1>15, <1>16, <1>17 DEF IInv

(* A file whose imports are dealt with joins the result.                    *)
LEMMA ListSafe ==
    ASSUME IInv, pc = "imports", Top.next > Len(tree.imports[Top.path]), tree' = tree,
           files' = Append(files, [name |-> Top.path, missing |-> Top.missing])
    PROVE  /\ files' \in Seq(File) /\ Len(files') = Len(files) + 1
           /\ FileNames' = FileNames \cup {Top.path}
           /\ \A i \in DOMAIN files' : \A p \in ToSet(files'[i].missing) : ~Present(tree, p)
           /\ FileNames' \subseteq tree.there \ tree.malformed
           /\ ImportsListedFirst'
<1> DEFINE n == Len(files)
           f == [name |-> Top.path, missing |-> Top.missing]
<1>1. stack # <<>> /\ err = "none"
  BY DEF IInv, PlaceOK
<1>2. /\ Len(stack) \in DOMAIN stack /\ Top \in Frame /\ Top = stack[Len(stack)]
      /\ Top.path \in Path /\ Top.next \in Nat
  BY <1>1, TopIs DEF IInv, Top
<1>3. f \in File /\ f.name = Top.path /\ f.missing = Top.missing
  BY <1>2 DEF Frame, File
<1> HIDE DEF f
<1>4. /\ files' \in Seq(File) /\ Len(files') = n + 1 /\ n \in Nat
      /\ DOMAIN files = 1 .. n /\ DOMAIN files' = 1 .. n + 1
      /\ \A i \in 1 .. n : files'[i] = files[i]
      /\ files'[n + 1] = f
      /\ FileNames' = FileNames \cup {Top.path}
  BY <1>3, ListedIs, LenProperties DEF IInv, TypeOK, f
<1> HIDE DEF n
<1>5. \A i \in 1 .. n + 1 : i \in 1 .. n \/ i = n + 1
  BY <1>4
<1>6. Top.path \in loading /\ loaded = FileNames
  BY <1>1, <1>2 DEF IInv, StackOK, PlaceOK
<1>7. Top.path \in tree.there \ tree.malformed /\ Top.path \notin FileNames
  BY <1>6 DEF IInv, StackOK
<1>8. \A i \in 1 .. n : files[i].name # Top.path
  BY <1>4, <1>7 DEF FileNames
<1>9. \A i \in 1 .. n : FirstFiles(i - 1)' = FirstFiles(i - 1)
  BY <1>4 DEF FirstFiles
<1>10. \A k \in Nat : k = n => FirstFiles(k)' = FileNames
  BY <1>4 DEF FirstFiles, FileNames
<1>11. \A im \in Imports(tree, Top.path) : Handled(im, FileNames, Top.missing)
  <2> SUFFICES ASSUME NEW m \in DOMAIN tree.imports[Top.path]
               PROVE  Handled(tree.imports[Top.path][m], FileNames, Top.missing)
    BY DEF Imports
  <2>1. m \in 1 .. Top.next - 1
    <3>1. m \in 1 .. Len(tree.imports[Top.path]) /\ Len(tree.imports[Top.path]) \in Nat
      BY <1>2, TreeIs, LenProperties DEF IInv, TypeOK
    <3> QED
      BY <1>2, <3>1
  <2> QED
    BY <1>2, <2>1 DEF IInv, PassedOK
<1>12. ASSUME NEW i \in DOMAIN files'
       PROVE  /\ \A j \in DOMAIN files' : files'[j].name = files'[i].name => i = j
              /\ \A im \in Imports(tree, files'[i].name) :
                    \/ im.path \in FirstFiles(i - 1)'
                    \/ im.kind = "weak" /\ im.path \in ToSet(files'[i].missing)
  <2>1. CASE i \in 1 .. n
    BY <1>3, <1>4, <1>5, <1>8, <1>9, <2>1 DEF IInv, ImportsListedFirst
  <2>2. CASE i = n + 1
    <3>1. \A j \in DOMAIN files' : files'[j].name = files'[i].name => i = j
      BY <1>3, <1>4, <1>5, <1>8, <2>2
    <3>2. files'[i].name = Top.path /\ files'[i].missing = Top.missing
      BY <1>3, <1>4, <2>2
    <3>3. FirstFiles(i - 1)' = FileNames
      <4>1. i - 1 = n
        BY <1>4, <2>2
      <4> QED
        BY <1>10, <4>1
    <3> QED
      BY <1>11, <3>1, <3>2, <3>3 DEF Handled
  <2> QED
    BY <1>4, <1>5, <2>1, <2>2
<1>13. ImportsListedFirst'
  BY <1>12 DEF ImportsListedFirst
<1>14. \A i \in DOMAIN files' : \A p \in ToSet(files'[i].missing) : ~Present(tree, p)
  <2>1. \A i \in 1 .. n : \A p \in ToSet(files[i].missing) : ~Present(tree, p)
    BY <1>4 DEF IInv, MissingOK
  <2>2. \A p \in ToSet(f.missing) : ~Present(tree, p)
    BY <1>2, <1>3 DEF IInv, MissingOK
  <2>3. \A i \in DOMAIN files' : i \in 1 .. n \/ i = n + 1
    BY <1>4, <1>5
  <2> QED
    BY <1>4, <2>1, <2>2, <2>3, Zenon
<1>15. FileNames' \subseteq tree.there \ tree.malformed
  BY <1>4, <1>7 DEF IInv, MissingOK
<1> QED
  BY <1>4, <1>13, <1>14, <1>15 DEF n

(* The file on top joins the result and its importer goes on.               *)
LEMMA CloseSafe ==
    ASSUME IInv, Close
    PROVE  IInv'
<1> DEFINE n == Len(stack)
           t == Front(stack)
<1>1. /\ pc = "imports" /\ Top.next > Len(tree.imports[Top.path])
      /\ files' = Append(files, [name |-> Top.path, missing |-> Top.missing])
      /\ loaded' = loaded \cup {Top.path} /\ loading' = loading \ {Top.path}
      /\ tree' = tree /\ registered' = registered /\ arg' = arg
      /\ err' = err /\ outcome' = outcome
  BY DEF Close
<1>2. IF n = 1 THEN stack' = <<>> /\ pc' = "add"
      ELSE stack' = Advance(t) /\ pc' = "imports"
  BY DEF Close
<1>3. stack # <<>> /\ err = "none" /\ loaded = FileNames
  BY <1>1 DEF IInv, PlaceOK
<1>4. /\ n \in Nat /\ n > 0 /\ DOMAIN stack = 1 .. n /\ Top = stack[n]
      /\ stack \in Seq(Frame) /\ Top.path \in Path
  BY <1>3, TopIs DEF IInv, TypeOK, Top
<1>5. /\ files' \in Seq(File) /\ Len(files') = Len(files) + 1
      /\ FileNames' = FileNames \cup {Top.path}
      /\ \A i \in DOMAIN files' : \A p \in ToSet(files'[i].missing) : ~Present(tree, p)
      /\ FileNames' \subseteq tree.there \ tree.malformed
      /\ ImportsListedFirst'
  BY <1>1, ListSafe
<1>6. registered' \in 0 .. Len(files')
  BY <1>1, <1>5, LenProperties DEF IInv, TypeOK
<1>7. loaded' \subseteq Path /\ loading' \subseteq Path /\ loading' \cap loaded' = {}
  BY <1>1, <1>4 DEF IInv, TypeOK, StackOK
<1>8. /\ t \in Seq(Frame) /\ Len(t) = n - 1
      /\ \A i \in 1 .. n - 1 : t[i] = stack[i]
  BY <1>4, FrontIs
<1> HIDE DEF n, t
<1>9. loading' = {stack[i].path : i \in 1 .. n - 1}
  <2>1. \A i \in 1 .. n : i = n \/ i \in 1 .. n - 1
    BY <1>4, Bounds
  <2>2. \A i \in 1 .. n - 1 : i \in 1 .. n /\ i # n
    BY <1>4
  <2>3. n \in 1 .. n
    BY <1>4
  <2> QED
    BY <1>1, <1>4, <2>1, <2>2, <2>3 DEF IInv, StackOK
<1>10. PlaceOK'
  <2>1. CASE n = 1
    BY <1>1, <1>2, <1>3, <1>5, <2>1, Zenon DEF PlaceOK
  <2>2. CASE n # 1
    <3>1. stack' \in Seq(Frame) /\ Len(stack') = n - 1 /\ n - 1 # 0
      BY <1>2, <1>4, <1>8, <2>2, AdvanceIs
    <3>2. stack' # <<>>
      BY <3>1, EmptySeq, Zenon
    <3> QED
      BY <1>1, <1>2, <1>3, <1>5, <2>2, <3>2, Zenon DEF PlaceOK
  <2> QED
    BY <2>1, <2>2
<1>11. CASE n = 1
  <2>1. stack' \in Seq(Frame) /\ Len(stack') = 0 /\ pc' = "add"
    BY <1>2, <1>11, EmptySeq, Zenon
  <2>2. DOMAIN stack' = {}
    BY <2>1, LenProperties
  <2>3. loading' = {}
    BY <1>9, <1>11
  <2>4. TypeOK'
    BY <1>1, <1>5, <1>6, <1>7, <2>1 DEF IInv, TypeOK
  <2>5. StackOK'
    BY <1>7, <2>2, <2>3 DEF StackOK
  <2>6. WaitingOK' /\ RaisedOK' /\ PassedOK'
    BY <2>1, <2>2, Zenon DEF WaitingOK, RaisedOK, PassedOK
  <2>7. MissingOK'
    BY <1>1, <1>5, <2>2 DEF MissingOK
  <2> QED
    BY <1>5, <1>10, <2>4, <2>5, <2>6, <2>7 DEF IInv
<1>12. CASE n # 1
  <2>1. Waiting(t)
    <3>1. /\ \A i \in 1 .. n - 1 : i \in 1 .. n /\ i < n
          /\ \A i \in 1 .. n - 1 - 1 : i \in 1 .. n - 1 /\ i + 1 \in 1 .. n - 1
          /\ n - 1 > 0
      BY <1>4, <1>12
    <3>2. \A i \in 1 .. n - 1 :
             /\ stack[i].next \in DOMAIN tree.imports[stack[i].path]
             /\ tree.imports[stack[i].path][stack[i].next].path = stack[i + 1].path
      BY <1>4, <3>1 DEF IInv, WaitingOK, n
    <3>3. \A i, j \in 1 .. n : stack[i].path = stack[j].path => i = j
      BY <1>4 DEF IInv, StackOK
    <3>4. \A i, j \in 1 .. n - 1 : t[i].path = t[j].path => i = j
      BY <1>8, <3>1, <3>3
    <3>5. \A i \in 1 .. n - 1 : t[i].next \in DOMAIN tree.imports[t[i].path]
      BY <1>8, <3>2
    <3>6. \A i \in 1 .. n - 1 - 1 :
             tree.imports[t[i].path][t[i].next].path = t[i + 1].path
      BY <1>8, <3>1, <3>2
    <3> QED
      BY <1>8, <3>1, <3>4, <3>5, <3>6 DEF Waiting
  <2>2. Passed(t, FileNames')
    <3> SUFFICES ASSUME NEW i \in 1 .. n - 1, NEW m \in 1 .. stack[i].next,
                        m < stack[i].next \/ i = n - 1
                 PROVE  /\ m \in DOMAIN tree.imports[stack[i].path]
                        /\ Handled(tree.imports[stack[i].path][m], FileNames',
                                   stack[i].missing)
      BY <1>8 DEF Passed
    <3>1. i \in 1 .. n /\ i < n
      BY <1>4
    <3>2. stack[i].next \in Nat
      <4>1. stack[i] \in Frame
        BY <1>4, <3>1, ElementOfSeq DEF n
      <4> QED
        BY <4>1 DEF Frame
    <3>3. CASE m \in 1 .. stack[i].next - 1
      BY <1>4, <1>5, <3>1, <3>3 DEF IInv, PassedOK, Handled
    <3>4. CASE i = n - 1 /\ m = stack[i].next
      <4>1. /\ stack[i].next \in DOMAIN tree.imports[stack[i].path]
            /\ tree.imports[stack[i].path][stack[i].next].path = stack[i + 1].path
        BY <1>4, <3>1 DEF IInv, WaitingOK, n
      <4>2. i + 1 = n
        BY <1>4, <3>4
      <4> QED
        BY <1>4, <1>5, <3>4, <4>1, <4>2 DEF Handled
    <3> QED
      BY <3>2, <3>3, <3>4
  <2>3. /\ stack' \in Seq(Frame) /\ DOMAIN stack' = 1 .. n - 1
        /\ \A i \in 1 .. n - 1 : stack'[i].path = stack[i].path
        /\ \A i \in 1 .. n - 1 : stack'[i].missing = stack[i].missing
        /\ WaitingOK' /\ RaisedOK' /\ PassedOK'
    BY <1>1, <1>2, <1>8, <1>12, <2>1, <2>2, GoesOn
  <2>4. \A i \in 1 .. n - 1 : i \in 1 .. n
    BY <1>4
  <2>5. TypeOK'
    BY <1>1, <1>2, <1>5, <1>6, <1>7, <1>12, <2>3 DEF IInv, TypeOK
  <2>6. StackOK'
    <3>1. loading' = {stack'[i].path : i \in DOMAIN stack'}
      BY <1>9, <2>3
    <3>2. \A i, j \in DOMAIN stack' : stack'[i].path = stack'[j].path => i = j
      BY <1>4, <2>3, <2>4 DEF IInv, StackOK
    <3> QED
      BY <1>1, <1>7, <3>1, <3>2 DEF IInv, StackOK
  <2>7. MissingOK'
    BY <1>1, <1>4, <1>5, <2>3, <2>4 DEF IInv, MissingOK
  <2> QED
    BY <1>5, <1>10, <2>3, <2>5, <2>6, <2>7 DEF IInv
<1> QED
  BY <1>11, <1>12

(* The file on top is listed, and the load is about to fail.                *)
LEMMA CloseFailsSafe ==
    ASSUME IInv, CloseFails
    PROVE  IInv'
<1>1. /\ pc = "imports" /\ Top.next > Len(tree.imports[Top.path])
      /\ files' = Append(files, [name |-> Top.path, missing |-> Top.missing])
      /\ err' = "OutOfMemory" /\ pc' = "raise"
      /\ tree' = tree /\ stack' = stack /\ loading' = loading /\ loaded' = loaded
      /\ registered' = registered /\ arg' = arg /\ outcome' = outcome
  BY DEF CloseFails
<1>2. /\ files' \in Seq(File) /\ Len(files') = Len(files) + 1
      /\ FileNames' = FileNames \cup {Top.path}
      /\ \A i \in DOMAIN files' : \A p \in ToSet(files'[i].missing) : ~Present(tree, p)
      /\ FileNames' \subseteq tree.there \ tree.malformed
      /\ ImportsListedFirst'
  BY <1>1, ListSafe
<1>3. registered' \in 0 .. Len(files')
  BY <1>1, <1>2, LenProperties DEF IInv, TypeOK
<1>4. TypeOK'
  BY <1>1, <1>2, <1>3 DEF IInv, TypeOK, Error
<1>5. StackOK'
  BY <1>1 DEF IInv, StackOK
<1>6. WaitingOK'
  BY <1>1 DEF IInv, WaitingOK
<1>7. RaisedOK' /\ PlaceOK'
  BY <1>1 DEF RaisedOK, PlaceOK
<1>8. PassedOK'
  BY <1>1, <1>2 DEF IInv, PassedOK, Handled
<1>9. MissingOK'
  BY <1>1, <1>2 DEF IInv, MissingOK
<1> QED
  BY <1>2, <1>4, <1>5, <1>6, <1>7, <1>8, <1>9 DEF IInv

(* A file is parsed and its imports are next.                               *)
LEMMA OpenSafe ==
    ASSUME IInv, Open
    PROVE  IInv'
<1> DEFINE n == Len(stack)
           f == [path |-> arg, next |-> 1, missing |-> <<>>]
<1>1. /\ pc = "visit" /\ arg \notin loaded \cup loading
      /\ arg \in tree.there \ tree.malformed
      /\ stack' = Append(stack, f) /\ loading' = loading \cup {arg} /\ pc' = "imports"
      /\ tree' = tree /\ loaded' = loaded /\ files' = files
      /\ registered' = registered /\ arg' = arg /\ err' = err /\ outcome' = outcome
  BY DEF Open
<1>2. f \in Frame /\ f.path = arg /\ f.next = 1 /\ f.missing = <<>>
  <2>1. <<>> \in Seq(Path)
    BY EmptySeq, Zenon
  <2>2. arg \in Path /\ 1 \in Nat \ {0}
    BY DEF IInv, TypeOK
  <2> QED
    BY <2>1, <2>2, Zenon DEF Frame
<1>3. ToSet(f.missing) = {}
  <2>1. Len(f.missing) = 0 /\ f.missing \in Seq(Path)
    BY <1>2, EmptySeq, Zenon
  <2>2. DOMAIN f.missing = {}
    BY <2>1, LenProperties
  <2> QED
    BY <2>2, Zenon DEF ToSet
<1> HIDE DEF f
<1>4. /\ stack' \in Seq(Frame) /\ Len(stack') = n + 1 /\ n \in Nat
      /\ DOMAIN stack = 1 .. n
      /\ \A i \in 1 .. n : stack'[i] = stack[i]
      /\ stack'[n + 1] = f
  BY <1>1, <1>2, AppendProperties, LenProperties DEF IInv, TypeOK
<1>5. DOMAIN stack' = 1 .. n + 1
  BY <1>4, LenProperties
<1>6. \A i \in 1 .. n : i < n => /\ stack[i].next \in DOMAIN tree.imports[stack[i].path]
                               /\ tree.imports[stack[i].path][stack[i].next].path
                                     = stack[i + 1].path
  BY <1>4 DEF IInv, WaitingOK
<1>7. n > 0 => /\ stack[n].next \in DOMAIN tree.imports[stack[n].path]
               /\ tree.imports[stack[n].path][stack[n].next].path = arg
  <2>1. stack = <<>> => n = 0
    BY EmptySeq, Zenon
  <2>2. n > 0 => n # 0
    BY <1>4
  <2>3. n > 0 => stack # <<>>
    BY <2>1, <2>2, Zenon
  <2> QED
    BY <1>1, <2>3, Zenon DEF IInv, WaitingOK, Top
<1> HIDE DEF n
<1>8. \A i \in 1 .. n + 1 : i \in 1 .. n \/ i = n + 1
  BY <1>4
<1>9. TypeOK'
  BY <1>1, <1>4 DEF IInv, TypeOK
<1>10. StackOK'
  <2>1. \A i \in 1 .. n : stack[i].path # arg
    BY <1>1, <1>4 DEF IInv, StackOK
  <2>2. \A i, j \in 1 .. n : stack[i].path = stack[j].path => i = j
    BY <1>4 DEF IInv, StackOK
  <2>3. \A i, j \in DOMAIN stack' : stack'[i].path = stack'[j].path => i = j
    BY <1>2, <1>4, <1>5, <1>8, <2>1, <2>2
  <2>4. loading' = {stack'[i].path : i \in DOMAIN stack'}
    <3>1. loading = {stack[i].path : i \in 1 .. n}
      BY <1>4 DEF IInv, StackOK
    <3>2. \A i \in 1 .. n : i \in 1 .. n + 1 /\ n + 1 \in 1 .. n + 1
      BY <1>4
    <3>3. n + 1 \in 1 .. n + 1
      BY <1>4
    <3> QED
      BY <1>1, <1>2, <1>4, <1>5, <1>8, <3>1, <3>2, <3>3
  <2>5. loading \cap loaded = {} /\ loading \subseteq tree.there \ tree.malformed
    BY Zenon DEF IInv, StackOK
  <2>6. loading' \cap loaded' = {}
    BY <1>1, <2>5
  <2>7. loading' \subseteq tree'.there \ tree'.malformed
    BY <1>1, <2>5
  <2> QED
    BY <2>3, <2>4, <2>6, <2>7, Zenon DEF StackOK
<1>11. WaitingOK'
  <2>1. ASSUME NEW i \in 1 .. n + 1, i < n + 1
        PROVE  /\ stack'[i].next \in DOMAIN tree.imports[stack'[i].path]
               /\ tree.imports[stack'[i].path][stack'[i].next].path = stack'[i + 1].path
    <3>1. i \in 1 .. n
      BY <1>4, <2>1
    <3>2. CASE i = n
      <4>1. n > 0 /\ i + 1 = n + 1
        BY <1>4, <3>1, <3>2
      <4> QED
        BY <1>2, <1>4, <1>7, <3>1, <3>2, <4>1
    <3>3. CASE i < n
      <4>1. i + 1 \in 1 .. n
        BY <1>4, <3>1, <3>3
      <4> QED
        BY <1>4, <1>6, <3>1, <3>3, <4>1
    <3> QED
      BY <1>4, <3>1, <3>2, <3>3
  <2> QED
    BY <1>1, <1>4, <1>5, <2>1 DEF WaitingOK
<1>12. RaisedOK'
  BY <1>1 DEF RaisedOK
<1>13. PlaceOK'
  <2>1. Len(stack') # 0
    BY <1>4
  <2>2. stack' # <<>>
    BY <1>4, <2>1, EmptySeq, Zenon
  <2>3. err = "none" /\ loaded = FileNames /\ FileNames' = FileNames
    BY <1>1 DEF IInv, PlaceOK, FileNames
  <2> QED
    BY <1>1, <2>2, <2>3, Zenon DEF PlaceOK
<1>14. PassedOK'
  <2>1. FileNames' = FileNames
    BY <1>1 DEF FileNames
  <2>2. \A i \in 1 .. n : \A m \in 1 .. stack[i].next - 1 :
           /\ m \in DOMAIN tree.imports[stack[i].path]
           /\ Handled(tree.imports[stack[i].path][m], FileNames, stack[i].missing)
    BY <1>4 DEF IInv, PassedOK
  <2>3. 1 .. f.next - 1 = {}
    BY <1>2
  <2> QED
    BY <1>1, <1>4, <1>5, <1>8, <2>1, <2>2, <2>3 DEF PassedOK, Handled
<1>15. MissingOK'
  <2>1. \A i \in 1 .. n + 1 : \A p \in ToSet(stack'[i].missing) : ~Present(tree, p)
    BY <1>3, <1>4, <1>8 DEF IInv, MissingOK
  <2> QED
    BY <1>1, <1>5, <2>1 DEF IInv, MissingOK, FileNames
<1>16. ImportsListedFirst'
  BY <1>1 DEF IInv, ImportsListedFirst, FirstFiles
<1> QED
  BY <1>9, <1>10, <1>11, <1>12, <1>13, <1>14, <1>15, <1>16 DEF IInv

(* The next import is visited.                                              *)
LEMMA NextImportSafe ==
    ASSUME IInv, NextImport
    PROVE  IInv'
<1>1. /\ pc = "imports" /\ Top.next <= Len(tree.imports[Top.path])
      /\ arg' = tree.imports[Top.path][Top.next].path /\ pc' = "visit"
      /\ tree' = tree /\ stack' = stack /\ loading' = loading /\ loaded' = loaded
      /\ files' = files /\ registered' = registered /\ err' = err /\ outcome' = outcome
  BY DEF NextImport
<1>2. stack # <<>> /\ err = "none"
  BY <1>1 DEF IInv, PlaceOK
<1>3. Top.path \in Path /\ Top.next \in Nat \ {0}
  BY <1>2, TopIs DEF IInv
<1>4. Top.next \in DOMAIN tree.imports[Top.path] /\ arg' \in Path
  BY <1>1, <1>3, TreeIs DEF IInv, TypeOK
<1>5. TypeOK'
  BY <1>1, <1>4 DEF IInv, TypeOK
<1>6. StackOK' /\ RaisedOK'
  BY <1>1 DEF IInv, StackOK, RaisedOK
<1>7. WaitingOK'
  BY <1>1, <1>4 DEF IInv, WaitingOK, Top
<1>8. PlaceOK'
  BY <1>1, <1>2 DEF IInv, PlaceOK, FileNames
<1>9. PassedOK' /\ MissingOK' /\ ImportsListedFirst'
  BY <1>1, SameFiles DEF IInv
<1> QED
  BY <1>5, <1>6, <1>7, <1>8, <1>9 DEF IInv

(* An error that leaves the activation on top: what is not present below it *)
(* makes it not present.                                                    *)
LEMMA LeavesAbsent ==
    ASSUME IInv, Unwind, err = "FileNotFound"
    PROVE  ~Present(tree, Top.path)
<1>1. /\ pc = "raise" /\ stack # <<>> /\ ~(err = "FileNotFound" /\ Failing.kind = "weak")
  BY DEF Unwind, Swallows
<1>2. /\ Len(stack) \in DOMAIN stack /\ Top = stack[Len(stack)]
  BY <1>1, TopIs DEF IInv, Top
<1>3. Top.path \in tree.there \ tree.malformed /\ Top.path \in Path
  BY <1>1, <1>2, TopIs DEF IInv, StackOK
<1>4. Top.next \in DOMAIN tree.imports[Top.path] /\ ~Present(tree, Failing.path)
  BY <1>1 DEF IInv, RaisedOK
<1>5. Failing \in Imports(tree, Top.path) /\ Failing.kind # "weak"
  BY <1>1, <1>3, <1>4, TreeIs DEF IInv, TypeOK, Failing
<1> QED
  BY <1>3, <1>4, <1>5, NotPresent DEF IInv, TypeOK

(* An error leaves the activation on top: what could not be loaded below it *)
(* cannot be loaded through it.                                             *)
LEMMA UnwindSafe ==
    ASSUME IInv, Unwind
    PROVE  IInv'
<1> DEFINE n == Len(stack)
<1>1. /\ pc = "raise" /\ stack # <<>> /\ ~(err = "FileNotFound" /\ Failing.kind = "weak")
      /\ stack' = Front(stack) /\ loading' = loading \ {Top.path}
      /\ tree' = tree /\ loaded' = loaded /\ files' = files
      /\ registered' = registered /\ pc' = pc /\ arg' = arg
      /\ err' = err /\ outcome' = outcome
  BY DEF Unwind, Swallows
<1>2. /\ n \in Nat /\ n > 0 /\ DOMAIN stack = 1 .. n /\ Top = stack[n]
      /\ stack \in Seq(Frame) /\ Top.path \in Path
  BY <1>1, TopIs DEF IInv, TypeOK, Top
<1>3. /\ stack' \in Seq(Frame) /\ Len(stack') = n - 1
      /\ \A i \in 1 .. n - 1 : stack'[i] = stack[i]
  BY <1>1, <1>2, FrontIs
<1>4. DOMAIN stack' = 1 .. n - 1
  BY <1>3, LenProperties
<1>5. err = "FileNotFound" => ~Present(tree, Top.path)
  BY LeavesAbsent
<1>6. \A i \in 1 .. n : i < n => /\ stack[i].next \in DOMAIN tree.imports[stack[i].path]
                               /\ tree.imports[stack[i].path][stack[i].next].path
                                     = stack[i + 1].path
  BY <1>2 DEF IInv, WaitingOK
<1> HIDE DEF n
<1>7. /\ \A i \in 1 .. n : i = n \/ i \in 1 .. n - 1
      /\ \A i \in 1 .. n - 1 : i \in 1 .. n /\ i # n /\ i < n
      /\ \A i \in 1 .. n - 1 : i < n - 1 => i + 1 \in 1 .. n - 1
      /\ n \in 1 .. n
  BY <1>2
<1>8. StackOK'
  <2>1. \A i, j \in 1 .. n : stack[i].path = stack[j].path => i = j
    BY <1>2 DEF IInv, StackOK
  <2>2. loading = {stack[i].path : i \in 1 .. n}
    BY <1>2 DEF IInv, StackOK
  <2>3. loading' = {stack'[i].path : i \in DOMAIN stack'}
    BY <1>1, <1>2, <1>3, <1>4, <1>7, <2>1, <2>2
  <2>4. \A i, j \in DOMAIN stack' : stack'[i].path = stack'[j].path => i = j
    BY <1>3, <1>4, <1>7, <2>1
  <2>5. loading' \subseteq loading
    BY <1>1
  <2> QED
    BY <1>1, <2>3, <2>4, <2>5, Zenon DEF IInv, StackOK
<1>9. TypeOK'
  BY <1>1, <1>3 DEF IInv, TypeOK
<1>10. WaitingOK'
  BY <1>1, <1>3, <1>4, <1>6, <1>7 DEF WaitingOK
<1>11. RaisedOK'
  <2>1. SUFFICES ASSUME err = "FileNotFound", stack' # <<>>
                 PROVE  /\ Top'.next \in DOMAIN tree.imports[Top'.path]
                        /\ ~Present(tree, Failing.path)'
    BY <1>1 DEF RaisedOK
  <2>2. n - 1 # 0
    BY <1>3, <2>1, EmptySeq, Zenon
  <2>3. n - 1 \in 1 .. n - 1 /\ n - 1 + 1 = n
    BY <1>2, <2>2
  <2>4. Top' = stack[n - 1]
    BY <1>3, <2>3 DEF Top
  <2>5. /\ Top'.next \in DOMAIN tree.imports[Top'.path]
        /\ tree.imports[Top'.path][Top'.next].path = Top.path
    BY <1>2, <1>6, <1>7, <2>3, <2>4
  <2>6. Failing'.path = Top.path
    BY <1>1, <2>5 DEF Failing
  <2> QED
    BY <1>1, <1>5, <2>1, <2>5, <2>6
<1>12. PlaceOK'
  BY <1>1, Zenon DEF IInv, PlaceOK, FileNames
<1>13. PassedOK'
  <2>1. FileNames' = FileNames
    BY <1>1 DEF FileNames
  <2> QED
    BY <1>1, <1>2, <1>3, <1>4, <1>7, <2>1 DEF IInv, PassedOK, Handled
<1>14. MissingOK'
  BY <1>1, <1>2, <1>3, <1>4, <1>7 DEF IInv, MissingOK, FileNames
<1>15. ImportsListedFirst'
  BY <1>1 DEF IInv, ImportsListedFirst, FirstFiles
<1> QED
  BY <1>8, <1>9, <1>10, <1>11, <1>12, <1>13, <1>14, <1>15 DEF IInv

(* A failed load keeps no file.                                             *)
LEMMA LoadFailsSafe ==
    ASSUME IInv, LoadFails
    PROVE  IInv'
<1>1. /\ pc = "raise" /\ stack = <<>> /\ files' = <<>> /\ registered' = 0
      /\ outcome' = err /\ pc' = "done"
      /\ tree' = tree /\ stack' = stack /\ loading' = loading /\ loaded' = loaded
      /\ arg' = arg /\ err' = err
  BY DEF LoadFails
<1>2. files' \in Seq(File) /\ Len(files') = 0
  BY <1>1, EmptySeq, Zenon
<1>3. DOMAIN files' = {} /\ FileNames' = {}
  <2>1. DOMAIN files' = {}
    BY <1>2, LenProperties
  <2> QED
    BY <2>1 DEF FileNames
<1>4. Len(stack) = 0
  BY <1>1, EmptySeq, Zenon
<1>5. DOMAIN stack = {}
  BY <1>4, LenProperties DEF IInv, TypeOK
<1>6. registered' \in 0 .. Len(files')
  BY <1>1, <1>2
<1>7. TypeOK'
  <2>1. /\ tree' \in Tree /\ stack' \in Seq(Frame) /\ loading' \subseteq Path
        /\ loaded' \subseteq Path /\ arg' \in Path /\ err' \in Error \cup {"none"}
        /\ outcome' \in Error \cup {"none", "ok"}
        /\ pc' \in {"visit", "imports", "raise", "add", "validate", "done"}
    BY <1>1, Zenon DEF IInv, TypeOK
  <2> QED
    BY <1>2, <1>6, <2>1, Zenon DEF TypeOK
<1>8. StackOK' /\ WaitingOK' /\ RaisedOK' /\ PlaceOK'
  <2>1. /\ tree' = tree /\ stack' = stack /\ loading' = loading /\ loaded' = loaded
        /\ pc' = "done" /\ err' = err
    BY <1>1, Zenon
  <2>2. StackOK' /\ WaitingOK' /\ RaisedOK'
    BY <2>1 DEF IInv, StackOK, WaitingOK, RaisedOK
  <2>3. PlaceOK'
    BY <1>1, Zenon DEF PlaceOK
  <2> QED
    BY <2>2, <2>3
<1>9. PassedOK'
  BY <1>1, <1>5, Zenon DEF PassedOK
<1>10. MissingOK'
  BY <1>1, <1>3, <1>5, Zenon DEF MissingOK
<1>11. ImportsListedFirst'
  BY <1>3, Zenon DEF ImportsListedFirst
<1> QED
  BY <1>7, <1>8, <1>9, <1>10, <1>11 DEF IInv

(* The rest of loadMemory moves on without touching files or stack.         *)
LEMMA MovesOn ==
    ASSUME IInv, tree' = tree, stack' = stack, loading' = loading, loaded' = loaded,
           files' = files, arg' = arg, err' = err,
           registered' \in 0 .. Len(files),
           outcome' \in {outcome, "ok"},
           pc \in {"add", "validate"}, pc' \in {"add", "validate", "done"}
    PROVE  IInv'
<1>1. stack = <<>> /\ err = "none" /\ loaded = FileNames /\ FileNames' = FileNames
  BY DEF IInv, PlaceOK, FileNames
<1>2. TypeOK'
  BY DEF IInv, TypeOK
<1>3. StackOK' /\ WaitingOK' /\ RaisedOK'
  BY DEF IInv, StackOK, WaitingOK, RaisedOK
<1>4. PlaceOK'
  BY <1>1, Zenon DEF PlaceOK
<1>5. PassedOK' /\ MissingOK' /\ ImportsListedFirst'
  BY SameFiles DEF IInv
<1> QED
  BY <1>2, <1>3, <1>4, <1>5 DEF IInv

(* A load begins with nothing loaded.                                       *)
LEMMA InitSafe ==
    ASSUME Init
    PROVE  IInv
<1>1. /\ tree \in Trees /\ stack = <<>> /\ loading = {} /\ loaded = {}
      /\ files = <<>> /\ registered = 0 /\ pc = "visit" /\ arg = Root
      /\ err = "none" /\ outcome = "none"
  BY DEF Init
<1>2. /\ stack \in Seq(Frame) /\ Len(stack) = 0
      /\ files \in Seq(File) /\ Len(files) = 0
  BY <1>1, EmptySeq, Zenon
<1>3. DOMAIN stack = {} /\ DOMAIN files = {}
  BY <1>2, LenProperties
<1>4. FileNames = {}
  BY <1>3 DEF FileNames
<1>5. TypeOK
  <2>1. registered \in 0 .. Len(files)
    BY <1>1, <1>2
  <2>2. tree \in Tree /\ arg \in Path
    BY <1>1, TreesAssumption, RootAssumption, Zenon
  <2>3. loading \subseteq Path /\ loaded \subseteq Path
    BY <1>1, Zenon
  <2> QED
    BY <1>1, <1>2, <2>1, <2>2, <2>3, Zenon DEF TypeOK
<1>6. StackOK
  <2>1. loading = {stack[i].path : i \in DOMAIN stack}
    BY <1>1, <1>3, Zenon
  <2>2. /\ loading \cap loaded = {} /\ loading \subseteq tree.there \ tree.malformed
    BY <1>1, Zenon
  <2>3. \A i, j \in DOMAIN stack : stack[i].path = stack[j].path => i = j
    BY <1>3, Zenon
  <2> QED
    BY <2>1, <2>2, <2>3 DEF StackOK
<1>7. WaitingOK /\ RaisedOK
  BY <1>1, <1>3, Zenon DEF WaitingOK, RaisedOK
<1>8. PlaceOK
  BY <1>1, <1>4, Zenon DEF PlaceOK
<1>9. PassedOK /\ MissingOK /\ ImportsListedFirst
  BY <1>3, <1>4, Zenon DEF PassedOK, MissingOK, ImportsListedFirst
<1> QED
  BY <1>5, <1>6, <1>7, <1>8, <1>9 DEF IInv

(* Every step of a load keeps the invariant.                                *)
LEMMA NextSafe ==
    ASSUME IInv, Next
    PROVE  IInv'
<1>1. CASE AlreadyLoaded
  BY <1>1, AlreadyLoadedSafe
<1>2. CASE Cycle
  BY <1>2, RaiseSafe DEF Cycle, Error
<1>3. CASE NotThere
  BY <1>3, RaiseSafe DEF NotThere, Error
<1>4. CASE DoesNotParse
  BY <1>4, RaiseSafe DEF DoesNotParse, Error
<1>5. CASE Open
  BY <1>5, OpenSafe
<1>6. CASE NextImport
  BY <1>6, NextImportSafe
<1>7. CASE Close
  BY <1>7, CloseSafe
<1>8. CASE CloseFails
  BY <1>8, CloseFailsSafe
<1>9. CASE SwallowWeak
  BY <1>9, SwallowWeakSafe
<1>10. CASE SwallowFails
  BY <1>10, RaiseSafe DEF SwallowFails, Error
<1>11. CASE Unwind
  BY <1>11, UnwindSafe
<1>12. CASE LoadFails
  BY <1>12, LoadFailsSafe
<1>13. CASE AddFile
  <2>1. /\ pc = "add" /\ registered < Len(files) /\ registered' = registered + 1
        /\ tree' = tree /\ stack' = stack /\ loading' = loading /\ loaded' = loaded
        /\ files' = files /\ pc' = pc /\ arg' = arg /\ err' = err /\ outcome' = outcome
    BY <1>13 DEF AddFile
  <2>2. registered' \in 0 .. Len(files)
    <3>1. registered \in 0 .. Len(files) /\ Len(files) \in Nat
      BY LenProperties DEF IInv, TypeOK
    <3> QED
      BY <2>1, <3>1
  <2> QED
    BY <2>1, <2>2, MovesOn
<1>14. CASE AddFileFails
  BY <1>14, RaiseSafe DEF AddFileFails, Error
<1>15. CASE AllAdded
  <2>1. registered \in 0 .. Len(files)
    BY DEF IInv, TypeOK
  <2> QED
    BY <1>15, <2>1, MovesOn DEF AllAdded
<1>16. CASE Validate
  <2>1. registered \in 0 .. Len(files)
    BY DEF IInv, TypeOK
  <2>2. CASE ReferencesValid
    BY <1>16, <2>1, <2>2, MovesOn DEF Validate
  <2>3. CASE ~ReferencesValid
    BY <1>16, <2>3, RaiseSafe DEF Validate, Error
  <2> QED
    BY <2>2, <2>3
<1>17. CASE OutOfMemory
  BY <1>17, RaiseSafe DEF OutOfMemory, Error
<1> QED
  BY <1>1, <1>2, <1>3, <1>4, <1>5, <1>6, <1>7, <1>8, <1>9, <1>10, <1>11, <1>12, <1>13,
     <1>14, <1>15, <1>16, <1>17 DEF Next, loadOne, loadMemory

(* IInv holds between any two steps of any load.                            *)
THEOREM LoadInductive == Spec => []IInv
<1>1. Init => IInv
  BY InitSafe
<1>2. IInv /\ [Next]_vars => IInv'
  <2> SUFFICES ASSUME IInv, [Next]_vars
               PROVE  IInv'
    OBVIOUS
  <2>1. CASE Next
    BY <2>1, NextSafe
  <2>2. CASE UNCHANGED vars
    <3>1. /\ tree' = tree /\ stack' = stack /\ loading' = loading /\ loaded' = loaded
          /\ files' = files /\ registered' = registered /\ pc' = pc /\ arg' = arg
          /\ err' = err /\ outcome' = outcome
      BY <2>2 DEF vars
    <3>2. TypeOK' /\ StackOK' /\ WaitingOK'
      BY <3>1 DEF IInv, TypeOK, StackOK, WaitingOK, Top
    <3>3. RaisedOK' /\ PlaceOK'
      BY <3>1 DEF IInv, RaisedOK, PlaceOK, Top, Failing, FileNames
    <3>4. PassedOK' /\ MissingOK' /\ ImportsListedFirst'
      BY <3>1, SameFiles DEF IInv
    <3> QED
      BY <3>2, <3>3, <3>4 DEF IInv
  <2> QED
    BY <2>1, <2>2
<1> QED
  BY <1>1, <1>2, PTL DEF Spec

(* Every variable of a load keeps its type, whatever the source trees.      *)
THEOREM LoadTyped == Spec => []TypeOK
<1>1. IInv => TypeOK
  BY DEF IInv
<1> QED
  BY <1>1, LoadInductive, PTL

(* In every load of every tree of sources a file joins the result once and  *)
(* after all it imports, but for weak imports recorded as missing.          *)
THEOREM ImportsComeFirst == Spec => []ImportsListedFirst
<1>1. IInv => ImportsListedFirst
  BY DEF IInv
<1> QED
  BY <1>1, LoadInductive, PTL

(* What is recorded as a missing weak import needs a file that is not       *)
(* there, and so is never in the result.                                    *)
THEOREM MissingStaysOut == Spec => []MissingNotListed
<1>1. IInv => MissingNotListed
  <2> SUFFICES ASSUME IInv, NEW i \in DOMAIN files, NEW p \in ToSet(files[i].missing)
               PROVE  p \notin FileNames
    BY DEF MissingNotListed
  <2>1. ~Present(tree, p)
    BY DEF IInv, MissingOK
  <2> QED
    BY <2>1, ListedIsPresent
<1> QED
  BY <1>1, LoadInductive, PTL
-----------------------------------------------------------------------------
(* What a load answers.                                                     *)

\* The activations are a path of imports from the root.
PathOK ==
    /\ stack # <<>> => stack[1].path = Root
    /\ pc = "visit" /\ stack = <<>> => arg = Root
    /\ \A i \in DOMAIN stack : stack[i].path \in From(tree, {Root}, AnyKind)
    /\ \A i, j \in DOMAIN stack : i < j => stack[j].path \in Below(tree, stack[i].path, AnyKind)

\* An error is true of the sources, whether it is on its way up or returned.
ReasonOK ==
    /\ err = "FileNotFound" /\ stack = <<>> => ~Present(tree, Root)
    /\ err = "ImportCycle" =>
          \E p \in From(tree, {Root}, AnyKind) : OnCycle(tree, p, AnyKind)
    /\ err = "ParseError" =>
          From(tree, {Root}, AnyKind) \cap tree.there \cap tree.malformed # {}
    /\ pc = "raise" /\ err = "InvalidExtensionDeclaration" =>
          stack = <<>> /\ ~ExtensionsResolve(tree, FileNames)

\* What is returned is the error, or the root and all it needs.
AnswerOK ==
    /\ outcome \in {"none", "ok", err}
    /\ pc = "done" \/ outcome = "none"
    /\ pc \in {"add", "validate"} \/ outcome = "ok" => Root \in FileNames

TrueInv == PathOK /\ ReasonOK /\ AnswerOK

(* The imports of any kind of p and of what they lead to.                   *)
LEMMA BelowIs ==
    ASSUME tree \in Tree, NEW p \in Path, NEW im \in Imports(tree, p)
    PROVE  /\ im.path \in Below(tree, p, AnyKind)
           /\ p \in tree.there \ tree.malformed =>
                \A S \in SUBSET Path : p \in From(tree, S, AnyKind) =>
                                          im.path \in From(tree, S, AnyKind)
           /\ p \in tree.there \ tree.malformed =>
                \A q : p \in Below(tree, q, AnyKind) => im.path \in Below(tree, q, AnyKind)
<1>1. im.path \in Path /\ im.kind \in AnyKind
  BY KindsAre
<1>2. im.path \in Below(tree, p, AnyKind)
  BY <1>1 DEF Below, From
<1>3. ASSUME NEW S, p \in tree.there \ tree.malformed, p \in From(tree, S, AnyKind)
      PROVE  im.path \in From(tree, S, AnyKind)
  <2>1. \A C \in SUBSET Path : S \subseteq C /\ Closed(tree, C, AnyKind) => p \in C
    BY <1>3 DEF From
  <2>2. \A C \in SUBSET Path : S \subseteq C /\ Closed(tree, C, AnyKind) => im.path \in C
    BY <1>1, <1>3, <2>1 DEF Closed
  <2> QED
    BY <1>1, <2>2 DEF From
<1> QED
  BY <1>2, <1>3 DEF Below

(* The path visited is below every activation.                              *)
LEMMA VisitIsBelow ==
    ASSUME IInv, TrueInv, pc = "visit"
    PROVE  /\ arg \in From(tree, {Root}, AnyKind)
           /\ \A i \in DOMAIN stack : arg \in Below(tree, stack[i].path, AnyKind)
<1>1. CASE stack = <<>>
  <2>1. Len(stack) = 0
    BY <1>1, EmptySeq, Zenon
  <2>2. DOMAIN stack = {}
    BY <2>1, LenProperties DEF IInv, TypeOK
  <2>3. Root \in From(tree, {Root}, AnyKind)
    BY RootAssumption DEF From
  <2> QED
    BY <1>1, <2>2, <2>3 DEF TrueInv, PathOK
<1>2. CASE stack # <<>>
  <2> DEFINE n == Len(stack)
  <2>1. /\ n \in Nat /\ DOMAIN stack = 1 .. n /\ n \in 1 .. n /\ Top = stack[n]
        /\ Top.path \in Path
    BY <1>2, TopIs DEF IInv, Top
  <2>2. /\ Top.next \in DOMAIN tree.imports[Top.path]
        /\ tree.imports[Top.path][Top.next].path = arg
    BY <1>2 DEF IInv, WaitingOK
  <2>3. PICK im \in Imports(tree, Top.path) : im.path = arg
    BY <2>1, <2>2, TreeIs DEF IInv, TypeOK
  <2>4. Top.path \in tree.there \ tree.malformed
    BY <2>1 DEF IInv, StackOK
  <2>5. tree \in Tree /\ {Root} \in SUBSET Path
    BY RootAssumption DEF IInv, TypeOK
  <2>6. Top.path \in From(tree, {Root}, AnyKind)
    BY <2>1 DEF TrueInv, PathOK
  <2>7. arg \in From(tree, {Root}, AnyKind)
    BY <2>1, <2>3, <2>4, <2>5, <2>6, BelowIs
  <2> HIDE DEF n
  <2>8. \A i \in 1 .. n : i = n \/ i < n
    BY <2>1
  <2>9. ASSUME NEW i \in 1 .. n
        PROVE  arg \in Below(tree, stack[i].path, AnyKind)
    <3>1. CASE i = n
      <4>1. im.path \in Below(tree, Top.path, AnyKind)
        BY <2>1, <2>5, BelowIs
      <4> QED
        BY <2>1, <2>3, <3>1, <4>1, Zenon
    <3>2. CASE i < n
      <4>1. Top.path \in Below(tree, stack[i].path, AnyKind)
        BY <2>1, <3>2 DEF TrueInv, PathOK
      <4> QED
        BY <2>1, <2>3, <2>4, <2>5, <4>1, BelowIs
    <3> QED
      BY <2>8, <3>1, <3>2
  <2> QED
    BY <2>1, <2>7, <2>9
<1> QED
  BY <1>1, <1>2

(* The activations that stay are still a path from the root.                *)
LEMMA PathStays ==
    ASSUME TrueInv, NEW m \in Nat, 1 .. m \subseteq DOMAIN stack, tree' = tree,
           DOMAIN stack' = 1 .. m, \A i \in 1 .. m : stack'[i].path = stack[i].path,
           m > 0 => stack # <<>>, m = 0 => stack' = <<>>,
           pc' = "visit" => stack' # <<>>
    PROVE  PathOK'
<1>1. stack' # <<>> => stack'[1].path = Root
  <2>1. m = 0 \/ (m > 0 /\ 1 \in 1 .. m)
    OBVIOUS
  <2>2. CASE m > 0 /\ 1 \in 1 .. m
    BY <2>2, Zenon DEF TrueInv, PathOK
  <2> QED
    BY <2>1, <2>2
<1>2. \A i \in 1 .. m : stack[i].path \in From(tree, {Root}, AnyKind)
  BY DEF TrueInv, PathOK
<1>3. \A i, j \in 1 .. m : i < j => stack[j].path \in Below(tree, stack[i].path, AnyKind)
  BY DEF TrueInv, PathOK
<1> QED
  BY <1>1, <1>2, <1>3 DEF PathOK

(* An activation begins at the path visited.                                *)
LEMMA OpenPath ==
    ASSUME IInv, TrueInv, Open
    PROVE  PathOK'
<1> DEFINE n == Len(stack)
           f == [path |-> arg, next |-> 1, missing |-> <<>>]
<1>1. /\ pc = "visit" /\ stack' = Append(stack, f) /\ pc' = "imports" /\ tree' = tree
  BY DEF Open
<1>2. arg \in Path /\ <<>> \in Seq(Path) /\ stack \in Seq(Frame)
  BY EmptySeq DEF IInv, TypeOK
<1>3. f \in Frame /\ f.path = arg
  BY <1>2 DEF Frame
<1> HIDE DEF f
<1>4. /\ n \in Nat /\ DOMAIN stack = 1 .. n /\ DOMAIN stack' = 1 .. n + 1
      /\ \A i \in 1 .. n : stack'[i] = stack[i]
      /\ stack'[n + 1] = f
  BY <1>1, <1>2, <1>3, AppendProperties, LenProperties
<1>5. stack = <<>> => n = 0
  BY EmptySeq, Zenon
<1>6. n = 0 => stack = <<>>
  BY <1>2, EmptySeq, Zenon
<1>7. /\ arg \in From(tree, {Root}, AnyKind)
      /\ \A i \in 1 .. n : arg \in Below(tree, stack[i].path, AnyKind)
  BY <1>1, <1>4, VisitIsBelow
<1> HIDE DEF n
<1>8. stack'[1].path = Root
  <2>1. CASE n = 0
    BY <1>1, <1>3, <1>4, <1>6, <2>1 DEF TrueInv, PathOK
  <2>2. CASE n # 0
    <3>1. 1 \in 1 .. n /\ stack # <<>>
      BY <1>4, <1>5, <2>2
    <3> QED
      BY <1>4, <3>1 DEF TrueInv, PathOK
  <2> QED
    BY <2>1, <2>2
<1>9. \A i \in 1 .. n + 1 : i \in 1 .. n \/ i = n + 1
  BY <1>4
<1>10. \A i \in 1 .. n + 1 : stack'[i].path \in From(tree, {Root}, AnyKind)
  BY <1>3, <1>4, <1>7, <1>9 DEF TrueInv, PathOK
<1>11. \A i, j \in 1 .. n + 1 : i < j =>
           stack'[j].path \in Below(tree, stack'[i].path, AnyKind)
  <2> SUFFICES ASSUME NEW i \in 1 .. n + 1, NEW j \in 1 .. n + 1, i < j
               PROVE  stack'[j].path \in Below(tree, stack'[i].path, AnyKind)
    OBVIOUS
  <2>1. i \in 1 .. n
    BY <1>4
  <2>2. CASE j = n + 1
    BY <1>3, <1>4, <1>7, <2>1, <2>2
  <2>3. CASE j \in 1 .. n
    BY <1>4, <2>1, <2>3 DEF TrueInv, PathOK
  <2> QED
    BY <1>9, <2>2, <2>3
<1> QED
  BY <1>1, <1>4, <1>8, <1>10, <1>11 DEF PathOK

(* A path being loaded that is visited again is on a cycle.                 *)
LEMMA CycleIsTrue ==
    ASSUME IInv, TrueInv, Cycle
    PROVE  \E p \in From(tree, {Root}, AnyKind) : OnCycle(tree, p, AnyKind)
<1>1. pc = "visit" /\ arg \in loading
  BY DEF Cycle
<1>2. PICK i \in DOMAIN stack : stack[i].path = arg
  BY <1>1 DEF IInv, StackOK
<1>3. arg \in From(tree, {Root}, AnyKind) /\ arg \in Below(tree, stack[i].path, AnyKind)
  BY <1>1, VisitIsBelow
<1>4. arg \in tree.there \ tree.malformed
  BY <1>1 DEF IInv, StackOK
<1>5. OnCycle(tree, arg, AnyKind)
  BY <1>2, <1>3, <1>4 DEF OnCycle
<1> QED
  BY <1>3, <1>5

(* Raising an error that is true of the sources, or one that says nothing   *)
(* of them.                                                                 *)
LEMMA RaiseTrue ==
    ASSUME IInv, TrueInv, NEW e \in Error, Raise(e), pc # "done",
           e = "FileNotFound" /\ stack = <<>> => ~Present(tree, Root),
           e = "ImportCycle" =>
               \E p \in From(tree, {Root}, AnyKind) : OnCycle(tree, p, AnyKind),
           e = "ParseError" =>
               From(tree, {Root}, AnyKind) \cap tree.there \cap tree.malformed # {},
           e = "InvalidExtensionDeclaration" =>
               stack = <<>> /\ ~ExtensionsResolve(tree, FileNames)
    PROVE  TrueInv'
<1>1. /\ tree' = tree /\ stack' = stack /\ files' = files /\ arg' = arg
      /\ outcome' = outcome /\ pc' = "raise" /\ err' = e
  BY DEF Raise
<1>2. FileNames' = FileNames
  BY <1>1 DEF FileNames
<1>3. PathOK'
  BY <1>1 DEF TrueInv, PathOK
<1>4. ReasonOK'
  BY <1>1, <1>2, Zenon DEF ReasonOK
<1>5. outcome = "none"
  BY DEF TrueInv, AnswerOK
<1>6. AnswerOK'
  BY <1>1, <1>5, Zenon DEF AnswerOK
<1> QED
  BY <1>3, <1>4, <1>6 DEF TrueInv

(* Without an error there is no reason to give.                             *)
LEMMA NoReason ==
    ASSUME err' = "none"
    PROVE  ReasonOK'
BY DEF ReasonOK

(* A step inside loadOne that raises nothing answers nothing.               *)
LEMMA NoAnswer ==
    ASSUME TrueInv, pc # "done", outcome' = outcome, pc' \in {"visit", "imports"}
    PROVE  AnswerOK'
BY DEF TrueInv, AnswerOK

-----------------------------------------------------------------------------
(* What the registry sees of a part of its files.                           *)

(* A set of numbers that is not empty has a least one.                      *)
LEMMA FirstNumber ==
    ASSUME NEW T, T \subseteq Nat, T # {}
    PROVE  \E i \in T : \A j \in T : ~ (j < i)
<1>1. IsWellFoundedOn(OpToRel(<, Nat), Nat)
  BY NatLessThanWellFounded
<1>2. \E i \in T : \A j \in T : ~ (<<j, i>> \in OpToRel(<, Nat))
  BY <1>1, WFMin
<1>3. \A i, j \in Nat : j < i => <<j, i>> \in OpToRel(<, Nat)
  BY DEF OpToRel
<1> QED
  BY <1>2, <1>3

\* r is the function reach of PublicWithin.
IsReach(r, t, rs, n) ==
    r = [k \in 0 .. n |-> IF k = 0 THEN [g \in Path |-> {}] ELSE Behind(t, rs, r[k - 1])]

(* The recursive function of PublicWithin exists.                           *)
LEMMA ReachExists ==
    ASSUME NEW t, NEW rs, NEW n \in Nat
    PROVE  \E r : IsReach(r, t, rs, n)
<1> DEFINE z == [g \in Path |-> {}]
           T == {m \in Nat : ~ \E r : IsReach(r, t, rs, m)}
<1>1. SUFFICES ASSUME T # {} PROVE FALSE
  OBVIOUS
<1>2. PICK m \in T : \A j \in T : ~(j < m)
  <2>1. T \subseteq Nat
    OBVIOUS
  <2> HIDE DEF T
  <2> QED
    BY <1>1, <2>1, FirstNumber
<1>3. m \in Nat /\ ~ \E r : IsReach(r, t, rs, m)
  BY <1>2
<1>4. CASE m = 0
  <2> DEFINE r == [k \in 0 .. 0 |-> z]
  <2>1. IsReach(r, t, rs, 0)
    <3>1. \A k \in 0 .. 0 : k = 0
      OBVIOUS
    <3>2. r = [k \in 0 .. 0 |-> IF k = 0 THEN z ELSE Behind(t, rs, r[k - 1])]
      BY <3>1
    <3> QED
      BY <3>2 DEF IsReach
  <2> QED
    BY <1>3, <1>4, <2>1
<1>5. CASE m # 0
  <2>1. m - 1 \in Nat /\ m - 1 < m
    BY <1>3, <1>5
  <2>2. m - 1 \notin T
    BY <1>2, <2>1
  <2>3. PICK q : IsReach(q, t, rs, m - 1)
    BY <2>1, <2>2
  <2>4. q = [k \in 0 .. m - 1 |-> IF k = 0 THEN z ELSE Behind(t, rs, q[k - 1])]
    BY <2>3 DEF IsReach
  <2> DEFINE r == [k \in 0 .. m |-> IF k = m THEN Behind(t, rs, q[m - 1]) ELSE q[k]]
  <2>5. /\ \A k \in 0 .. m : k = m \/ k \in 0 .. m - 1
        /\ \A k \in 0 .. m - 1 : k \in 0 .. m /\ k # m
        /\ \A k \in 0 .. m : k # 0 => k - 1 \in 0 .. m - 1
        /\ m \in 0 .. m
    BY <1>3, <1>5
  <2>6. \A k \in 0 .. m - 1 : r[k] = q[k]
    BY <2>5
  <2>7. r[m] = Behind(t, rs, q[m - 1])
    BY <2>5
  <2> HIDE DEF z
  <2>8. \A k \in 0 .. m : r[k] = IF k = 0 THEN z ELSE Behind(t, rs, r[k - 1])
    <3> SUFFICES ASSUME NEW k \in 0 .. m
                 PROVE  r[k] = IF k = 0 THEN z ELSE Behind(t, rs, r[k - 1])
      OBVIOUS
    <3> HIDE DEF r
    <3>1. CASE k = m
      <4>1. m - 1 \in 0 .. m - 1
        BY <1>5, <2>5
      <4>2. r[m - 1] = q[m - 1]
        BY <2>6, <4>1
      <4> QED
        BY <1>5, <2>7, <3>1, <4>2
    <3>2. CASE k \in 0 .. m - 1
      <4>1. r[k] = q[k] /\ q[k] = IF k = 0 THEN z ELSE Behind(t, rs, q[k - 1])
        BY <2>4, <2>6, <3>2
      <4>2. k # 0 => r[k - 1] = q[k - 1]
        BY <2>5, <2>6
      <4> QED
        BY <4>1, <4>2
    <3> QED
      BY <2>5, <3>1, <3>2
  <2>9. r = [k \in 0 .. m |-> IF k = 0 THEN z ELSE Behind(t, rs, r[k - 1])]
    BY <2>8
  <2>10. IsReach(r, t, rs, m)
    BY <2>9 DEF IsReach, z
  <2> QED
    BY <1>3, <2>10
<1> QED
  BY <1>4, <1>5

(* And PublicWithin is what it says of n and f.                             *)
LEMMA WithinIs ==
    ASSUME NEW t, NEW rs, NEW n \in Nat
    PROVE  \E r : /\ IsReach(r, t, rs, n)
                  /\ \A f : PublicWithin(t, rs, f, n) = r[n][f]
<1> DEFINE reach == CHOOSE r : IsReach(r, t, rs, n)
<1>1. IsReach(reach, t, rs, n)
  BY ReachExists
<1>2. \A f : PublicWithin(t, rs, f, n) = reach[n][f]
  BY DEF PublicWithin, IsReach
<1> QED
  BY <1>1, <1>2

\* The files of part import no file of whole that is not in part.
Apart(t, part, whole) ==
    /\ part \in SUBSET Path /\ part \subseteq whole
    /\ \A f \in part : \A im \in Imports(t, f) : im.path \in whole => im.path \in part

(* Files outside such a part add nothing to what its files import publicly. *)
LEMMA SameWithin ==
    ASSUME NEW t, NEW part, NEW whole, Apart(t, part, whole), NEW n \in Nat,
           NEW f \in part
    PROVE  /\ PublicWithin(t, whole, f, n) \subseteq part
           /\ PublicWithin(t, whole, f, n) \subseteq PublicWithin(t, part, f, n)
<1>1. PICK r : IsReach(r, t, whole, n) /\ \A g : PublicWithin(t, whole, g, n) = r[n][g]
  BY WithinIs
<1>2. PICK q : IsReach(q, t, part, n) /\ \A g : PublicWithin(t, part, g, n) = q[n][g]
  BY WithinIs
<1>3. part \in SUBSET Path /\ \A g \in part : g \in Path
  BY DEF Apart
<1> DEFINE Good(k) == \A g \in part : r[k][g] \subseteq part /\ r[k][g] \subseteq q[k][g]
           T == {k \in 0 .. n : ~Good(k)}
<1>4. Good(n)
  <2>1. SUFFICES ASSUME T # {} PROVE FALSE
    <3>1. n \in 0 .. n
      OBVIOUS
    <3> QED
      BY <2>1, <3>1
  <2>2. PICK m \in T : \A j \in T : ~(j < m)
    <3>1. T \subseteq Nat
      OBVIOUS
    <3> HIDE DEF T
    <3> QED
      BY <2>1, <3>1, FirstNumber
  <2>3. m \in 0 .. n /\ ~Good(m)
    BY <2>2
  <2>4. CASE m = 0
    <3>1. r[0] = [g \in Path |-> {}]
      BY <1>1, <2>3, <2>4 DEF IsReach
    <3> QED
      BY <1>3, <2>3, <2>4, <3>1
  <2>5. CASE m # 0
    <3>1. m - 1 \in 0 .. n /\ m - 1 < m
      BY <2>3, <2>5
    <3>2. Good(m - 1)
      BY <2>2, <3>1
    <3> HIDE DEF T
    <3>3. r[m] = Behind(t, whole, r[m - 1]) /\ q[m] = Behind(t, part, q[m - 1])
      BY <1>1, <1>2, <2>3, <2>5, Zenon DEF IsReach
    <3>4. ASSUME NEW g \in part, NEW x \in r[m][g]
          PROVE  x \in part /\ x \in q[m][g]
      <4>1. r[m][g] = UNION {{h} \cup r[m - 1][h] : h \in PublicImports(t, whole, g)}
        BY <1>3, <3>3, Zenon DEF Behind
      <4>2. q[m][g] = UNION {{h} \cup q[m - 1][h] : h \in PublicImports(t, part, g)}
        BY <1>3, <3>3, Zenon DEF Behind
      <4>3. PICK h \in PublicImports(t, whole, g) : x = h \/ x \in r[m - 1][h]
        BY <3>4, <4>1
      <4>4. h \in part /\ h \in PublicImports(t, part, g)
        BY DEF PublicImports, Apart
      <4>5. x \in part /\ (x = h \/ x \in q[m - 1][h])
        BY <3>2, <4>3, <4>4
      <4> QED
        BY <4>2, <4>4, <4>5
    <3>5. Good(m)
      BY <3>4
    <3> QED
      BY <2>3, <3>5
  <2> QED
    BY <2>4, <2>5
<1> QED
  BY <1>1, <1>2, <1>4

(* What a file of such a part sees among all the files it sees in the part. *)
LEMMA SameView ==
    ASSUME NEW t, NEW part, NEW whole, Apart(t, part, whole), NEW f \in part, NEW s,
           Visible(t, whole, f, s)
    PROVE  Visible(t, part, f, s)
<1>1. PICK g \in whole \cup {f} : t.declares[g] = s /\ fileCanSee(t, whole, f, g)
  BY DEF Visible
<1>2. CASE f = g
  BY <1>1, <1>2 DEF Visible, fileCanSee
<1>3. CASE f # g
  <2>1. PICK im \in Imports(t, f) :
           /\ im.kind # "option" /\ im.path \in whole
           /\ g = im.path \/ g \in PublicWithin(t, whole, im.path, MaxChainDepth - 1)
    BY <1>1, <1>3 DEF fileCanSee
  <2>2. im.path \in part /\ MaxChainDepth - 1 \in Nat
    BY <2>1, ChainAssumption DEF Apart
  <2>3. g \in part /\ (g = im.path \/ g \in PublicWithin(t, part, im.path, MaxChainDepth - 1))
    BY <2>1, <2>2, SameWithin
  <2>4. fileCanSee(t, part, f, g)
    BY <2>1, <2>2, <2>3 DEF fileCanSee
  <2> QED
    BY <1>1, <2>3, <2>4 DEF Visible
<1> QED
  BY <1>2, <1>3

(* The files added up to one of them import no file that comes later.       *)
LEMMA LaterIsApart ==
    ASSUME IInv, NEW n \in 0 .. Len(files)
    PROVE  Apart(tree, FirstFiles(n), FileNames)
<1>1. DOMAIN files = 1 .. Len(files) /\ Len(files) \in Nat
  BY LenProperties DEF IInv, TypeOK
<1>2. FirstFiles(n) \in SUBSET Path /\ FirstFiles(n) \subseteq FileNames
  BY ListIsClosed
<1>3. ASSUME NEW f \in FirstFiles(n), NEW im \in Imports(tree, f), im.path \in FileNames
      PROVE  im.path \in FirstFiles(n)
  <2>1. PICK j \in 1 .. n : files[j].name = f
    BY DEF FirstFiles
  <2>2. j \in DOMAIN files
    BY <1>1
  <2>3. im.path \notin ToSet(files[j].missing)
    BY <1>3, <2>2, ListedIsPresent DEF IInv, MissingOK
  <2>4. im.path \in FirstFiles(j - 1)
    BY <2>1, <2>2, <2>3 DEF IInv, ImportsListedFirst
  <2> QED
    BY <1>1, <2>4 DEF FirstFiles
<1> QED
  BY <1>2, <1>3 DEF Apart

(* addFile rejects an extension only if no file of the result makes its     *)
(* extendee visible.                                                        *)
LEMMA RejectsForGood ==
    ASSUME IInv, pc = "add", registered < Len(files),
           ~ExtensionsResolve(tree, FirstFiles(registered + 1))
    PROVE  ~ExtensionsResolve(tree, FileNames)
<1>1. registered + 1 \in 0 .. Len(files)
  <2>1. registered \in 0 .. Len(files) /\ Len(files) \in Nat
    BY LenProperties DEF IInv, TypeOK
  <2> QED
    BY <2>1
<1>2. Apart(tree, FirstFiles(registered + 1), FileNames)
  BY <1>1, LaterIsApart
<1>3. PICK f \in FirstFiles(registered + 1) : \E s \in tree.extends[f] :
         ~Visible(tree, FirstFiles(registered + 1), f, s)
  BY DEF ExtensionsResolve
<1>4. PICK s \in tree.extends[f] : ~Visible(tree, FirstFiles(registered + 1), f, s)
  BY <1>3
<1>5. ~Visible(tree, FileNames, f, s) /\ f \in FileNames
  BY <1>2, <1>4, SameView DEF Apart
<1> QED
  BY <1>5 DEF ExtensionsResolve

-----------------------------------------------------------------------------
(* The activation on top leaves, and the one below it goes on.              *)
LEMMA ClosePath ==
    ASSUME IInv, TrueInv, Close
    PROVE  PathOK'
<1> DEFINE n == Len(stack)
<1>1. /\ pc = "imports" /\ tree' = tree /\ pc' # "visit"
      /\ IF n = 1 THEN stack' = <<>> ELSE stack' = Advance(Front(stack))
  BY DEF Close
<1>2. stack # <<>>
  BY <1>1 DEF IInv, PlaceOK
<1>3. n \in Nat /\ n > 0 /\ DOMAIN stack = 1 .. n /\ stack \in Seq(Frame)
  BY <1>2, TopIs DEF IInv, TypeOK
<1>4. /\ Front(stack) \in Seq(Frame) /\ Len(Front(stack)) = n - 1
      /\ \A i \in 1 .. n - 1 : Front(stack)[i] = stack[i]
  BY <1>3, FrontIs
<1> HIDE DEF n
<1>5. CASE n = 1
  <2>1. stack' = <<>> /\ Len(stack') = 0 /\ stack' \in Seq(Frame)
    BY <1>1, <1>5, EmptySeq, Zenon
  <2>2. DOMAIN stack' = {} /\ 1 .. 0 = {}
    BY <2>1, LenProperties
  <2> QED
    BY <1>1, <2>1, <2>2, PathStays
<1>6. CASE n # 1
  <2>1. n - 1 > 0 /\ n - 1 \in Nat /\ 1 .. n - 1 \subseteq 1 .. n
    BY <1>3, <1>6
  <2>2. /\ stack' \in Seq(Frame) /\ Len(stack') = n - 1
        /\ \A i \in 1 .. n - 1 : stack'[i].path = stack[i].path
    BY <1>1, <1>4, <1>6, <2>1, AdvanceIs
  <2>3. DOMAIN stack' = 1 .. n - 1
    BY <2>2, LenProperties
  <2>4. n - 1 # 0
    BY <2>1
  <2> QED
    BY <1>1, <1>2, <1>3, <2>1, <2>2, <2>3, <2>4, PathStays
<1> QED
  BY <1>5, <1>6

(* An error leaves the activation on top.                                   *)
LEMMA UnwindTrue ==
    ASSUME IInv, TrueInv, Unwind
    PROVE  TrueInv'
<1> DEFINE n == Len(stack)
<1>1. /\ pc = "raise" /\ stack # <<>> /\ stack' = Front(stack) /\ tree' = tree
      /\ files' = files /\ pc' = pc /\ err' = err /\ outcome' = outcome
  BY DEF Unwind
<1>2. /\ n \in Nat /\ n > 0 /\ DOMAIN stack = 1 .. n /\ stack \in Seq(Frame)
      /\ Top = stack[n]
  BY <1>1, TopIs DEF IInv, TypeOK, Top
<1>3. /\ stack' \in Seq(Frame) /\ Len(stack') = n - 1
      /\ \A i \in 1 .. n - 1 : stack'[i] = stack[i]
  BY <1>1, <1>2, FrontIs
<1>4. DOMAIN stack' = 1 .. n - 1
  BY <1>3, LenProperties
<1>5. stack' = <<>> <=> n = 1
  <2>1. stack' = <<>> <=> n - 1 = 0
    BY <1>3, EmptySeq, Zenon
  <2> QED
    BY <1>2, <2>1
<1> HIDE DEF n
<1>6. PathOK'
  <2>1. n - 1 \in Nat /\ 1 .. n - 1 \subseteq 1 .. n
    BY <1>2
  <2>2. n - 1 = 0 => stack' = <<>>
    BY <1>2, <1>5
  <2> QED
    BY <1>1, <1>2, <1>3, <1>4, <2>1, <2>2, PathStays
<1>7. stack' = <<>> /\ err = "FileNotFound" => ~Present(tree, Root)
  BY <1>1, <1>2, <1>5, LeavesAbsent DEF TrueInv, PathOK
<1>8. FileNames' = FileNames
  BY <1>1 DEF FileNames
<1>9. ReasonOK'
  BY <1>1, <1>7, <1>8, Zenon DEF TrueInv, ReasonOK
<1>10. AnswerOK'
  BY <1>1, <1>8, Zenon DEF TrueInv, AnswerOK
<1> QED
  BY <1>6, <1>9, <1>10 DEF TrueInv

(* The answer of a load is the error that reached its start.                *)
LEMMA LoadFailsTrue ==
    ASSUME IInv, TrueInv, LoadFails
    PROVE  TrueInv'
<1>1. /\ pc = "raise" /\ stack = <<>> /\ outcome' = err /\ pc' = "done"
      /\ tree' = tree /\ stack' = stack /\ err' = err
  BY DEF LoadFails
<1>2. PathOK'
  BY <1>1 DEF TrueInv, PathOK
<1>3. ReasonOK'
  BY <1>1, Zenon DEF TrueInv, ReasonOK
<1>4. err # "ok"
  BY DEF IInv, TypeOK, Error
<1>5. AnswerOK'
  BY <1>1, <1>4, Zenon DEF AnswerOK
<1> QED
  BY <1>2, <1>3, <1>5 DEF TrueInv

(* The steps after loadOne that raise no error.                             *)
LEMMA MovesOnTrue ==
    ASSUME IInv, TrueInv, pc \in {"add", "validate"}, tree' = tree, stack' = stack,
           files' = files, err' = err, pc' \in {"add", "validate", "done"},
           outcome' \in {outcome, "ok"}, pc' = "done" \/ outcome' = outcome
    PROVE  TrueInv'
<1>1. FileNames' = FileNames /\ err = "none"
  BY DEF FileNames, IInv, PlaceOK
<1>2. PathOK'
  BY DEF TrueInv, PathOK
<1>3. ReasonOK'
  BY <1>1, NoReason
<1>4. AnswerOK'
  BY <1>1 DEF TrueInv, AnswerOK
<1> QED
  BY <1>2, <1>3, <1>4 DEF TrueInv

(* Every step of a load keeps what its answers rest on.                     *)
LEMMA NextTrue ==
    ASSUME IInv, TrueInv, Next
    PROVE  TrueInv'
<1>1. CASE AlreadyLoaded
  <2>1. /\ pc = "visit" /\ arg \in loaded /\ stack' = Advance(stack) /\ pc' = "imports"
        /\ tree' = tree /\ err' = err /\ outcome' = outcome
    BY <1>1 DEF AlreadyLoaded
  <2>2. stack # <<>> /\ err = "none"
    BY <2>1, Zenon DEF IInv, PlaceOK
  <2>3. Len(stack) \in Nat /\ Len(stack) > 0 /\ DOMAIN stack = 1 .. Len(stack)
        /\ stack \in Seq(Frame)
    BY <2>2, TopIs DEF IInv, TypeOK
  <2>4. /\ stack' \in Seq(Frame) /\ Len(stack') = Len(stack)
        /\ \A i \in 1 .. Len(stack) : stack'[i].path = stack[i].path
    BY <2>1, <2>3, AdvanceIs
  <2>5. DOMAIN stack' = 1 .. Len(stack) /\ Len(stack) # 0
    BY <2>3, <2>4, LenProperties
  <2>6. PathOK'
    BY <2>1, <2>2, <2>3, <2>4, <2>5, PathStays
  <2> QED
    BY <2>1, <2>2, <2>6, NoReason, NoAnswer DEF TrueInv
<1>2. CASE Cycle
  BY <1>2, CycleIsTrue, RaiseTrue DEF Cycle, Error
<1>3. CASE NotThere
  <2>1. pc = "visit" /\ arg \notin tree.there /\ Raise("FileNotFound")
    BY <1>3 DEF NotThere
  <2>2. stack = <<>> => ~Present(tree, Root)
    BY <2>1, RootAssumption, NotPresent DEF IInv, TypeOK, TrueInv, PathOK
  <2> QED
    BY <2>1, <2>2, RaiseTrue DEF Error
<1>4. CASE DoesNotParse
  <2>1. pc = "visit" /\ arg \in tree.there \cap tree.malformed /\ Raise("ParseError")
    BY <1>4 DEF DoesNotParse
  <2>2. From(tree, {Root}, AnyKind) \cap tree.there \cap tree.malformed # {}
    BY <2>1, VisitIsBelow
  <2> QED
    BY <2>1, <2>2, RaiseTrue DEF Error
<1>5. CASE Open
  <2>1. pc = "visit" /\ pc' = "imports" /\ err' = err /\ outcome' = outcome
    BY <1>5 DEF Open
  <2>2. err = "none"
    BY <2>1 DEF IInv, PlaceOK
  <2> QED
    BY <1>5, <2>1, <2>2, OpenPath, NoReason, NoAnswer DEF TrueInv
<1>6. CASE NextImport
  <2>1. /\ pc = "imports" /\ pc' = "visit" /\ stack' = stack /\ tree' = tree
        /\ err' = err /\ outcome' = outcome
    BY <1>6 DEF NextImport
  <2>2. err = "none" /\ stack # <<>>
    BY <2>1 DEF IInv, PlaceOK
  <2>3. PathOK'
    BY <2>1, <2>2 DEF TrueInv, PathOK
  <2> QED
    BY <2>1, <2>2, <2>3, NoReason, NoAnswer DEF TrueInv
<1>7. CASE Close
  <2>1. /\ pc = "imports" /\ tree' = tree /\ err' = err /\ outcome' = outcome
        /\ Top.next > Len(tree.imports[Top.path])
        /\ files' = Append(files, [name |-> Top.path, missing |-> Top.missing])
        /\ IF Len(stack) = 1 THEN pc' = "add" ELSE pc' = "imports"
    BY <1>7 DEF Close
  <2>2. err = "none" /\ stack # <<>>
    BY <2>1 DEF IInv, PlaceOK
  <2>3. CASE Len(stack) = 1
    <3>1. Top.path = Root
      BY <2>2, <2>3 DEF TrueInv, PathOK, Top
    <3>2. Root \in FileNames'
      BY <2>1, <3>1, ListSafe
    <3>3. AnswerOK'
      BY <2>1, <2>2, <2>3, <3>2, Zenon DEF TrueInv, AnswerOK
    <3> QED
      BY <1>7, <2>1, <2>2, <3>3, ClosePath, NoReason DEF TrueInv
  <2>4. CASE Len(stack) # 1
    BY <1>7, <2>1, <2>2, <2>4, ClosePath, NoReason, NoAnswer DEF TrueInv
  <2> QED
    BY <2>3, <2>4
<1>8. CASE CloseFails
  <2>1. /\ pc = "imports" /\ tree' = tree /\ stack' = stack /\ err' = "OutOfMemory"
        /\ pc' = "raise" /\ outcome' = outcome
    BY <1>8 DEF CloseFails
  <2>2. PathOK'
    BY <2>1 DEF TrueInv, PathOK
  <2>3. ReasonOK'
    BY <2>1, Zenon DEF ReasonOK
  <2>4. outcome = "none"
    BY <2>1, Zenon DEF TrueInv, AnswerOK
  <2>5. AnswerOK'
    BY <2>1, <2>4, Zenon DEF AnswerOK
  <2> QED
    BY <2>2, <2>3, <2>5 DEF TrueInv
<1>9. CASE SwallowWeak
  <2> DEFINE t == [stack EXCEPT ![Len(stack)].missing = Append(@, Failing.path)]
  <2>1. /\ pc = "raise" /\ stack # <<>> /\ err = "FileNotFound" /\ stack' = Advance(t)
        /\ pc' = "imports" /\ err' = "none" /\ tree' = tree /\ outcome' = outcome
    BY <1>9 DEF SwallowWeak, Swallows
  <2>2. Len(stack) \in Nat /\ Len(stack) > 0 /\ DOMAIN stack = 1 .. Len(stack)
        /\ stack \in Seq(Frame) /\ Top.path \in Path
    BY <2>1, TopIs DEF IInv, TypeOK
  <2>3. Failing.path \in Path
    <3>1. Top.next \in DOMAIN tree.imports[Top.path]
      BY <2>1 DEF IInv, RaisedOK
    <3> QED
      BY <2>2, <3>1, TreeIs DEF IInv, TypeOK, Failing
  <2>4. /\ t \in Seq(Frame) /\ Len(t) = Len(stack)
        /\ \A i \in 1 .. Len(stack) : t[i].path = stack[i].path
    BY <2>2, <2>3, NotedIs
  <2> HIDE DEF t
  <2>5. /\ stack' \in Seq(Frame) /\ Len(stack') = Len(stack)
        /\ \A i \in 1 .. Len(stack) : stack'[i].path = stack[i].path
    BY <2>1, <2>2, <2>4, AdvanceIs
  <2>6. DOMAIN stack' = 1 .. Len(stack) /\ Len(stack) # 0
    BY <2>2, <2>5, LenProperties
  <2>7. PathOK'
    BY <2>1, <2>2, <2>5, <2>6, PathStays
  <2> QED
    BY <2>1, <2>7, NoReason, NoAnswer DEF TrueInv
<1>10. CASE SwallowFails
  BY <1>10, RaiseTrue DEF SwallowFails, Error
<1>11. CASE Unwind
  BY <1>11, UnwindTrue
<1>12. CASE LoadFails
  BY <1>12, LoadFailsTrue
<1>13. CASE AddFile \/ AllAdded
  BY <1>13, MovesOnTrue DEF AddFile, AllAdded
<1>14. CASE AddFileFails
  <2>1. pc = "add" /\ registered < Len(files)
    BY <1>14 DEF AddFileFails
  <2>2. CASE Raise("DuplicateSymbol")
    BY <2>1, <2>2, RaiseTrue DEF Error
  <2>3. CASE /\ ~ExtensionsResolve(tree, FirstFiles(registered + 1))
             /\ Raise("InvalidExtensionDeclaration")
    <3>1. ~ExtensionsResolve(tree, FileNames) /\ stack = <<>>
      BY <2>1, <2>3, RejectsForGood DEF IInv, PlaceOK
    <3> QED
      BY <2>1, <2>3, <3>1, RaiseTrue DEF Error
  <2> QED
    BY <1>14, <2>2, <2>3 DEF AddFileFails
<1>15. CASE Validate
  <2>1. CASE ReferencesValid
    BY <1>15, <2>1, MovesOnTrue DEF Validate
  <2>2. CASE ~ReferencesValid
    BY <1>15, <2>2, RaiseTrue DEF Validate, Error
  <2> QED
    BY <2>1, <2>2
<1>16. CASE OutOfMemory
  BY <1>16, RaiseTrue DEF OutOfMemory, Error
<1> QED
  BY <1>1, <1>2, <1>3, <1>4, <1>5, <1>6, <1>7, <1>8, <1>9, <1>10, <1>11, <1>12, <1>13,
     <1>14, <1>15, <1>16 DEF Next, loadOne, loadMemory

(* What the answer rests on holds between any two steps of any load.        *)
THEOREM AnswersRest == Spec => [](IInv /\ TrueInv)
<1>1. Init => IInv /\ TrueInv
  <2> SUFFICES ASSUME Init PROVE TrueInv
    BY InitSafe
  <2>1. /\ stack = <<>> /\ pc = "visit" /\ arg = Root /\ err = "none" /\ outcome = "none"
    BY DEF Init
  <2>2. Len(stack) = 0 /\ stack \in Seq(Frame)
    BY <2>1, EmptySeq, Zenon
  <2>3. DOMAIN stack = {}
    BY <2>2, LenProperties
  <2>4. PathOK
    BY <2>1, <2>3, Zenon DEF PathOK
  <2>5. ReasonOK /\ AnswerOK
    BY <2>1, Zenon DEF ReasonOK, AnswerOK
  <2> QED
    BY <2>4, <2>5 DEF TrueInv
<1>2. IInv /\ TrueInv /\ [Next]_vars => TrueInv'
  <2> SUFFICES ASSUME IInv, TrueInv, [Next]_vars
               PROVE  TrueInv'
    OBVIOUS
  <2>1. CASE Next
    BY <2>1, NextTrue
  <2>2. CASE UNCHANGED vars
    <3>1. /\ tree' = tree /\ stack' = stack /\ files' = files /\ pc' = pc /\ arg' = arg
          /\ err' = err /\ outcome' = outcome
      BY <2>2 DEF vars
    <3>2. PathOK'
      BY <3>1 DEF TrueInv, PathOK
    <3>3. FileNames' = FileNames
      BY <3>1 DEF FileNames
    <3>4. ReasonOK' /\ AnswerOK'
      BY <3>1, <3>3, Zenon DEF TrueInv, ReasonOK, AnswerOK
    <3> QED
      BY <3>2, <3>4 DEF TrueInv
  <2> QED
    BY <2>1, <2>2
<1> QED
  BY <1>1, <1>2, LoadInductive, PTL DEF Spec

(* addFile rejects no extension because of the order of the files: in every *)
(* load of every tree of sources, its extendee is not visible in any file.  *)
THEOREM OrderIsNoReason == Spec => []OrderNeverRejects
<1>1. IInv /\ TrueInv => OrderNeverRejects
  BY DEF TrueInv, ReasonOK, OrderNeverRejects
<1> QED
  BY <1>1, AnswersRest, PTL

(* A load that succeeds has found everything the root needs, and no cycle   *)
(* in it.                                                                   *)
LEMMA SuccessIsTrue ==
    ASSUME IInv, TrueInv, outcome = "ok", NEW p \in From(tree, {Root}, NotWeak)
    PROVE  /\ p \in (tree.there \ tree.malformed) \cap FileNames
           /\ ~OnCycle(tree, p, NotWeak)
<1>1. DOMAIN files = 1 .. Len(files) /\ Len(files) \in Nat
  BY LenProperties DEF IInv, TypeOK
<1>2. FileNames \in SUBSET Path /\ Closed(tree, FileNames, NotWeak)
  <2>1. Len(files) \in 0 .. Len(files)
    BY <1>1
  <2> QED
    BY <2>1, ListIsClosed
<1>3. p \in FileNames
  <2>1. Root \in FileNames
    BY DEF TrueInv, AnswerOK
  <2> QED
    BY <1>2, <2>1 DEF From
<1>4. p \in tree.there \ tree.malformed
  BY <1>3 DEF IInv, MissingOK
<1>5. PICK i \in DOMAIN files : files[i].name = p
  BY <1>3 DEF FileNames
<1> DEFINE C == FirstFiles(i - 1)
           D == {im.path : im \in {j \in Imports(tree, p) : j.kind \in NotWeak}}
<1>6. C \in SUBSET Path /\ Closed(tree, C, NotWeak)
  <2>1. i - 1 \in 0 .. Len(files)
    BY <1>1
  <2> QED
    BY <2>1, ListIsClosed
<1>7. D \subseteq C
  BY <1>5 DEF IInv, ImportsListedFirst, NotWeak
<1>8. p \notin C
  <2>1. \A j \in 1 .. i - 1 : j \in DOMAIN files /\ j # i
    BY <1>1
  <2>2. \A j \in DOMAIN files : files[j].name = files[i].name => i = j
    BY DEF IInv, ImportsListedFirst
  <2> QED
    BY <1>5, <2>1, <2>2 DEF FirstFiles
<1>9. p \notin Below(tree, p, NotWeak)
  <2> HIDE DEF C
  <2> QED
    BY <1>6, <1>7, <1>8 DEF Below, From
<1> QED
  BY <1>3, <1>4, <1>9 DEF OnCycle

(* What a load answers, success or which error, is true of the sources, for *)
(* every tree of sources and every root.                                    *)
THEOREM AnswersAreTrue == Spec => []OutcomeIsTrue
<1>1. IInv /\ TrueInv => OutcomeIsTrue
  <2> SUFFICES ASSUME IInv, TrueInv PROVE OutcomeIsTrue
    OBVIOUS
  <2>1. outcome = "ok" =>
           \A p \in From(tree, {Root}, NotWeak) :
              p \in (tree.there \ tree.malformed) \cap FileNames /\ ~OnCycle(tree, p, NotWeak)
    BY SuccessIsTrue
  <2>2. outcome \notin {"none", "ok"} => err = outcome /\ stack = <<>>
    BY DEF IInv, PlaceOK, TrueInv, AnswerOK
  <2>3. outcome = "FileNotFound" =>
           \E p \in From(tree, {Root}, NotWeak) : p \notin tree.there
    BY <2>2 DEF TrueInv, ReasonOK, Present
  <2>4. outcome = "ImportCycle" =>
           \E p \in From(tree, {Root}, AnyKind) : OnCycle(tree, p, AnyKind)
    BY <2>2 DEF TrueInv, ReasonOK
  <2>5. outcome = "ParseError" =>
           From(tree, {Root}, AnyKind) \cap tree.there \cap tree.malformed # {}
    BY <2>2 DEF TrueInv, ReasonOK
  <2> QED
    BY <2>1, <2>3, <2>4, <2>5 DEF OutcomeIsTrue
<1> QED
  BY <1>1, AnswersRest, PTL
=============================================================================
