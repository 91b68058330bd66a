----------------------- MODULE KernelSnapshot_proofs -----------------------
(***************************************************************************)
(* For any headers, files, lists and numbers of runs, which may be cut off *)
(* anywhere:                                                               *)
(*   after a run that ends, the compiler headers are the original ones,    *)
(*   although each run rewrites them once or twice;                        *)
(*   the pieces of two snapshots are never mixed, and what a snapshot has  *)
(*   was built from the sources of the time it was made; compare links     *)
(*   nothing newer to it - headers apart that were edited and that nobody  *)
(*   looks at the time of.                                                 *)
(***************************************************************************)
EXTENDS KernelSnapshot, TLAPS, FiniteSetTheorems, FunctionTheorems

HeaderNames == Range(Headers)

\* The running DiffKemp, as far as the headers are concerned.
RunInv == /\ DOMAIN run = DOMAIN Idle
          /\ run.pc \in {"idle", "empty", "rewrite", "work", "search", "opt", "built", "copy", "finalize"}
          /\ run.rewrite \in Seq(HeaderNames)
          /\ run.restore \in Seq(HeaderNames)
          /\ DOMAIN headers = HeaderNames

\* A run that has not come to its end is going to restore every header; at its
\* end, those that it has not restored yet.
WillRestore ==
    /\ run.pc \in {"empty", "rewrite", "work", "search", "opt", "built", "copy"} =>
          \A h \in HeaderNames : h \in Range(run.restore)
    /\ run.pc = "finalize" => \A h \in HeaderNames : h \in Range(run.restore) \/ headers[h] = Original

IInv == RunInv /\ WillRestore /\ HeadersRestored

-----------------------------------------------------------------------------
LEMMA HeadersSeq == /\ Headers \in Seq(HeaderNames)
                    /\ Headers \o Headers \in Seq(HeaderNames)
                    /\ \A h \in HeaderNames : h \in Range(Headers) /\ h \in Range(Headers \o Headers)
<1>1. Headers \in Seq(HeaderNames)
  BY HeadersAssumption DEF HeaderNames, Range
<1>2. \A h \in HeaderNames : h \in Range(Headers \o Headers)
  <2> SUFFICES ASSUME NEW n \in DOMAIN Headers
               PROVE  Headers[n] \in Range(Headers \o Headers)
    BY DEF HeaderNames, Range
  <2>1. n \in DOMAIN (Headers \o Headers) /\ (Headers \o Headers)[n] = Headers[n]
    BY HeadersAssumption
  <2> QED
    BY <2>1 DEF Range
<1> QED
  BY <1>1, <1>2 DEF HeaderNames

\* All but the head of a sequence is in its tail.
LEMMA RestInTail ==
    ASSUME NEW S, NEW s \in Seq(S), s # <<>>
    PROVE  Tail(s) \in Seq(S) /\ \A x \in Range(s) : x = Head(s) \/ x \in Range(Tail(s))
<1>1. Tail(s) \in Seq(S)
  OBVIOUS
<1>2. ASSUME NEW n \in DOMAIN s, n # 1
      PROVE  s[n] \in Range(Tail(s))
  <2>1. n - 1 \in DOMAIN Tail(s) /\ Tail(s)[n - 1] = s[n]
    BY <1>2
  <2> QED
    BY <2>1 DEF Range
<1> QED
  BY <1>1, <1>2 DEF Range

LEMMA EmptyRange == ASSUME NEW x PROVE x \notin Range(<<>>)
  BY DEF Range

-----------------------------------------------------------------------------
LEMMA InitInv == Init => IInv
  BY DEF Init, IInv, RunInv, WillRestore, HeadersRestored, Idle, HeaderNames

\* A run begins with all headers to rewrite and to restore.
LEMMA BeginInv ==
    ASSUME IInv, NEW kind, NEW sources \in {Headers, Headers \o Headers}, NEW list,
           NEW pc \in {"empty", "rewrite"},
           Begin(kind, sources, pc, list), UNCHANGED <<headers, ended>>
    PROVE  IInv'
<1>1. /\ run'.pc = pc /\ run'.rewrite = sources /\ run'.restore = sources
      /\ DOMAIN run' = DOMAIN Idle
  BY DEF Begin, Idle
<1>2. run' # Idle
  BY <1>1 DEF Idle
<1> QED
  BY <1>1, <1>2, HeadersSeq DEF IInv, RunInv, WillRestore, HeadersRestored

\* A step in the middle of a run leaves headers and what is to be restored.
LEMMA StepInv ==
    ASSUME IInv, UNCHANGED <<headers, ended>>,
           DOMAIN run' = DOMAIN run, run'.rewrite = run.rewrite, run'.restore = run.restore,
           run.pc \in {"empty", "rewrite", "work", "search", "opt", "built", "copy"},
           run'.pc \in {"rewrite", "work", "search", "opt", "built", "copy", "finalize"}
    PROVE  IInv'
<1>1. run' # Idle
  BY DEF Idle
<1> QED
  BY <1>1 DEF IInv, RunInv, WillRestore, HeadersRestored

LEMMA NextInv == IInv /\ [Next]_vars => IInv'
<1> SUFFICES ASSUME IInv, [Next]_vars PROVE IInv'
  OBVIOUS
<1> USE DEF IInv, RunInv
<1>0. DOMAIN run = {"kind", "pc", "rewrite", "restore", "todo", "cands", "modules", "funs", "copy", "answers",
                   "failed"}
  BY DEF Idle
<1>1. ASSUME NEW f \in FileSet, Edit(f) PROVE IInv'
  BY <1>1 DEF Edit, MayEdit, WillRestore, HeadersRestored
<1>17. CASE EditHeaders
  BY <1>17 DEF EditHeaders, MayEdit, WillRestore, HeadersRestored
<1>2. ASSUME NEW list \in Lists, Generate(list) PROVE IInv'
  BY <1>2, BeginInv DEF Generate
<1>18. CASE RemovePiece
  BY <1>18 DEF RemovePiece, WillRestore, HeadersRestored
<1>19. CASE Emptied
  BY <1>19, <1>0, StepInv DEF Emptied
<1>3. ASSUME NEW missing \in Missings, NEW n \in 1 .. 2, Compare(missing, n) PROVE IInv'
  BY <1>3, BeginInv DEF Compare, disk
<1>4. CASE RewriteHeader
  <2>1. run'.rewrite \in Seq(HeaderNames)
    BY <1>4, <1>0, RestInTail DEF RewriteHeader
  <2>2. /\ run.pc = "rewrite" /\ run'.pc = "rewrite"
        /\ DOMAIN run' = DOMAIN run /\ run'.restore = run.restore
        /\ DOMAIN headers' = DOMAIN headers /\ run' # Idle
    BY <1>4, <1>0 DEF RewriteHeader, Idle
  <2> QED
    BY <2>1, <2>2 DEF WillRestore, HeadersRestored
<1>5. CASE Rewritten
  BY <1>5, <1>0, StepInv DEF Rewritten, disk
<1>6. CASE RestoreHeader
  <2>1. Tail(run.restore) \in Seq(HeaderNames)
        /\ \A x \in Range(run.restore) : x = Head(run.restore) \/ x \in Range(Tail(run.restore))
    BY <1>6, RestInTail DEF RestoreHeader
  <2>2. /\ DOMAIN run' = DOMAIN run /\ run'.pc = "finalize" /\ run'.rewrite = run.rewrite
        /\ run'.restore = Tail(run.restore) /\ run' # Idle
    BY <1>6, <1>0 DEF RestoreHeader, Idle
  <2>3. /\ DOMAIN headers' = DOMAIN headers
        /\ \A h \in HeaderNames : h = Head(run.restore) => headers'[h] = Original
        /\ \A h \in HeaderNames : headers[h] = Original => headers'[h] = Original
    BY <1>6 DEF RestoreHeader, Enable, Original
  <2>4. \A h \in HeaderNames : h \in Range(run'.restore) \/ headers'[h] = Original
    BY <1>6, <2>1, <2>2, <2>3 DEF RestoreHeader, WillRestore
  <2> QED
    BY <2>1, <2>2, <2>3, <2>4 DEF WillRestore, HeadersRestored
<1>7. CASE Finished
  <2>1. \A h \in HeaderNames : headers[h] = Original
    BY <1>7, EmptyRange DEF Finished, WillRestore
  <2> QED
    BY <1>7, <2>1, <1>0 DEF Finished, disk, Idle, WillRestore, HeadersRestored
<1>8. CASE CutOff
  <2>1. /\ DOMAIN run' = DOMAIN Idle /\ run'.pc = "idle"
        /\ run'.rewrite = <<>> /\ run'.restore = <<>>
    BY <1>8 DEF CutOff, Idle
  <2>2. headers' = headers /\ ended' = "cut off"
    BY <1>8 DEF CutOff, disk
  <2>3. <<>> \in Seq(HeaderNames)
    OBVIOUS
  <2>4. run'.rewrite \in Seq(HeaderNames) /\ run'.restore \in Seq(HeaderNames)
    BY <2>1, <2>3
  <2>5. RunInv'
    BY <2>1, <2>2, <2>4
  <2>6. WillRestore' /\ HeadersRestored'
    BY <2>1, <2>2 DEF WillRestore, HeadersRestored
  <2> QED
    BY <2>5, <2>6
<1>9. CASE TakeSymbol \/ NotInSnapshot
  BY <1>9, <1>0, StepInv DEF TakeSymbol, NotInSnapshot, Search
<1>10. CASE FoundInSnapshot
  BY <1>10, <1>0, StepInv DEF FoundInSnapshot, disk
<1>11. CASE LookInto
  <2>1. /\ DOMAIN run' = DOMAIN run /\ run'.rewrite = run.rewrite /\ run'.restore = run.restore
        /\ run'.pc \in {"work", "search"}
    BY <1>11, <1>0 DEF LookInto, Tell
  <2> QED
    BY <1>11, <2>1, StepInv DEF LookInto, disk
<1>20. CASE SkipTooNew
  BY <1>20, <1>0, StepInv DEF SkipTooNew, disk
<1>21. CASE Compile
  <2>1. /\ DOMAIN run' = DOMAIN run /\ run'.rewrite = run.rewrite /\ run'.restore = run.restore
        /\ run'.pc \in {"opt", "built"}
    BY <1>21, <1>0 DEF Compile
  <2> QED
    BY <1>21, <2>1, StepInv DEF Compile
<1>22. CASE Optimise
  <2>1. /\ DOMAIN run' = DOMAIN run /\ run'.rewrite = run.rewrite /\ run'.restore = run.restore
        /\ run'.pc = "built"
    BY <1>22, <1>0 DEF Optimise
  <2> QED
    BY <1>22, <2>1, StepInv DEF Optimise
<1>12. CASE NotFound
  BY <1>12, <1>0, StepInv DEF NotFound, Tell, disk
<1>13. CASE AllLookedUp \/ Compared
  BY <1>13, <1>0, StepInv DEF AllLookedUp, Compared, disk
<1>14. CASE CopyModule
  BY <1>14, <1>0, StepInv DEF CopyModule
<1>15. CASE WriteYaml
  BY <1>15, <1>0, StepInv DEF WriteYaml, WriteFuns
<1>16. CASE Over \/ UNCHANGED vars
  BY <1>16 DEF Over, vars, disk, WillRestore, HeadersRestored
<1> QED
  BY <1>1, <1>2, <1>3, <1>4, <1>5, <1>6, <1>7, <1>8, <1>9, <1>10, <1>11, <1>12, <1>13, <1>14,
     <1>15, <1>16, <1>17, <1>18, <1>19, <1>20, <1>21, <1>22 DEF Next

\* After a run that ends by itself the compiler headers are the original ones, however
\* many runs before were cut off in the middle of rewriting or restoring them, and
\* although compare rewrites them once for each of its snapshots (build_llvm.py:37-79).
THEOREM HeadersAreRestored == Spec => []HeadersRestored
<1>1. IInv => HeadersRestored
  BY DEF IInv
<1> QED
  BY InitInv, NextInv, <1>1, PTL DEF Spec
-----------------------------------------------------------------------------
(***************************************************************************)
(* The snapshot.  What a snapshot holds of a file was true of the kernel   *)
(* directory when the snapshot was made; that a run keeps it true, and     *)
(* that compare can recognize what was changed since, rests on the times   *)
(* of modification.                                                        *)
(***************************************************************************)
Making == run.kind = "generate" /\ run.pc \notin {"empty", "finalize"}

Irs == [ver : Nat, inc : Nat, form : {"none", "clang", "part", "opt"}, mtime : Nat]
Sources == [ver : Nat, mtime : Nat]
FileTypes == /\ src \in [FileSet -> Sources] /\ inc \in Sources
             /\ ll \in [FileSet -> Irs]
             /\ DOMAIN snap = DOMAIN EmptySnap
             /\ snap.copies \in [FileSet -> Irs] /\ DOMAIN snap.at = FileSet
             /\ snap.yaml \in BOOLEAN

\* No time lies ahead of the clock, and each is later than that of IR that is not there.
Times == /\ clock \in Nat
         /\ snap.created \in Nat /\ snap.created <= clock
         /\ 1 <= inc.mtime /\ inc.mtime <= clock
         /\ \A f \in FileSet : src[f].mtime <= clock /\ ll[f].mtime <= clock

\* IR that is not older than its source, or than the headers, was built from it, and from them.
BuiltRight == \A f \in FileSet : ~ Outdated(f) => ll[f].ver = src[f].ver
IncludesRight == \A f \in FileSet : inc.mtime <= ll[f].mtime => ll[f].inc = inc.ver

\* Every source that was not modified after the snapshot was made is as it was then, and so is
\* every IR of that time that was not older than its headers.
SourcesThen == snap.yaml => \A f \in FileSet :
    src[f].mtime <= snap.created => src[f].ver = snap.at[f]
IncludesThen == snap.yaml =>
    /\ inc.mtime <= snap.created => inc = snap.inc
    /\ \A f \in FileSet : snap.inc.mtime <= ll[f].mtime /\ ll[f].mtime <= snap.created =>
          ll[f].inc = snap.inc.ver

FilesInv == FileTypes /\ Times /\ BuiltRight /\ IncludesRight /\ SourcesThen /\ IncludesThen

\* A snapshot that is made: its copies are of its time.
CopiesCurrent == snap.yaml =>
    /\ snap.inc \in Sources /\ 1 <= snap.inc.mtime
    /\ \A f \in FileSet :
          /\ snap.copies[f] = NoLl \/ f \in snap.failed \/ snap.copies[f].ver = snap.at[f]
          /\ snap.inc.mtime <= snap.copies[f].mtime => snap.copies[f].inc = snap.inc.ver
FunsHaveFiles == snap.yaml => \A fun \in snap.funs : fun.file # NoFile => fun.file \in FileSet

CopiesInv == CopiesCurrent /\ FunsHaveFiles /\ SnapshotWhole

\* A snapshot has no list of functions while it is being made, and is compared if it has it.
Phases == /\ run.kind \in {"none", "generate", "compare"}
          /\ run.modules \subseteq FileSet
          /\ Making => ~ snap.yaml
          /\ run.pc = "empty" => run.kind = "generate" /\ snap.torn
          /\ run.kind = "compare" => snap.yaml /\ run.pc # "copy"
          /\ run.kind = "none" => run = Idle

\* The modules that a run has are not built again by it, and are as new as their sources
\* if their build did not fail; the listed functions are defined in them.
ModulesBuilt == \A f \in run.modules : Outdated(f) => f \in run.failed
FunsDefined == \A fun \in run.funs : fun.file # NoFile =>
    fun.file \in run.modules /\ fun.sym \in Defines(fun.file, ll[fun.file].ver)

\* The file that is being built, or was built last, is none of these modules yet.
Building == run.pc \in {"opt", "built"} => \E f \in FileSet :
    /\ Candidate(f) /\ f \notin run.modules
    /\ run.kind = "compare" => src[f].mtime <= snap.created
    /\ Outdated(f) => f \in run.failed /\ run.pc = "built"

\* While the snapshot is made it has copies of the run's modules; each file of a listed
\* function is copied or still to be copied.
CopiesOfModules == Making => \A f \in FileSet :
    snap.copies[f] = NoLl \/ (f \in run.modules /\ snap.copies[f] = ll[f])
Copying == run.pc = "copy" =>
    /\ run.kind = "generate"
    /\ run.copy \in Seq(run.modules)
    /\ \A f \in FilesOfFuns : f \in Range(run.copy) \/ snap.copies[f] = ll[f]

\* What compare has found is of the time of the snapshot, as LinkedAsOfSnapshot says.
AsOfSnapshot(a) == a.file # NoFile /\ ~ a.bad =>
    /\ a.ir.ver = snap.at[a.file]
    /\ snap.inc.mtime <= a.ir.mtime /\ (a.ir.mtime <= snap.created \/ inc = snap.inc) =>
          a.ir.inc = snap.inc.ver

WorkInv == /\ Phases /\ ModulesBuilt /\ FunsDefined /\ Building
           /\ CopiesOfModules /\ Copying /\ LinkedAsOfSnapshot

SnapInv == FilesInv /\ CopiesInv /\ WorkInv
-----------------------------------------------------------------------------
LEMMA FilesFinite == IsFiniteSet(FileSet)
<1>1. Files \in [1 .. Len(Files) -> STRING] /\ Len(Files) \in Nat
  BY FilesAssumption
<1>2. Files \in Surjection(1 .. Len(Files), Range(Files))
  BY <1>1, Fun_RangeProperties
<1>3. IsFiniteSet(1 .. Len(Files))
  BY <1>1, FS_Interval
<1> QED
  BY <1>2, <1>3, FS_Surjection DEF FileSet

\* The files are copied each once, in some order.
LEMMA AllInSequence ==
    ASSUME NEW S, IsFiniteSet(S)
    PROVE  SetToSeq(S) \in Seq(S) /\ Range(SetToSeq(S)) = S
<1> DEFINE n == Cardinality(S)
<1>1. n \in Nat /\ ExistsBijection(1 .. n, S)
  BY FS_CardinalityType
<1>2. PICK f \in Bijection(1 .. n, S) : TRUE
  BY <1>1 DEF ExistsBijection
<1>3. f \in [1 .. n -> S] /\ IsInjective(f)
  BY <1>2 DEF Bijection, Injection
<1>4. SetToSeq(S) \in [1 .. n -> S] /\ IsInjective(SetToSeq(S))
  BY <1>3 DEF SetToSeq
<1>5. SetToSeq(S) \in Injection(1 .. n, S)
  BY <1>4 DEF Injection
<1>6. IsFiniteSet(1 .. n) /\ Cardinality(1 .. n) = n
  BY <1>1, FS_Interval
<1>7. SetToSeq(S) \in Surjection(1 .. n, S)
  BY <1>5, <1>6, FS_Injection
<1>8. Range(SetToSeq(S)) = S
  BY <1>7, Fun_SurjectionProperties
<1> QED
  BY <1>1, <1>4, <1>8

LEMMA Linked == LinkedAsOfSnapshot <=>
    (run.kind = "compare" => \A a \in run.answers : AsOfSnapshot(a))
  BY DEF LinkedAsOfSnapshot, AsOfSnapshot

LEMMA LinkedNext == LinkedAsOfSnapshot' <=>
    (run'.kind = "compare" => \A a \in run'.answers : AsOfSnapshot(a)')
  BY DEF LinkedAsOfSnapshot, AsOfSnapshot
-----------------------------------------------------------------------------
LEMMA SnapInit == Init => SnapInv
<1> SUFFICES ASSUME Init PROVE SnapInv
  OBVIOUS
<1>1. FilesInv
  BY DEF Init, FilesInv, FileTypes, Times, BuiltRight, IncludesRight, SourcesThen, IncludesThen, Irs, Sources,
     Outdated, EmptySnap, NoLl, NoDb
<1>2. CopiesInv
  BY DEF Init, CopiesInv, CopiesCurrent, FunsHaveFiles, SnapshotWhole, EmptySnap
<1>3. WorkInv
  BY DEF Init, WorkInv, Phases, Making, ModulesBuilt, FunsDefined, Building, CopiesOfModules, Copying,
     LinkedAsOfSnapshot, Idle
<1> QED
  BY <1>1, <1>2, <1>3 DEF SnapInv

LEMMA FilesSame == ASSUME FilesInv, UNCHANGED <<clock, src, inc, ll, snap>> PROVE FilesInv'
  BY DEF FilesInv, FileTypes, Times, BuiltRight, IncludesRight, SourcesThen, IncludesThen, Outdated

LEMMA CopiesSame == ASSUME CopiesInv, UNCHANGED snap PROVE CopiesInv'
  BY DEF CopiesInv, CopiesCurrent, FunsHaveFiles, SnapshotWhole

\* A run that ends, or that has not looked anything up yet.
LEMMA FreshRun ==
    ASSUME WorkInv, UNCHANGED snap,
           run'.kind = "none" => run' = Idle,
           run'.kind \in {"none", "compare"}, run'.kind = "compare" => snap.yaml,
           run'.modules = {}, run'.funs = {}, run'.answers = {},
           run'.pc \in {"idle", "rewrite"}
    PROVE  WorkInv'
<1>1. ~ Making'
  BY DEF Making
<1>2. Phases'
  BY <1>1 DEF WorkInv, Phases
<1>3. ModulesBuilt' /\ FunsDefined' /\ Building' /\ CopiesOfModules' /\ Copying' /\ LinkedAsOfSnapshot'
  BY <1>1 DEF ModulesBuilt, FunsDefined, Building, CopiesOfModules, Copying, LinkedAsOfSnapshot
<1> QED
  BY <1>2, <1>3 DEF WorkInv

\* A step that changes neither files nor snapshot and takes no definition from a file.
LEMMA QuietStep ==
    ASSUME SnapInv, UNCHANGED <<clock, src, inc, ll, snap>>,
           run.kind # "none", run'.kind = run.kind, run'.modules = run.modules, run'.failed = run.failed,
           run.pc # "empty", run'.pc \notin {"copy", "empty", "opt", "built"},
           run.pc = "finalize" => run'.pc = "finalize",
           \A fun \in run'.funs : fun \in run.funs \/ fun.file = NoFile,
           \A a \in run'.answers : a \in run.answers \/ a.file = NoFile
    PROVE  SnapInv'
<1>1. FilesInv' /\ CopiesInv'
  BY FilesSame, CopiesSame DEF SnapInv
<1> USE DEF SnapInv, WorkInv
<1>2. Making' => Making
  BY DEF Making
<1>3. Phases' /\ Copying' /\ Building'
  BY <1>2 DEF Phases, Copying, Building
<1>4. ModulesBuilt' /\ FunsDefined'
  BY DEF ModulesBuilt, FunsDefined, Outdated
<1>5. CopiesOfModules'
  BY <1>2 DEF CopiesOfModules
<1>6. LinkedAsOfSnapshot'
  BY DEF LinkedAsOfSnapshot
<1> QED
  BY <1>1, <1>3, <1>4, <1>5, <1>6
-----------------------------------------------------------------------------
\* An edited file is newer than its IR and than the snapshot.
LEMMA EditSnap == ASSUME SnapInv, NEW f \in FileSet, Edit(f) PROVE SnapInv'
<1> USE DEF SnapInv, FilesInv
<1>1. /\ src' = [src EXCEPT ![f] = [ver |-> src[f].ver + 1, mtime |-> clock + 1]]
      /\ clock' = clock + 1
      /\ run = Idle /\ UNCHANGED <<run, inc, ll, snap>>
  BY DEF Edit, MayEdit
<1>2. /\ clock \in Nat /\ src[f].ver \in Nat
      /\ src'[f] = [ver |-> src[f].ver + 1, mtime |-> clock + 1]
      /\ \A g \in FileSet : g # f => src'[g] = src[g]
  BY <1>1 DEF FileTypes, Sources, Times
<1>3. FileTypes'
  BY <1>1, <1>2 DEF FileTypes, Sources
<1>4. \A g \in FileSet : src[g].mtime \in Nat /\ ll[g].mtime \in Nat /\ inc.mtime \in Nat
  BY DEF FileTypes, Sources, Irs
<1>5. Times'
  BY <1>1, <1>2, <1>4 DEF Times
<1>6. BuiltRight'
  <2> SUFFICES ASSUME NEW g \in FileSet, ~ Outdated(g)' PROVE ll[g].ver = src'[g].ver
    BY <1>1 DEF BuiltRight
  <2>1. g # f
    BY <1>1, <1>2, <1>4 DEF Outdated, Times
  <2> QED
    BY <2>1, <1>1, <1>2 DEF BuiltRight, Outdated
<1>7. IncludesRight' /\ IncludesThen'
  BY <1>1 DEF IncludesRight, IncludesThen
<1>8. SourcesThen'
  <2> SUFFICES ASSUME snap.yaml, NEW g \in FileSet, src'[g].mtime <= snap.created
               PROVE  src'[g].ver = snap.at[g]
    BY <1>1 DEF SourcesThen
  <2>1. g # f
    BY <1>2 DEF Times
  <2> QED
    BY <2>1, <1>2 DEF SourcesThen
<1>9. WorkInv'
  BY <1>1, FreshRun DEF Idle
<1> QED
  BY <1>1, <1>3, <1>5, <1>6, <1>7, <1>8, <1>9, CopiesSame

\* Headers that are edited are newer than every IR and than the snapshot.
LEMMA EditHeadersSnap == ASSUME SnapInv, EditHeaders PROVE SnapInv'
<1> USE DEF SnapInv, FilesInv
<1>1. /\ inc' = [ver |-> inc.ver + 1, mtime |-> clock + 1]
      /\ clock' = clock + 1
      /\ run = Idle /\ UNCHANGED <<run, src, ll, snap>>
  BY DEF EditHeaders, MayEdit
<1>2. /\ clock \in Nat /\ inc.ver \in Nat /\ snap.created \in Nat
      /\ \A g \in FileSet : src[g].mtime \in Nat /\ ll[g].mtime \in Nat
  BY DEF FileTypes, Sources, Irs, Times
<1>3. FileTypes'
  BY <1>1, <1>2 DEF FileTypes, Sources
<1>4. Times'
  BY <1>1, <1>2 DEF Times
<1>5. BuiltRight' /\ SourcesThen'
  BY <1>1 DEF BuiltRight, Outdated, SourcesThen
<1>6. IncludesRight' /\ IncludesThen'
  BY <1>1, <1>2 DEF IncludesRight, IncludesThen, Times
<1>7. WorkInv'
  BY <1>1, FreshRun DEF Idle
<1> QED
  BY <1>1, <1>3, <1>4, <1>5, <1>6, <1>7, CopiesSame

-----------------------------------------------------------------------------
\* generate begins to empty the directory of the snapshot.
LEMMA GenerateSnap == ASSUME SnapInv, NEW list \in Lists, Generate(list) PROVE SnapInv'
<1> USE DEF SnapInv
<1>1. /\ snap' = [snap EXCEPT !.torn = TRUE] /\ UNCHANGED <<clock, src, inc, ll>>
      /\ run'.kind = "generate" /\ run'.pc = "empty"
      /\ run'.modules = {} /\ run'.funs = {} /\ run'.answers = {}
  BY DEF Generate, Begin, Idle
<1>2. /\ DOMAIN snap' = DOMAIN snap /\ snap'.torn
      /\ snap'.copies = snap.copies /\ snap'.yaml = snap.yaml /\ snap'.funs = snap.funs
      /\ snap'.created = snap.created /\ snap'.at = snap.at /\ snap'.inc = snap.inc
      /\ snap'.failed = snap.failed
  BY <1>1 DEF FilesInv, FileTypes, EmptySnap
<1>3. FilesInv'
  BY <1>1, <1>2 DEF FilesInv, FileTypes, Times, BuiltRight, IncludesRight, SourcesThen, IncludesThen, Outdated
<1>4. CopiesInv'
  BY <1>2 DEF CopiesInv, CopiesCurrent, FunsHaveFiles, SnapshotWhole
<1>5. WorkInv'
  BY <1>1, <1>2 DEF WorkInv, Phases, Making, ModulesBuilt, FunsDefined, Building, CopiesOfModules, Copying,
     LinkedAsOfSnapshot
<1> QED
  BY <1>3, <1>4, <1>5

\* A piece of it less: the list of functions, or the IR of a file.
LEMMA PieceSnap == ASSUME SnapInv, RemovePiece PROVE SnapInv'
<1> USE DEF SnapInv
<1>1. /\ run.pc = "empty" /\ UNCHANGED <<clock, src, inc, ll, run>>
  BY DEF RemovePiece
<1>2. /\ run.kind = "generate" /\ snap.torn
  BY <1>1 DEF WorkInv, Phases
<1> DEFINE Less == /\ DOMAIN snap' = DOMAIN snap /\ snap'.torn
                   /\ snap'.funs = snap.funs /\ snap'.created = snap.created /\ snap'.at = snap.at
                   /\ snap'.inc = snap.inc /\ snap'.failed = snap.failed
                   /\ snap'.yaml \in BOOLEAN /\ (snap'.yaml => snap.yaml)
                   /\ snap'.copies \in [FileSet -> Irs]
                   /\ \A f \in FileSet : snap'.copies[f] \in {snap.copies[f], NoLl}
<1>3. Less
  <2>1. NoLl \in Irs
    BY DEF NoLl, Irs
  <2>2. CASE snap.yaml /\ snap' = [snap EXCEPT !.yaml = FALSE]
    BY <1>2, <2>2 DEF FilesInv, FileTypes, EmptySnap
  <2>3. ASSUME NEW f \in FileSet, snap' = [snap EXCEPT !.copies[f] = NoLl]
        PROVE  Less
    <3>1. /\ snap'.copies = [snap.copies EXCEPT ![f] = NoLl] /\ snap'.yaml = snap.yaml
          /\ DOMAIN snap' = DOMAIN snap /\ snap'.torn = snap.torn
          /\ snap'.funs = snap.funs /\ snap'.created = snap.created /\ snap'.at = snap.at
          /\ snap'.inc = snap.inc /\ snap'.failed = snap.failed
      BY <2>3 DEF FilesInv, FileTypes, EmptySnap
    <3> QED
      BY <1>2, <2>1, <3>1 DEF FilesInv, FileTypes
  <2> QED
    BY <2>2, <2>3 DEF RemovePiece
<1>4. FilesInv'
  BY <1>1, <1>3 DEF FilesInv, FileTypes, Times, BuiltRight, IncludesRight, SourcesThen, IncludesThen, Outdated
<1>5. CopiesCurrent' /\ FunsHaveFiles'
  BY <1>3 DEF CopiesInv, CopiesCurrent, FunsHaveFiles, NoLl, Sources
<1>6. SnapshotWhole'
  <2> SUFFICES ASSUME snap.yaml, NEW fun \in snap.funs, fun.file # NoFile
               PROVE  \/ fun.sym \in Defines(fun.file, snap'.copies[fun.file].ver)
                      \/ snap'.copies[fun.file] = NoLl
    BY <1>3 DEF SnapshotWhole
  <2>1. fun.file \in FileSet
    BY DEF CopiesInv, FunsHaveFiles
  <2> QED
    BY <1>3, <2>1 DEF CopiesInv, SnapshotWhole
<1>7. WorkInv'
  BY <1>1, <1>2, <1>3 DEF WorkInv, Phases, Making, ModulesBuilt, FunsDefined, Outdated, Building,
     CopiesOfModules, Copying, LinkedAsOfSnapshot
<1> QED
  BY <1>4, <1>5, <1>6, <1>7 DEF CopiesInv

LEMMA EmptiedSnap == ASSUME RunInv, SnapInv, Emptied PROVE SnapInv'
<1> USE DEF SnapInv
<1>1. /\ snap' = EmptySnap /\ run.pc = "empty" /\ UNCHANGED <<clock, src, inc, ll>>
  BY DEF Emptied
<1>2. /\ run'.kind = run.kind /\ run'.pc = "rewrite" /\ run'.modules = run.modules
      /\ run'.funs = run.funs /\ run'.answers = run.answers /\ run'.failed = run.failed
  BY DEF Emptied, RunInv, Idle
<1>3. run.kind = "generate"
  BY <1>1 DEF WorkInv, Phases
<1>4. FilesInv'
  BY <1>1 DEF FilesInv, FileTypes, Times, BuiltRight, IncludesRight, SourcesThen, IncludesThen, Outdated,
     EmptySnap, NoDb, NoLl, Irs
<1>5. CopiesInv'
  BY <1>1 DEF CopiesInv, CopiesCurrent, FunsHaveFiles, SnapshotWhole, EmptySnap
<1>6. WorkInv'
  BY <1>1, <1>2, <1>3 DEF WorkInv, Phases, Making, ModulesBuilt, FunsDefined, Outdated, Building,
     CopiesOfModules, Copying, LinkedAsOfSnapshot, EmptySnap
<1> QED
  BY <1>4, <1>5, <1>6

-----------------------------------------------------------------------------
\* A definition from the snapshot: the snapshot does not change.
LEMMA FoundSnap == ASSUME RunInv, SnapInv, FoundInSnapshot PROVE SnapInv'
<1> USE DEF SnapInv
<1>1. PICK f \in FileSet :
        /\ Head(run.todo) \in Defines(f, snap.copies[f].ver)
        /\ run' = [run EXCEPT !.todo = Tail(@), !.answers = @ \cup
                     {Answer(Head(run.todo), f, snap.copies[f], f \in snap.failed)}]
  BY DEF FoundInSnapshot, InSnapshot
<1>2. /\ run.kind = "compare" /\ run.pc = "work" /\ snap.yaml
      /\ UNCHANGED <<clock, src, inc, ll, snap>>
  BY DEF FoundInSnapshot, disk, WorkInv, Phases
<1>3. DOMAIN run = DOMAIN Idle
  BY DEF RunInv
<1>4. /\ run'.kind = "compare" /\ run'.pc = "work" /\ run'.modules = run.modules /\ run'.funs = run.funs
      /\ run'.failed = run.failed
      /\ run'.answers = run.answers \cup {Answer(Head(run.todo), f, snap.copies[f], f \in snap.failed)}
  BY <1>1, <1>2, <1>3 DEF Idle
<1>5. FilesInv' /\ CopiesInv'
  BY <1>2, FilesSame, CopiesSame
<1>6. /\ Phases' /\ ModulesBuilt' /\ FunsDefined' /\ Building' /\ CopiesOfModules' /\ Copying'
  BY <1>2, <1>4 DEF WorkInv, Phases, ModulesBuilt, FunsDefined, Outdated, Building, CopiesOfModules, Copying, Making
<1>7. snap.copies[f] # NoLl
  BY <1>1, DefinesAssumption DEF NoLl, FileSet
<1>8. LinkedAsOfSnapshot'
  <2> SUFFICES ASSUME NEW a \in run'.answers PROVE AsOfSnapshot(a)'
    BY <1>4, LinkedNext
  <2>1. CASE a \in run.answers
    BY <1>2, <2>1, Linked DEF WorkInv, AsOfSnapshot
  <2>2. CASE a = Answer(Head(run.todo), f, snap.copies[f], f \in snap.failed)
    BY <1>2, <1>7, <2>2 DEF Answer, CopiesInv, CopiesCurrent, AsOfSnapshot
  <2> QED
    BY <1>4, <2>1, <2>2
<1> QED
  BY <1>5, <1>6, <1>8 DEF WorkInv

-----------------------------------------------------------------------------
\* What make, clang and opt may do to the IR of a file without compiling it: nothing, leave it
\* in another form, or remove it.
LEMMA SameOrGone ==
    ASSUME SnapInv, NEW f \in FileSet, NEW ir, UNCHANGED <<clock, src, inc, snap>>,
           \/ ir \in {ll[f], NoLl}
           \/ ll[f] # NoLl /\ ir \in {[ll[f] EXCEPT !.form = "part"], [ll[f] EXCEPT !.form = "opt"]},
           ll' = [ll EXCEPT ![f] = ir]
    PROVE  /\ FilesInv'
           /\ \A g \in FileSet : g # f => ll'[g] = ll[g] /\ (Outdated(g)' <=> Outdated(g))
           /\ Outdated(f) => Outdated(f)'
           /\ ir # NoLl => (Outdated(f)' <=> Outdated(f))
<1> USE DEF SnapInv, FilesInv
<1>1. ll[f] \in Irs /\ NoLl \in Irs
  BY DEF FileTypes, NoLl, Irs
<1>2. ir \in Irs /\ (ir = NoLl \/ (ll[f] # NoLl /\ ir.ver = ll[f].ver /\ ir.inc = ll[f].inc /\ ir.mtime = ll[f].mtime))
  BY <1>1 DEF Irs
<1>3. /\ ll' \in [FileSet -> Irs] /\ ll'[f] = ir
      /\ \A g \in FileSet : g # f => ll'[g] = ll[g]
  BY <1>2 DEF FileTypes
<1>4. NoLl.mtime = 0
  BY DEF NoLl
<1>5. \A g \in FileSet : g # f => ll'[g] = ll[g] /\ (Outdated(g)' <=> Outdated(g))
  BY <1>3 DEF Outdated
<1>6. ir # NoLl => (Outdated(f)' <=> Outdated(f))
  BY <1>2, <1>3 DEF Outdated
<1>7. ir = NoLl => Outdated(f)'
  BY <1>3 DEF Outdated
<1>8. FileTypes' /\ SourcesThen'
  BY <1>3 DEF FileTypes, SourcesThen
<1>9. \A g \in FileSet : src[g].mtime \in Nat /\ ll[g].mtime \in Nat /\ inc.mtime \in Nat
  BY DEF FileTypes, Sources, Irs
<1>10. Times'
  BY <1>2, <1>3, <1>4, <1>9 DEF Times
<1>11. BuiltRight'
  BY <1>2, <1>3, <1>5, <1>6, <1>7 DEF BuiltRight
<1>12. IncludesRight'
  BY <1>2, <1>3, <1>4, <1>9 DEF IncludesRight, Times
<1>13. IncludesThen'
  BY <1>2, <1>3, <1>4 DEF IncludesThen, CopiesInv, CopiesCurrent, Sources
<1> QED
  BY <1>5, <1>6, <1>7, <1>8, <1>10, <1>11, <1>12, <1>13

\* What clang writes is of now, and newer than everything else.
LEMMA Compiled ==
    ASSUME SnapInv, NEW f \in FileSet, UNCHANGED <<src, inc, snap>>, clock' = clock + 1,
           ll' = [ll EXCEPT ![f] = [ver |-> src[f].ver, inc |-> inc.ver, form |-> "clang", mtime |-> clock + 1]]
    PROVE  /\ FilesInv'
           /\ \A g \in FileSet : g # f => ll'[g] = ll[g] /\ (Outdated(g)' <=> Outdated(g))
           /\ ~ Outdated(f)'
<1> USE DEF SnapInv, FilesInv
<1>1. /\ clock \in Nat /\ inc \in Sources /\ src[f] \in Sources
      /\ \A g \in FileSet : src[g].mtime \in Nat /\ ll[g].mtime \in Nat
  BY DEF FileTypes, Times, Sources, Irs
<1>2. [ver |-> src[f].ver, inc |-> inc.ver, form |-> "clang", mtime |-> clock + 1] \in Irs
  BY <1>1 DEF Irs, Sources
<1>3. /\ ll' \in [FileSet -> Irs]
      /\ ll'[f] = [ver |-> src[f].ver, inc |-> inc.ver, form |-> "clang", mtime |-> clock + 1]
      /\ \A g \in FileSet : g # f => ll'[g] = ll[g]
  BY <1>2 DEF FileTypes
<1>4. ll'[f].mtime = clock + 1 /\ ll'[f].ver = src[f].ver /\ ll'[f].inc = inc.ver /\ ll'[f] # NoLl
  BY <1>1, <1>3 DEF NoLl
<1>5. \A g \in FileSet : g # f => ll'[g] = ll[g] /\ (Outdated(g)' <=> Outdated(g))
  BY <1>3 DEF Outdated
<1>6. ~ Outdated(f)'
  BY <1>1, <1>4 DEF Outdated, Times
<1>7. FileTypes' /\ SourcesThen'
  BY <1>3 DEF FileTypes, SourcesThen
<1>8. Times'
  BY <1>1, <1>3, <1>4 DEF Times, Sources
<1>9. BuiltRight' /\ IncludesRight'
  BY <1>3, <1>4, <1>5 DEF BuiltRight, IncludesRight
<1>10. IncludesThen'
  BY <1>1, <1>3, <1>4 DEF IncludesThen, Times
<1> QED
  BY <1>5, <1>6, <1>7, <1>8, <1>9, <1>10

\* While a file is built that is none of the run's modules, these keep their IR.
LEMMA BuildStep ==
    ASSUME SnapInv, FilesInv', UNCHANGED <<src, inc, snap>>, NEW f \in FileSet, f \notin run.modules,
           Candidate(f), run'.cands = run.cands,
           run.kind # "none", run.pc \in {"search", "opt"}, run'.pc \in {"opt", "built"},
           run'.kind = run.kind, run'.modules = run.modules, run'.funs = run.funs,
           run'.answers = run.answers, run'.failed \in {run.failed \cup {f}, run.failed \ {f}, run.failed},
           \A g \in FileSet : g # f => ll'[g] = ll[g] /\ (Outdated(g)' <=> Outdated(g)),
           run.kind = "compare" => src[f].mtime <= snap.created,
           Outdated(f)' => f \in run'.failed /\ run'.pc = "built"
    PROVE  SnapInv'
<1> USE DEF SnapInv, WorkInv
<1>1. CopiesInv'
  BY CopiesSame
<1>2. Phases' /\ Copying'
  BY DEF Phases, Making, Copying
<1>3. \A g \in run.modules : g \in FileSet /\ g # f
  BY DEF Phases
<1>4. ModulesBuilt'
  BY <1>3 DEF ModulesBuilt
<1>5. FunsDefined'
  BY <1>3 DEF FunsDefined
<1>6. Building'
  BY DEF Building, Candidate
<1>7. CopiesOfModules'
  BY <1>3 DEF CopiesOfModules, Making
<1>8. LinkedAsOfSnapshot'
  BY DEF LinkedAsOfSnapshot
<1> QED
  BY <1>1, <1>2, <1>4, <1>5, <1>6, <1>7, <1>8

LEMMA CompileSnap == ASSUME RunInv, SnapInv, Compile PROVE SnapInv'
<1>1. PICK f \in FileSet :
        /\ Candidate(f) /\ ~ TooNew(f) /\ f \notin run.modules /\ Outdated(f)
        /\ \/ /\ clock' = clock + 1
              /\ ll' = [ll EXCEPT ![f] = [ver |-> src[f].ver, inc |-> inc.ver,
                                          form |-> "clang", mtime |-> clock + 1]]
              /\ run' = [run EXCEPT !.pc = "opt", !.failed = @ \ {f}]
           \/ /\ \E ir \in {ll[f], NoLl} : ll' = [ll EXCEPT ![f] = ir]
              /\ run' = [run EXCEPT !.pc = "built", !.failed = @ \cup {f}]
              /\ UNCHANGED clock
  BY DEF Compile
<1>2. run.pc = "search" /\ UNCHANGED <<src, inc, snap>>
  BY DEF Compile
<1>3. run.kind # "none"
  BY <1>2 DEF SnapInv, WorkInv, Phases, Idle
<1>4. run.kind = "compare" => src[f].mtime <= snap.created
  BY <1>1 DEF TooNew, SnapInv, FilesInv, FileTypes, Times, Sources
<1>5. CASE /\ clock' = clock + 1
           /\ ll' = [ll EXCEPT ![f] = [ver |-> src[f].ver, inc |-> inc.ver,
                                       form |-> "clang", mtime |-> clock + 1]]
           /\ run' = [run EXCEPT !.pc = "opt", !.failed = @ \ {f}]
  <2>1. /\ run'.pc = "opt" /\ run'.failed = run.failed \ {f} /\ run'.cands = run.cands
        /\ run'.kind = run.kind /\ run'.modules = run.modules /\ run'.funs = run.funs
        /\ run'.answers = run.answers
    BY <1>5 DEF RunInv, Idle
  <2> QED
    BY <1>1, <1>2, <1>3, <1>4, <1>5, <2>1, Compiled, BuildStep
<1>6. ASSUME NEW ir \in {ll[f], NoLl}, ll' = [ll EXCEPT ![f] = ir], UNCHANGED clock,
             run' = [run EXCEPT !.pc = "built", !.failed = @ \cup {f}]
      PROVE  SnapInv'
  <2>1. /\ run'.pc = "built" /\ run'.failed = run.failed \cup {f} /\ run'.cands = run.cands
        /\ run'.kind = run.kind /\ run'.modules = run.modules /\ run'.funs = run.funs
        /\ run'.answers = run.answers
    BY <1>6 DEF RunInv, Idle
  <2>2. /\ FilesInv'
        /\ \A g \in FileSet : g # f => ll'[g] = ll[g] /\ (Outdated(g)' <=> Outdated(g))
    BY <1>2, <1>6, SameOrGone
  <2> QED
    BY <1>1, <1>2, <1>3, <1>4, <2>1, <2>2, BuildStep
<1> QED
  BY <1>1, <1>5, <1>6

\* opt_llvm, if it comes to its end, fails or is cut off: f is the file that was compiled.
LEMMA OptFacts ==
    ASSUME RunInv, SnapInv, run.pc = "opt", NEW f \in FileSet, Candidate(f),
           UNCHANGED <<clock, src, inc, snap>>,
           ll' \in Interrupted \/ ll' = [ll EXCEPT ![f].form = "opt"]
    PROVE  /\ FilesInv'
           /\ \A g \in FileSet : g # f => ll'[g] = ll[g] /\ (Outdated(g)' <=> Outdated(g))
           /\ ll' = [ll EXCEPT ![f].form = "opt"] => ~ Outdated(f)'
<1>0. run.pc = "opt"
  OBVIOUS
<1>1. ~ Outdated(f) /\ ll[f] # NoLl
  BY DEF SnapInv, WorkInv, Building, Candidate, Outdated
<1>2. f = Head(run.cands)
  BY DEF Candidate
<1>3. [ll EXCEPT ![f].form = "opt"] = [ll EXCEPT ![f] = [ll[f] EXCEPT !.form = "opt"]]
  BY DEF SnapInv, FilesInv, FileTypes
<1>4. PICK ir \in {ll[f], NoLl, [ll[f] EXCEPT !.form = "part"], [ll[f] EXCEPT !.form = "opt"]} :
        /\ ll' = [ll EXCEPT ![f] = ir]
        /\ ll' = [ll EXCEPT ![f].form = "opt"] => ir = [ll[f] EXCEPT !.form = "opt"]
  <2>1. CASE ll' = [ll EXCEPT ![f].form = "opt"]
    BY <1>3, <2>1
  <2>2. CASE ll' # [ll EXCEPT ![f].form = "opt"]
    BY <1>2, <2>2, <1>0 DEF Interrupted
  <2> QED
    BY <2>1, <2>2
<1>5. ll[f] \in Irs
  BY DEF SnapInv, FilesInv, FileTypes
<1>6. [ll[f] EXCEPT !.form = "opt"] # NoLl
  BY <1>5 DEF Irs, NoLl
<1> QED
  BY <1>1, <1>4, <1>6, SameOrGone

LEMMA OptimiseSnap == ASSUME RunInv, SnapInv, Optimise PROVE SnapInv'
<1>1. PICK f \in FileSet :
        /\ Candidate(f)
        /\ \/ /\ ll' = [ll EXCEPT ![f].form = "opt"]
              /\ run' = [run EXCEPT !.pc = "built"]
           \/ /\ ll' \in Interrupted
              /\ run' = [run EXCEPT !.pc = "built", !.failed = @ \cup {f}]
  BY DEF Optimise
<1>2. run.pc = "opt" /\ UNCHANGED <<clock, src, inc, snap>>
  BY DEF Optimise
<1>3. run.kind # "none"
  BY <1>2 DEF SnapInv, WorkInv, Phases, Idle
<1>4. f \notin run.modules /\ (run.kind = "compare" => src[f].mtime <= snap.created)
  BY <1>1, <1>2 DEF SnapInv, WorkInv, Building, Candidate
<1>5. /\ FilesInv'
      /\ \A g \in FileSet : g # f => ll'[g] = ll[g] /\ (Outdated(g)' <=> Outdated(g))
      /\ ll' = [ll EXCEPT ![f].form = "opt"] => ~ Outdated(f)'
  BY <1>1, <1>2, OptFacts
<1>6. /\ run'.pc = "built" /\ run'.cands = run.cands
      /\ run'.kind = run.kind /\ run'.modules = run.modules /\ run'.funs = run.funs
      /\ run'.answers = run.answers
      /\ \/ run'.failed = run.failed /\ ll' = [ll EXCEPT ![f].form = "opt"]
         \/ run'.failed = run.failed \cup {f}
  BY <1>1 DEF RunInv, Idle
<1>7. Outdated(f)' => f \in run'.failed /\ run'.pc = "built"
  BY <1>5, <1>6
<1>8. run'.failed \in {run.failed \cup {f}, run.failed \ {f}, run.failed}
  BY <1>6
<1> QED
  BY <1>1, <1>2, <1>3, <1>4, <1>5, <1>6, <1>7, <1>8, BuildStep

LEMMA EndSnap == ASSUME RunInv, SnapInv, Finished \/ CutOff PROVE SnapInv'
<1>1. run' = Idle /\ UNCHANGED <<clock, src, inc, snap>>
  BY DEF Finished, CutOff, disk
<1>2. WorkInv'
  BY <1>1, FreshRun DEF SnapInv, Idle
<1>3. CopiesInv'
  BY <1>1, CopiesSame DEF SnapInv
<1>4. FilesInv'
  <2>1. CASE UNCHANGED ll
    BY <1>1, <2>1, FilesSame DEF SnapInv
  <2>2. CASE ~ UNCHANGED ll
    <3>1. run.pc = "opt" /\ ll' \in Interrupted
      BY <2>2 DEF Finished, disk, CutOff, Interrupted
    <3>2. PICK f \in FileSet : Candidate(f)
      BY <3>1 DEF SnapInv, WorkInv, Building
    <3> QED
      BY <1>1, <3>1, <3>2, OptFacts
  <2> QED
    BY <2>1, <2>2
<1> QED
  BY <1>2, <1>3, <1>4 DEF SnapInv

-----------------------------------------------------------------------------
\* The module of a candidate is taken, and the file is told if it has the symbol.
LEMMA LookSnap == ASSUME RunInv, SnapInv, LookInto PROVE SnapInv'
<1> USE DEF SnapInv
<1>1. PICK f \in FileSet :
        /\ Candidate(f)
        /\ \/ run.pc = "built"
           \/ run.pc = "search" /\ ~ TooNew(f) /\ (f \in run.modules \/ ~ Outdated(f))
        /\ LET s == Head(run.todo)
           IN \/ /\ s \in Defines(f, ll[f].ver)
                 /\ Tell(Answer(s, f, ll[f], f \in run.failed))
              \/ /\ s \notin Defines(f, ll[f].ver) \/ ll[f].form = "part"
                 /\ run' = [run EXCEPT !.pc = "search", !.cands = Tail(@),
                                       !.modules = IF ll[f] = NoLl THEN @ ELSE @ \cup {f}]
  BY DEF LookInto
<1> DEFINE s == Head(run.todo)
           a == Answer(s, f, ll[f], f \in run.failed)
<1>2. UNCHANGED <<clock, src, inc, ll, snap>>
  BY DEF LookInto, disk
<1>3. run.pc \in {"built", "search"} /\ run.kind # "none"
  BY <1>1 DEF WorkInv, Phases, Idle
<1>4. /\ Outdated(f) => f \in run.failed
      /\ run.kind = "compare" => src[f].mtime <= snap.created
  <2>1. CASE run.pc = "built"
    BY <1>1, <2>1 DEF WorkInv, Building, Candidate
  <2>2. CASE run.pc = "search"
    <3>1. ~ TooNew(f) /\ (f \in run.modules \/ ~ Outdated(f))
      BY <1>1, <2>2
    <3> QED
      BY <3>1 DEF TooNew, WorkInv, ModulesBuilt, FilesInv, FileTypes, Times, Sources
  <2> QED
    BY <1>3, <2>1, <2>2
<1>5. /\ a.file = f /\ a.sym = s /\ a.ir = ll[f] /\ (a.bad <=> f \in run.failed)
  BY DEF Answer
<1>6. \/ /\ s \in Defines(f, ll[f].ver)
         /\ run'.kind = run.kind /\ run'.pc = "work" /\ run'.failed = run.failed
         /\ run'.modules = IF f = NoFile THEN run.modules ELSE run.modules \cup {f}
         /\ run'.funs \in {run.funs, run.funs \cup {[sym |-> s, file |-> f]}}
         /\ run'.answers = run.answers \cup {a}
      \/ /\ run'.kind = run.kind /\ run'.pc = "search" /\ run'.failed = run.failed
         /\ run'.modules \in {run.modules, run.modules \cup {f}}
         /\ run'.funs = run.funs /\ run'.answers = run.answers
  <2>1. DOMAIN run = DOMAIN Idle
    BY DEF RunInv
  <2> HIDE DEF a
  <2>2. CASE s \in Defines(f, ll[f].ver) /\ Tell(a)
    BY <1>5, <2>1, <2>2 DEF Tell, Idle
  <2>3. CASE run' = [run EXCEPT !.pc = "search", !.cands = Tail(@),
                               !.modules = IF ll[f] = NoLl THEN @ ELSE @ \cup {f}]
    BY <2>1, <2>3 DEF Idle
  <2> QED
    BY <1>1, <2>2, <2>3 DEF a
<1> HIDE DEF a, s
<1>7. /\ run'.kind = run.kind /\ run'.pc \in {"work", "search"} /\ run'.failed = run.failed
      /\ run'.modules \subseteq run.modules \cup {f} /\ run.modules \subseteq run'.modules
  BY <1>6
<1>8. FilesInv' /\ CopiesInv'
  BY <1>2, FilesSame, CopiesSame
<1>9. Phases' /\ Copying' /\ Building'
  BY <1>2, <1>3, <1>7 DEF WorkInv, Phases, Making, Copying, Building
<1>10. ModulesBuilt'
  BY <1>2, <1>4, <1>7 DEF WorkInv, ModulesBuilt, Outdated
<1>11. FunsDefined'
  <2> SUFFICES ASSUME NEW fun \in run'.funs, fun.file # NoFile
               PROVE  fun.file \in run'.modules /\ fun.sym \in Defines(fun.file, ll[fun.file].ver)
    BY <1>2 DEF FunsDefined
  <2>1. CASE fun \in run.funs
    BY <1>7, <2>1 DEF WorkInv, FunsDefined
  <2>2. CASE fun \notin run.funs
    BY <1>6, <2>2
  <2> QED
    BY <2>1, <2>2
<1>12. CopiesOfModules'
  BY <1>2, <1>3, <1>7 DEF WorkInv, CopiesOfModules, Making
<1>13. LinkedAsOfSnapshot'
  <2> SUFFICES ASSUME run.kind = "compare", NEW b \in run'.answers PROVE AsOfSnapshot(b)'
    BY <1>7, LinkedNext
  <2>1. CASE b \in run.answers
    BY <1>2, <2>1, Linked DEF WorkInv, AsOfSnapshot
  <2>2. CASE b = a
    <3>1. snap.yaml
      BY DEF WorkInv, Phases
    <3>2. f \notin run.failed => ll[f].ver = snap.at[f]
      BY <1>4, <3>1 DEF FilesInv, BuiltRight, SourcesThen
    <3>3. snap.inc.mtime <= ll[f].mtime /\ (ll[f].mtime <= snap.created \/ inc = snap.inc) =>
            ll[f].inc = snap.inc.ver
      BY <3>1 DEF FilesInv, IncludesThen, IncludesRight
    <3> QED
      BY <1>2, <1>5, <2>2, <3>2, <3>3 DEF AsOfSnapshot
  <2> QED
    BY <1>6, <2>1, <2>2
<1> QED
  BY <1>8, <1>9, <1>10, <1>11, <1>12, <1>13 DEF WorkInv
-----------------------------------------------------------------------------
\* All symbols are looked up: the files of the listed functions are to be copied.
LEMMA LookedUpSnap == ASSUME RunInv, SnapInv, AllLookedUp PROVE SnapInv'
<1> USE DEF SnapInv
<1>1. /\ run.kind = "generate" /\ run.pc = "work"
      /\ UNCHANGED <<clock, src, inc, ll, snap>>
  BY DEF AllLookedUp, disk
<1>2. /\ run'.kind = run.kind /\ run'.pc = "copy" /\ run'.copy = SetToSeq(FilesOfFuns)
      /\ run'.modules = run.modules /\ run'.funs = run.funs /\ run'.answers = run.answers
      /\ run'.failed = run.failed
  BY DEF AllLookedUp, RunInv, Idle
<1>3. FilesOfFuns \subseteq run.modules /\ run.modules \subseteq FileSet
  BY DEF FilesOfFuns, WorkInv, FunsDefined, Phases
<1>4. SetToSeq(FilesOfFuns) \in Seq(FilesOfFuns) /\ Range(SetToSeq(FilesOfFuns)) = FilesOfFuns
  BY <1>3, FilesFinite, FS_Subset, AllInSequence
<1>5. SetToSeq(FilesOfFuns) \in Seq(run.modules)
  BY <1>3, <1>4
<1>6. Copying'
  BY <1>1, <1>2, <1>4, <1>5 DEF Copying, FilesOfFuns
<1>7. FilesInv' /\ CopiesInv'
  BY <1>1, FilesSame, CopiesSame
<1>8. Phases' /\ CopiesOfModules' /\ ModulesBuilt' /\ FunsDefined' /\ Building' /\ LinkedAsOfSnapshot'
  BY <1>1, <1>2 DEF WorkInv, Phases, Making, CopiesOfModules, ModulesBuilt, FunsDefined, Outdated, Building,
     LinkedAsOfSnapshot
<1> QED
  BY <1>6, <1>7, <1>8 DEF WorkInv

LEMMA CopySnap == ASSUME RunInv, SnapInv, CopyModule PROVE SnapInv'
<1> USE DEF SnapInv
<1>1. PICK f : /\ f = Head(run.copy)
               /\ snap' = [snap EXCEPT !.copies[f] = ll[f]]
  BY DEF CopyModule
<1>2. /\ run.pc = "copy" /\ run.copy # <<>> /\ run.kind = "generate"
      /\ UNCHANGED <<clock, src, inc, ll>>
  BY DEF CopyModule, WorkInv, Copying
<1>3. /\ run'.kind = run.kind /\ run'.pc = run.pc /\ run'.copy = Tail(run.copy)
      /\ run'.modules = run.modules /\ run'.funs = run.funs /\ run'.answers = run.answers
      /\ run'.failed = run.failed
  BY DEF CopyModule, RunInv, Idle
<1>4. /\ f \in run.modules /\ f \in FileSet /\ Tail(run.copy) \in Seq(run.modules)
      /\ \A g \in Range(run.copy) : g = f \/ g \in Range(Tail(run.copy))
  <2>1. run.copy \in Seq(run.modules) /\ run.copy # <<>>
    BY <1>2 DEF WorkInv, Copying
  <2>2. f \in run.modules
    BY <1>1, <2>1
  <2> QED
    BY <1>1, <2>1, <2>2, RestInTail DEF WorkInv, Phases
<1>5. ~ snap.yaml
  BY <1>2 DEF WorkInv, Phases, Making
<1>6. /\ DOMAIN snap' = DOMAIN snap /\ snap'.yaml = FALSE /\ snap'.created = snap.created
      /\ snap'.copies = [snap.copies EXCEPT ![f] = ll[f]] /\ snap'.at = snap.at
      /\ snap'.torn = snap.torn
  BY <1>1, <1>5 DEF FilesInv, FileTypes, EmptySnap
<1>7. /\ snap'.copies \in [FileSet -> Irs]
      /\ snap'.copies[f] = ll[f]
      /\ \A g \in FileSet : g # f => snap'.copies[g] = snap.copies[g]
  BY <1>4, <1>6 DEF FilesInv, FileTypes
<1>8. FilesInv'
  BY <1>2, <1>6, <1>7 DEF FilesInv, FileTypes, Times, BuiltRight, IncludesRight, SourcesThen, IncludesThen, Outdated
<1>9. CopiesInv'
  BY <1>6 DEF CopiesInv, CopiesCurrent, FunsHaveFiles, SnapshotWhole
<1>10. Phases' /\ ModulesBuilt' /\ FunsDefined' /\ Building' /\ LinkedAsOfSnapshot'
  BY <1>2, <1>3, <1>6 DEF WorkInv, Phases, Making, ModulesBuilt, FunsDefined, Outdated, Building,
     LinkedAsOfSnapshot
<1>11. CopiesOfModules'
  BY <1>2, <1>3, <1>4, <1>7 DEF WorkInv, CopiesOfModules, Making
<1>12. Copying'
  <2> SUFFICES ASSUME NEW g \in FilesOfFuns
               PROVE  g \in Range(Tail(run.copy)) \/ snap'.copies[g] = ll[g]
    BY <1>2, <1>3, <1>4 DEF Copying, FilesOfFuns
  <2>1. g \in FileSet
    BY DEF FilesOfFuns, WorkInv, FunsDefined, Phases
  <2> QED
    BY <2>1, <1>2, <1>4, <1>7 DEF WorkInv, Copying
<1> QED
  BY <1>8, <1>9, <1>10, <1>11, <1>12 DEF WorkInv

\* The list of functions is written when every file of a listed function is copied.
LEMMA YamlSnap == ASSUME RunInv, SnapInv, WriteYaml PROVE SnapInv'
<1> USE DEF SnapInv
<1>1. /\ run.pc = "copy" /\ run.copy = <<>> /\ run.kind = "generate"
      /\ clock' = clock + 1 /\ UNCHANGED <<src, inc, ll>>
  BY DEF WriteYaml, WriteFuns, WorkInv, Copying
<1>2. /\ snap'.yaml = TRUE /\ snap'.funs = run.funs /\ snap'.created = clock + 1
      /\ snap'.at = [f \in FileSet |-> src[f].ver] /\ snap'.inc = inc /\ snap'.failed = run.failed
      /\ snap'.copies = snap.copies /\ snap'.torn = snap.torn /\ DOMAIN snap' = DOMAIN snap
  BY DEF WriteYaml, WriteFuns, FilesInv, FileTypes, EmptySnap
<1>3. /\ run'.kind = run.kind /\ run'.pc = "finalize" /\ run'.failed = run.failed
      /\ run'.modules = run.modules /\ run'.funs = run.funs /\ run'.answers = run.answers
  BY <1>1 DEF WriteYaml, WriteFuns, RunInv, Idle
<1>4. \A f \in FilesOfFuns : snap.copies[f] = ll[f]
  BY <1>1, EmptyRange DEF WorkInv, Copying
<1>5. \A fun \in run.funs : fun.file # NoFile =>
        /\ fun.file \in FileSet /\ fun.file \in FilesOfFuns
        /\ fun.sym \in Defines(fun.file, ll[fun.file].ver)
  BY DEF WorkInv, FunsDefined, FilesOfFuns, Phases
<1>6. \A f \in FileSet : snap.copies[f] = NoLl \/ (f \in run.modules /\ snap.copies[f] = ll[f])
  BY <1>1 DEF WorkInv, CopiesOfModules, Making
<1>7. FilesInv'
  <2>1. FileTypes' /\ BuiltRight' /\ IncludesRight' /\ SourcesThen'
    BY <1>1, <1>2 DEF FilesInv, FileTypes, BuiltRight, IncludesRight, SourcesThen, Outdated
  <2>2. Times'
    <3>1. /\ clock \in Nat /\ inc.mtime \in Nat
          /\ \A f \in FileSet : src[f].mtime \in Nat /\ ll[f].mtime \in Nat
      BY DEF FilesInv, FileTypes, Times, Sources, Irs
    <3> QED
      BY <1>1, <1>2, <3>1 DEF FilesInv, Times
  <2>3. IncludesThen'
    BY <1>1, <1>2 DEF FilesInv, IncludesRight, IncludesThen
  <2> QED
    BY <2>1, <2>2, <2>3 DEF FilesInv
<1>8. SnapshotWhole' /\ FunsHaveFiles'
  BY <1>2, <1>4, <1>5 DEF SnapshotWhole, FunsHaveFiles
<1>9. CopiesCurrent'
  <2>1. inc \in Sources /\ 1 <= inc.mtime
    BY DEF FilesInv, FileTypes, Times
  <2> SUFFICES ASSUME NEW f \in FileSet
               PROVE  /\ snap.copies[f] = NoLl \/ f \in run.failed \/ snap.copies[f].ver = src[f].ver
                      /\ inc.mtime <= snap.copies[f].mtime => snap.copies[f].inc = inc.ver
    BY <1>2, <2>1 DEF CopiesCurrent
  <2>2. CASE snap.copies[f] = NoLl
    BY <2>1, <2>2 DEF NoLl, Sources
  <2>3. CASE f \in run.modules /\ snap.copies[f] = ll[f]
    BY <2>3 DEF FilesInv, BuiltRight, IncludesRight, WorkInv, ModulesBuilt
  <2> QED
    BY <1>6, <2>2, <2>3
<1>10. WorkInv'
  BY <1>1, <1>2, <1>3 DEF WorkInv, Phases, Making, ModulesBuilt, FunsDefined, Outdated, Building, CopiesOfModules,
     Copying, LinkedAsOfSnapshot
<1> QED
  BY <1>7, <1>8, <1>9, <1>10 DEF CopiesInv

-----------------------------------------------------------------------------
LEMMA SnapNext == RunInv /\ SnapInv /\ [Next]_vars => SnapInv'
<1> SUFFICES ASSUME RunInv, SnapInv, [Next]_vars PROVE SnapInv'
  OBVIOUS
<1>0. /\ DOMAIN run = DOMAIN Idle
      /\ run.pc # "idle" => run.kind # "none"
  BY DEF RunInv, SnapInv, WorkInv, Phases, Idle
<1>1. ASSUME NEW f \in FileSet, Edit(f) PROVE SnapInv'
  BY <1>1, EditSnap
<1>2. CASE EditHeaders
  BY <1>2, EditHeadersSnap
<1>3. ASSUME NEW list \in Lists, Generate(list) PROVE SnapInv'
  BY <1>3, GenerateSnap
<1>4. CASE RemovePiece
  BY <1>4, PieceSnap
<1>5. CASE Emptied
  BY <1>5, EmptiedSnap
<1>6. ASSUME NEW missing \in Missings, NEW n \in 1 .. 2, Compare(missing, n) PROVE SnapInv'
  <2>1. /\ run'.kind = "compare" /\ run'.pc = "rewrite" /\ snap.yaml
        /\ run'.modules = {} /\ run'.funs = {} /\ run'.answers = {}
        /\ UNCHANGED <<clock, src, inc, ll, snap>>
    BY <1>6 DEF Compare, Begin, Idle, disk
  <2> QED
    BY <2>1, FreshRun, FilesSame, CopiesSame DEF SnapInv
<1>7. CASE RewriteHeader \/ RestoreHeader
  BY <1>0, <1>7, QuietStep DEF RewriteHeader, RestoreHeader, Idle
<1>8. CASE Rewritten \/ Compared
  BY <1>0, <1>8, QuietStep DEF Rewritten, Compared, Idle, disk
<1>9. CASE Finished \/ CutOff
  BY <1>9, EndSnap
<1>10. CASE TakeSymbol \/ NotInSnapshot
  BY <1>0, <1>10, QuietStep DEF TakeSymbol, NotInSnapshot, Search, Idle
<1>11. CASE FoundInSnapshot
  BY <1>11, FoundSnap
<1>12. CASE SkipTooNew
  BY <1>0, <1>12, QuietStep DEF SkipTooNew, Idle, disk
<1>13. CASE Compile
  BY <1>13, CompileSnap
<1>14. CASE Optimise
  BY <1>14, OptimiseSnap
<1>15. CASE LookInto
  BY <1>15, LookSnap
<1>16. CASE NotFound
  BY <1>0, <1>16, QuietStep DEF NotFound, Tell, Answer, Idle, disk
<1>17. CASE AllLookedUp
  BY <1>17, LookedUpSnap
<1>18. CASE CopyModule
  BY <1>18, CopySnap
<1>19. CASE WriteYaml
  BY <1>19, YamlSnap
<1>20. CASE Over \/ UNCHANGED vars
  <2>1. UNCHANGED <<clock, src, inc, ll, snap, run>>
    BY <1>20 DEF Over, vars, disk
  <2>2. FilesInv' /\ CopiesInv'
    BY <2>1, FilesSame, CopiesSame DEF SnapInv
  <2>3. WorkInv'
    BY <2>1 DEF SnapInv, WorkInv, Phases, Making, ModulesBuilt, FunsDefined, Outdated, Building, Candidate,
       CopiesOfModules, Copying, FilesOfFuns, LinkedAsOfSnapshot
  <2> QED
    BY <2>2, <2>3 DEF SnapInv
<1> QED
  BY <1>1, <1>2, <1>3, <1>4, <1>5, <1>6, <1>7, <1>8, <1>9, <1>10, <1>11, <1>12, <1>13, <1>14, <1>15,
     <1>16, <1>17, <1>18, <1>19, <1>20 DEF Next

LEMMA SnapAlways == Spec => []SnapInv
<1>1. IInv => RunInv
  BY DEF IInv
<1> QED
  BY InitInv, NextInv, SnapInit, SnapNext, <1>1, PTL DEF Spec

\* Wherever a generate is cut off, also while it removes an earlier snapshot piece by piece, a
\* list of functions that can be loaded never stands beside IR of another snapshot: what it lists
\* is defined in the IR there, or that IR is gone (snapshot.py:66-70, 108-118).
THEOREM SnapshotIsWhole == Spec => []SnapshotWhole
<1>1. SnapInv => SnapshotWhole
  BY DEF SnapInv, CopiesInv
<1> QED
  BY SnapAlways, <1>1, PTL

\* The IR in a snapshot was built from the text that the file had when the snapshot was made, if
\* the build did not fail, and from the headers of that time unless they are newer than the IR; in
\* whatever order files and headers were edited, and wherever earlier runs were cut off, also
\* between clang and opt (build_llvm.py:310-330).
THEOREM SnapshotIsCurrent == Spec => []SnapshotCurrent
<1>1. ASSUME SnapInv PROVE SnapshotCurrent
  <2> SUFFICES ASSUME snap.yaml, NEW fun \in snap.funs, fun.file # NoFile, fun.file \notin snap.failed,
                      snap.copies[fun.file] # NoLl
               PROVE  /\ snap.copies[fun.file].ver = snap.at[fun.file]
                      /\ snap.inc.mtime <= snap.copies[fun.file].mtime =>
                            snap.copies[fun.file].inc = snap.inc.ver
    BY DEF SnapshotCurrent
  <2>1. fun.file \in FileSet
    BY <1>1 DEF SnapInv, CopiesInv, FunsHaveFiles
  <2> QED
    BY <1>1, <2>1 DEF SnapInv, CopiesInv, CopiesCurrent
<1>2. SnapInv => SnapshotCurrent
  BY <1>1
<1> QED
  BY SnapAlways, <1>2, PTL

\* No text of a file that was edited after the snapshot was made is linked to its modules by
\* compare (function_diff.py:19-22), whether it is found in the snapshot or in the kernel
\* directory; headers of a later time can be linked with IR that this compare builds, and only
\* with such IR (kernel_source.py:264-272).
THEOREM LinkedIsAsOfSnapshot == Spec => []LinkedAsOfSnapshot
<1>1. SnapInv => LinkedAsOfSnapshot
  BY DEF SnapInv, WorkInv
<1> QED
  BY SnapAlways, <1>1, PTL
=============================================================================
