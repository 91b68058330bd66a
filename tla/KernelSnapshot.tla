--------------------------- MODULE KernelSnapshot ---------------------------
(***************************************************************************)
(* What DiffKemp does to a kernel directory and to a snapshot, over edits  *)
(* of the sources and over several runs that may be cut off anywhere:      *)
(*   generate  (diffkemp.py, snapshot.py) builds the files that define the *)
(*             listed symbols and copies them into the snapshot;           *)
(*   compare   looks definitions up that are missing (function_diff.py),   *)
(*             in the snapshot, then in the kernel directory.              *)
(* Files have versions, times of modification, and LLVM IR beside them     *)
(* (kernel_source.py, build_llvm.py), which clang writes and opt rewrites  *)
(* in place; a file is built again when it is newer than its IR, whatever  *)
(* happened to the headers that it includes.  A builder rewrites the       *)
(* compiler headers when it is made and restores them when it is           *)
(* finalized.                                                              *)
(***************************************************************************)
EXTENDS Naturals, Sequences, FiniteSets, SequencesExt

CONSTANTS
    Files,        \* a sequence: the C files, in the order of prio_key
    Headers,      \* a sequence: compiler_headers
    Variables,    \* the symbols that are not functions
    Defines(_, _),\* the symbols that a file defines in a version
    Uses(_, _),   \* the symbols that a file uses in a version
    Lists,        \* lists of symbols for generate
    Missings,     \* the definitions that may be missing in a compare, in order
    MaxVersion, MaxEdits, MaxRuns  \* bounds on edits of a file or of the headers, on all edits,
                                   \* and on runs

ASSUME HeadersAssumption == Headers \in Seq(STRING)
ASSUME FilesAssumption == Files \in Seq(STRING)
\* Version 0 is no file: it defines nothing.
ASSUME DefinesAssumption == \A f \in Range(Files) : Defines(f, 0) = {}
ASSUME BoundsAssumption == {MaxVersion, MaxEdits, MaxRuns} \subseteq Nat \ {0}

VARIABLES
    clock,
    src,       \* [ver, mtime] of each file
    inc,       \* [ver, mtime] of the headers that the files include, taken as one
    ll,        \* the LLVM IR of each file: what it was built from, its form and its mtime
    headers,   \* [asm, undefs] of each compiler header
    db,        \* versions that the cscope database was built from, or NoDb
    snap,      \* the snapshot directory
    run,       \* the running DiffKemp
    runs, ended  \* how many runs there were and how the last one ended

disk == <<src, inc, ll, headers, db, snap>>
vars == <<clock, disk, run, runs, ended>>

FileSet == Range(Files)
\* form: "clang", "opt", or "part" if opt did not come to its end; ver is 0 if there is no IR.
NoLl == [ver |-> 0, inc |-> 0, form |-> "none", mtime |-> 0]
Original == [asm |-> "goto", undefs |-> 0]
NoDb == [f \in FileSet |-> 0]
\* copies: the IR that the snapshot has of each file; yaml: its list of functions, written last;
\* torn: a generate began to remove it; at, inc: the sources of the time it was created.
EmptySnap == [copies |-> [f \in FileSet |-> NoLl], yaml |-> FALSE, torn |-> FALSE, funs |-> {},
              created |-> 0, at |-> NoDb, inc |-> [ver |-> 0, mtime |-> 0], failed |-> {}]
\* failed: files whose build failed in this run.
Idle == [kind |-> "none", pc |-> "idle", rewrite |-> <<>>, restore |-> <<>>, todo |-> <<>>,
         cands |-> <<>>, modules |-> {}, funs |-> {}, copy |-> <<>>, answers |-> {}, failed |-> {}]
NoFile == "none"

Init == /\ clock = 1
        /\ src = [f \in FileSet |-> [ver |-> 1, mtime |-> 1]]
        /\ inc = [ver |-> 1, mtime |-> 1]
        /\ ll = [f \in FileSet |-> NoLl]
        /\ headers = [h \in Range(Headers) |-> Original]
        /\ db = NoDb /\ snap = EmptySnap
        /\ run = Idle /\ runs = 0 /\ ended = "complete"

-----------------------------------------------------------------------------
(***************************************************************************)
(* Between runs the sources are edited.                                    *)
(***************************************************************************)
Edits == MapThenSumSet(LAMBDA f : src[f].ver - 1, FileSet) + inc.ver - 1
MayEdit(file) == run = Idle /\ file.ver < MaxVersion /\ Edits < MaxEdits /\ runs < MaxRuns

Edit(f) == /\ MayEdit(src[f])
           /\ clock' = clock + 1
           /\ src' = [src EXCEPT ![f] = [ver |-> @.ver + 1, mtime |-> clock + 1]]
           /\ UNCHANGED <<inc, ll, headers, db, snap, run, runs, ended>>
\* A header that the files include: the files themselves keep their times.
EditHeaders == /\ MayEdit(inc)
               /\ clock' = clock + 1
               /\ inc' = [ver |-> inc.ver + 1, mtime |-> clock + 1]
               /\ UNCHANGED <<src, ll, headers, db, snap, run, runs, ended>>

-----------------------------------------------------------------------------
(***************************************************************************)
(* The builder and the compiler headers.                                   *)
(***************************************************************************)
Disable(h) == [asm |-> "string", undefs |-> h.undefs + 1]
EnableFirst(h) == [asm |-> "goto", undefs |-> IF h.undefs = 0 THEN 0 ELSE h.undefs - 1]
Enable(h) == [asm |-> "goto", undefs |-> 0]

Begin(kind, sources, pc, todo) ==
    /\ run = Idle /\ runs < MaxRuns
    /\ runs' = runs + 1
    /\ run' = [Idle EXCEPT !.kind = kind, !.pc = pc, !.todo = todo,
                           !.rewrite = sources, !.restore = sources]

\* One kernel source is rewritten by generate, and by compare one for each of the
\* two snapshots that was made from this directory.
RewriteHeader == /\ run.pc = "rewrite" /\ run.rewrite # <<>>
                 /\ headers' = [headers EXCEPT ![Head(run.rewrite)] = Disable(@)]
                 /\ run' = [run EXCEPT !.rewrite = Tail(@)]
                 /\ UNCHANGED <<clock, src, inc, ll, db, snap, runs, ended>>
Rewritten == /\ run.pc = "rewrite" /\ run.rewrite = <<>>
             /\ run' = [run EXCEPT !.pc = "work"]
             /\ UNCHANGED <<clock, disk, runs, ended>>

RestoreHeader == /\ run.pc = "finalize" /\ run.restore # <<>>
                 /\ headers' = [headers EXCEPT ![Head(run.restore)] = Enable(@)]
                 /\ run' = [run EXCEPT !.restore = Tail(@)]
                 /\ UNCHANGED <<clock, src, inc, ll, db, snap, runs, ended>>
Finished == /\ run.pc = "finalize" /\ run.restore = <<>>
            /\ run' = Idle /\ ended' = "complete"
            /\ UNCHANGED <<clock, disk, runs>>

\* A crash, an exception nobody handles, or the exit when the output directory exists.  opt
\* may be cut off while it writes over its input, or removes what it could not finish.
Interrupted == IF run.pc = "opt"
               THEN LET f == Head(run.cands)
                    IN {[ll EXCEPT ![f] = ir] :
                           ir \in {ll[f], [ll[f] EXCEPT !.form = "part"], NoLl}}
               ELSE {ll}
CutOff == /\ run # Idle /\ run' = Idle /\ ended' = "cut off"
          /\ ll' \in Interrupted
          /\ UNCHANGED <<clock, src, inc, headers, db, snap, runs>>

-----------------------------------------------------------------------------
(***************************************************************************)
(* Looking symbols up.                                                     *)
(***************************************************************************)
\* A cscope database is only built where there is none.
Database(d) == IF d = NoDb THEN [f \in FileSet |-> src[f].ver] ELSE d

\* find_srcs_with_symbol_def: files that define the symbol, then files that use it.
Candidates(s, d) == SelectSeq(Files, LAMBDA f : s \in Defines(f, d[f]))
                    \o SelectSeq(Files, LAMBDA f : s \notin Defines(f, d[f]) /\ s \in Uses(f, d[f]))

\* The symbol is looked for among the candidates, in order.
Search(s) == /\ db' = Database(db)
             /\ run' = [run EXCEPT !.pc = "search", !.cands = Candidates(s, Database(db))]

\* get_module_from_source: compare takes nothing that changed after the snapshot was made,
\* as far as the times of the file and of its IR tell.
TooNewIr(f) == run.kind = "compare" /\ ll[f].mtime > snap.created
TooNew(f) == run.kind = "compare" /\ (src[f].mtime > snap.created \/ ll[f].mtime > snap.created)

NeverStale(f) == ll[f] = NoLl
Outdated(f) == ll[f] = NoLl \/ ll[f].mtime < src[f].mtime

\* What a look-up tells: the file, if any, and the IR it has at this time.
Answer(s, f, ir, bad) == [sym |-> s, file |-> f, ir |-> ir, bad |-> bad]
Tell(answer) == run' = [run EXCEPT !.pc = "work", !.todo = Tail(@), !.cands = <<>>,
                                   !.answers = @ \cup {answer},
                                   !.modules = IF answer.file = NoFile THEN @ ELSE @ \cup {answer.file},
                                   !.funs = IF answer.sym \in Variables THEN @
                                            ELSE @ \cup {[sym |-> answer.sym, file |-> answer.file]}]

TakeSymbol == /\ run.kind = "generate" /\ run.pc = "work" /\ run.todo # <<>>
              /\ Search(Head(run.todo))
              /\ UNCHANGED <<clock, src, inc, ll, headers, snap, runs, ended>>

\* _link_symbol_def asks the snapshot first; its files do not change any more.  What is in IR
\* that is not complete may be overlooked, and so may a file of a torn snapshot, as its C file
\* or the database may be gone.
InSnapshot(f, s) == s \in Defines(f, snap.copies[f].ver)
Overlooked(f) == snap.torn \/ snap.copies[f].form = "part"
FoundInSnapshot ==
    /\ run.kind = "compare" /\ run.pc = "work" /\ run.todo # <<>>
    /\ LET s == Head(run.todo)
           cands == Candidates(s, snap.at)
       IN \E f \in FileSet, n \in DOMAIN cands :
             /\ f = cands[n] /\ InSnapshot(f, s)
             /\ \A m \in 1 .. n - 1 : InSnapshot(cands[m], s) => Overlooked(cands[m])
             /\ run' = [run EXCEPT !.todo = Tail(@), !.answers = @ \cup
                           {Answer(s, f, snap.copies[f], f \in snap.failed)}]
    /\ UNCHANGED <<clock, disk, runs, ended>>
NotInSnapshot ==
    /\ run.kind = "compare" /\ run.pc = "work" /\ run.todo # <<>>
    /\ LET s == Head(run.todo)
       IN \A f \in Range(Candidates(s, snap.at)) : InSnapshot(f, s) => Overlooked(f)
    /\ Search(Head(run.todo))
    /\ UNCHANGED <<clock, src, inc, ll, headers, snap, runs, ended>>

Candidate(f) == run.cands # <<>> /\ f = Head(run.cands)
SkipTooNew == /\ run.pc = "search"
              /\ \E f \in FileSet : Candidate(f) /\ TooNew(f)
              /\ run' = [run EXCEPT !.cands = Tail(@)]
              /\ UNCHANGED <<clock, disk, runs, ended>>

\* build_source_to_llvm.  make or clang may fail, and clang removes what it could not write;
\* get_module_from_source catches the BuildException.
Compile == /\ run.pc = "search"
           /\ \E f \in FileSet :
                 /\ Candidate(f) /\ ~ TooNew(f) /\ f \notin run.modules /\ Outdated(f)
                 /\ \/ /\ clock' = clock + 1
                       /\ ll' = [ll EXCEPT ![f] = [ver |-> src[f].ver, inc |-> inc.ver,
                                                   form |-> "clang", mtime |-> clock + 1]]
                       /\ run' = [run EXCEPT !.pc = "opt", !.failed = @ \ {f}]
                    \/ /\ \E ir \in {ll[f], NoLl} : ll' = [ll EXCEPT ![f] = ir]
                       /\ run' = [run EXCEPT !.pc = "built", !.failed = @ \cup {f}]
                       /\ UNCHANGED clock
           /\ UNCHANGED <<src, inc, headers, db, snap, runs, ended>>

\* opt_llvm rewrites the IR in place; it may fail, also while it writes.
Optimise == /\ run.pc = "opt"
            /\ \E f \in FileSet :
                  /\ Candidate(f)
                  /\ \/ /\ ll' = [ll EXCEPT ![f].form = "opt"]
                        /\ run' = [run EXCEPT !.pc = "built"]
                     \/ /\ ll' \in Interrupted
                        /\ run' = [run EXCEPT !.pc = "built", !.failed = @ \cup {f}]
            /\ UNCHANGED <<clock, src, inc, headers, db, snap, runs, ended>>

\* The module that this run has already, or that is there now, is searched for the symbol.
LookInto == /\ \E f \in FileSet :
                  /\ Candidate(f)
                  /\ \/ run.pc = "built"
                     \/ run.pc = "search" /\ ~ TooNew(f) /\ (f \in run.modules \/ ~ Outdated(f))
                  /\ LET s == Head(run.todo)
                     IN \/ /\ s \in Defines(f, ll[f].ver)
                           /\ Tell(Answer(s, f, ll[f], f \in run.failed))
                        \/ /\ s \notin Defines(f, ll[f].ver) \/ ll[f].form = "part"
                           /\ run' = [run EXCEPT !.pc = "search", !.cands = Tail(@),
                                                 !.modules = IF ll[f] = NoLl THEN @ ELSE @ \cup {f}]
            /\ UNCHANGED <<clock, disk, runs, ended>>

NotFound == /\ run.pc = "search" /\ run.cands = <<>>
            /\ Tell(Answer(Head(run.todo), NoFile, NoLl, FALSE))
            /\ UNCHANGED <<clock, disk, runs, ended>>

-----------------------------------------------------------------------------
(***************************************************************************)
(* generate and compare.                                                   *)
(***************************************************************************)
\* create_from_source: what the directory has is removed piece by piece, in any order, before
\* it is made anew; then the builder is made.
Generate(list) == /\ Begin("generate", Headers, "empty", list)
                  /\ snap' = [snap EXCEPT !.torn = TRUE]
                  /\ UNCHANGED <<clock, src, inc, ll, headers, db, ended>>
RemovePiece == /\ run.pc = "empty"
               /\ \/ snap.yaml /\ snap' = [snap EXCEPT !.yaml = FALSE]
                  \/ \E f \in FileSet : /\ snap.copies[f] # NoLl
                                        /\ snap' = [snap EXCEPT !.copies[f] = NoLl]
               /\ UNCHANGED <<clock, src, inc, ll, headers, db, run, runs, ended>>
Emptied == /\ run.pc = "empty" /\ ~ snap.yaml /\ \A f \in FileSet : snap.copies[f] = NoLl
           /\ snap' = EmptySnap
           /\ run' = [run EXCEPT !.pc = "rewrite"]
           /\ UNCHANGED <<clock, src, inc, ll, headers, db, runs, ended>>

FilesOfFuns == {fun.file : fun \in run.funs} \ {NoFile}
AllLookedUp == /\ run.kind = "generate" /\ run.pc = "work" /\ run.todo = <<>>
               /\ run' = [run EXCEPT !.pc = "copy", !.copy = SetToSeq(FilesOfFuns)]
               /\ UNCHANGED <<clock, disk, runs, ended>>

\* copy_source_files and move_to_other_root_dir for one module.
CopyModule == /\ run.pc = "copy" /\ run.copy # <<>>
              /\ LET f == Head(run.copy) IN snap' = [snap EXCEPT !.copies[f] = ll[f]]
              /\ run' = [run EXCEPT !.copy = Tail(@)]
              /\ UNCHANGED <<clock, src, inc, ll, headers, db, runs, ended>>

WriteFuns(copied) == /\ run.pc = "copy" /\ copied
                     /\ clock' = clock + 1
                     /\ snap' = [snap EXCEPT !.yaml = TRUE, !.funs = run.funs, !.created = clock + 1,
                                             !.at = [f \in FileSet |-> src[f].ver], !.inc = inc,
                                             !.failed = run.failed]
                     /\ run' = [run EXCEPT !.pc = IF run.copy = <<>> THEN "finalize" ELSE "copy"]
                     /\ UNCHANGED <<src, inc, ll, headers, db, runs, ended>>
WriteYamlFirst == WriteFuns(~ snap.yaml \/ run.copy = <<>>)
\* snapshot.yaml is written when everything it names is there; one that was cut off is not
\* loaded, as source_kernel_dir comes last in it.
WriteYaml == WriteFuns(run.copy = <<>>)

\* load_from_dir makes a builder for the kernel directory of each snapshot.
Compare(missing, n) == /\ snap.yaml
                       /\ Begin("compare", IF n = 1 THEN Headers ELSE Headers \o Headers, "rewrite", missing)
                       /\ UNCHANGED <<clock, disk, ended>>
Compared == /\ run.kind = "compare" /\ run.pc = "work" /\ run.todo = <<>>
            /\ run' = [run EXCEPT !.pc = "finalize"]
            /\ UNCHANGED <<clock, disk, runs, ended>>

Over == run = Idle /\ runs = MaxRuns /\ UNCHANGED vars

Next == \/ \E f \in FileSet : Edit(f)
        \/ EditHeaders
        \/ \E list \in Lists : Generate(list)
        \/ RemovePiece \/ Emptied
        \/ \E missing \in Missings, n \in 1 .. 2 : Compare(missing, n)
        \/ RewriteHeader \/ Rewritten \/ RestoreHeader \/ Finished \/ CutOff
        \/ TakeSymbol \/ FoundInSnapshot \/ NotInSnapshot
        \/ SkipTooNew \/ Compile \/ Optimise \/ LookInto \/ NotFound
        \/ AllLookedUp \/ CopyModule \/ WriteYaml \/ Compared
        \/ Over

Spec == Init /\ [][Next]_vars

-----------------------------------------------------------------------------
(***************************************************************************)
(* Properties.                                                             *)
(***************************************************************************)
\* However many runs were cut off before, and however often the headers were rewritten
\* on top of each other: after a run that ends, the headers are the original ones
\* (build_llvm.py:37-79, KernelSource.finalize).
HeadersRestored == run = Idle /\ ended = "complete" => \A h \in DOMAIN headers : headers[h] = Original

\* The pieces of different snapshots are never mixed: wherever generate was cut off, each
\* function that a snapshot lists is defined in the IR that was copied for it, or that IR was
\* removed by a generate which was cut off while it removed the snapshot (snapshot.py:66-70,
\* 108-118).
SnapshotWhole == snap.yaml => \A fun \in snap.funs : fun.file # NoFile =>
    \/ fun.sym \in Defines(fun.file, snap.copies[fun.file].ver)
    \/ snap.torn /\ snap.copies[fun.file] = NoLl

\* The snapshot has the sources as they were when it was made, unless their build failed in
\* that run (failures are not told to the user: kernel_source.py:279-282): the text of the file
\* itself, and that of its headers if they were not edited after the IR was built.  Headers
\* that were edited later are not noticed (build_llvm.py:310).
SnapshotCurrent == snap.yaml => \A fun \in snap.funs :
    fun.file # NoFile /\ fun.file \notin snap.failed =>
        LET ir == snap.copies[fun.file]
        IN ir # NoLl => /\ ir.ver = snap.at[fun.file]
                        /\ snap.inc.mtime <= ir.mtime => ir.inc = snap.inc.ver

\* What compare links to the modules of a snapshot is, unless a build failed, the text that the
\* file had when the snapshot was made (docstring function_diff.py:19-22).  So are its headers,
\* if the snapshot is not stale already, and as long as nothing is built after they were
\* edited: that they were is not noticed (kernel_source.py:268).
LinkedAsOfSnapshot == run.kind = "compare" => \A a \in run.answers :
    a.file # NoFile /\ ~ a.bad =>
        /\ a.ir.ver = snap.at[a.file]
        /\ snap.inc.mtime <= a.ir.mtime /\ (a.ir.mtime <= snap.created \/ inc = snap.inc) =>
              a.ir.inc = snap.inc.ver
=============================================================================
