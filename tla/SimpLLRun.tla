----------------------------- MODULE SimpLLRun -----------------------------
(***************************************************************************)
(* What one run of SimpLL returns to diffkemp/semdiff/function_diff.py: the *)
(* comparison graph of the main function and the missing definitions.  The *)
(* comparison of two function bodies is abstracted to its outcome, which a *)
(* program records for every pair of functions.                            *)
(***************************************************************************)
EXTENDS ComparisonGraph

CONSTANTS
    Programs,         \* pairs of snapshots, with the group that is compared
    ControlFlowOnly   \* the option --control-flow-only

\* home: the file that defines f in a snapshot, NoFile if none does.
\* variantSide: the snapshot where the functions with a ".void" variant
\* return a value.  equal, calls: the outcome of comparing the bodies of a
\* pair, and the pairs of callees met while comparing them.  inlined: the
\* names of callees on a side whose calls were inlined to make bodies equal.
\* group: the functions listed by the old snapshot; absent: those of them
\* the new one does not list.
Program == [home        : [Side -> [Funs -> Files \cup {NoFile}]],
            variantSide : Side,
            equal       : [Pairs -> BOOLEAN],
            calls       : [Pairs -> SUBSET Pairs],
            inlined     : [Pairs -> [Side -> SUBSET Pairs]],
            group       : SUBSET Funs,
            absent      : SUBSET Funs]

ASSUME ProgramsAssumption == Programs \subseteq Program
ASSUME OptionsAssumption == ControlFlowOnly \in BOOLEAN

\* The source files linked into the two modules besides their own.
Link == [side : Side, file : CFiles]

Other(s) == IF s = "L" THEN "R" ELSE "L"

\* A line of the cache: (f, f) in the cache file of a pair of source files.
CacheKey == [fun : Funs, files : [Side -> Files \cup {NoFile}]]

\* Each module contains the functions of its own file and of the headers.
Bodies(prog, main, linked, s) ==
    LET own == {prog.home[s][main]} \ {NoFile}
        added == {l.file : l \in {k \in linked : k.side = s}}
    IN  {f \in Funs : prog.home[s][f] \in Headers \cup own \cup added}

FilesOf(prog, main, linked, f) ==
    [s \in Side |-> IF f \in Bodies(prog, main, linked, s) THEN prog.home[s][f] ELSE NoFile]

HaveBodies(prog, main, linked, f) ==
    \A s \in Side : f \in Bodies(prog, main, linked, s)

\* Only functions with debug information, hence with a body, are looked up;
\* the lines of the cache never name a variant.
IsCached(prog, main, linked, cached, p) ==
    /\ ~p.void
    /\ HaveBodies(prog, main, linked, p.fun)
    /\ [fun |-> p.fun, files |-> FilesOf(prog, main, linked, p.fun)] \in cached

\* Comparing the bodies of a pair leads to the pairs of its callees.
Callees(prog, main, linked, cached, p) ==
    IF HaveBodies(prog, main, linked, p.fun) /\ ~IsCached(prog, main, linked, cached, p)
    THEN prog.calls[p]
    ELSE {}

\* The pairs met from the main one.
ComparedPairs(prog, main, linked, cached) ==
    LET Calls == UNION {{<<p, q>> : q \in Callees(prog, main, linked, cached, p)} : p \in Pairs}
    IN  Closure(Strong(main), Calls)

\* The name under which side s calls the pair p.
NameOn(prog, s, p) == [p EXCEPT !.void = @ /\ s = prog.variantSide]

CallsOn(prog, s, p, callees) ==
    {[to |-> n.fun, variant |-> n.void, weak |-> n \in prog.inlined[p][s]] :
        n \in {NameOn(prog, s, q) : q \in callees}}

PairVerdict(prog, main, linked, cached, p) ==
    IF IsCached(prog, main, linked, cached, p) THEN "unknown"
    ELSE IF ~HaveBodies(prog, main, linked, p.fun) THEN "assumed_equal"
    ELSE IF prog.equal[p] THEN "equal" ELSE "not_equal"

RawGraph(prog, main, linked, cached, run) ==
    [p \in ComparedPairs(prog, main, linked, cached) |->
        [result   |-> PairVerdict(prog, main, linked, cached, p),
         files    |-> FilesOf(prog, main, linked, p.fun),
         calls    |-> LET callees == Callees(prog, main, linked, cached, p)
                      IN  [L |-> CallsOn(prog, "L", p, callees),
                           R |-> CallsOn(prog, "R", p, callees)],
         cachable |-> TRUE,
         run      |-> run,
         prevents |-> {}]]

\* The graph run_simpll builds from SimpLL's output.
RunGraph(prog, main, linked, cached, run) ==
    LET raw == Whole(RawGraph(prog, main, linked, cached, run))
        normalized == Whole(Normalize(raw))
    IN  Whole(MarkUncachable(normalized))

\* A definition missing on one side only, under the name used on that side.
MissingDef == [side : Side, fun : Funs, variant : BOOLEAN]

MissingDefs(prog, main, linked, cached) ==
    LET Called(d) == \E p \in ComparedPairs(prog, main, linked, cached) :
                        p.fun = d.fun /\ NameOn(prog, d.side, p).void = d.variant
    IN  {d \in MissingDef :
            /\ ~ControlFlowOnly
            /\ d.fun \notin Bodies(prog, main, linked, d.side)
            /\ d.fun \in Bodies(prog, main, linked, Other(d.side))
            /\ Called(d)}

\* What linking the definition d adds, if the snapshot has one.  A file that
\* is linked already, and a name with a suffix, add nothing.
NewLinks(prog, linked, d) ==
    {l \in Link : l.side = d.side /\ l.file = prog.home[d.side][d.fun] /\ ~d.variant} \ linked

-----------------------------------------------------------------------------
(***************************************************************************)
(* The comparison of a function on its own, with no graph and no cache.    *)
(***************************************************************************)
\* The files linked when every definition the snapshots have is linked.
LinkMissing(p, f, l) == l \cup UNION {NewLinks(p, l, d) : d \in MissingDefs(p, f, l, {})}
LinkedAlone(p, f) ==
    LET Links[n \in Nat] == IF n = 0 THEN {} ELSE LinkMissing(p, f, Links[n - 1])
    IN  Links[2 * Cardinality(CFiles)]

ResultAlone(p, f) ==
    IF \E s \in Side : p.home[s][f] = NoFile
    THEN [NoResult EXCEPT !.kind = "unknown"]
    ELSE Report(RunGraph(p, f, LinkedAlone(p, f), {}, 0), f)

=============================================================================
