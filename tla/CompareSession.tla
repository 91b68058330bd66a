--------------------------- MODULE CompareSession ---------------------------
(***************************************************************************)
(* The comparison of one group of functions by diffkemp compare: the loop  *)
(* of compare() in diffkemp.py and functions_diff() of                     *)
(* semdiff/function_diff.py, with the graph of results and the cache of    *)
(* SimpLL carried from one function to the next.                           *)
(***************************************************************************)
EXTENDS SimpLLRun

CONSTANT MayFail   \* the steps whose failure is modelled
Failures == {"first run", "rerun", "link"}
ASSUME MayFailAssumption == MayFail \subseteq Failures

VARIABLES
    prog,      \* the snapshots and the group; never changes
    todo,      \* functions of the group not compared yet
    cur,       \* the function being compared, in a set; {} between two
    pc,        \* where functions_diff is
    graph,     \* result_graph, prev_result_graph
    curr,      \* curr_result_graph
    missing,   \* missing_defs not looked up yet
    relink,    \* simplify: a definition was linked in this iteration
    linked,    \* files linked into the modules of the current function
    cache,     \* the lines of the cache files, a bag of keys
    runs,      \* SimpLL runs so far
    results    \* the result of each function of the group

vars == <<prog, todo, cur, pc, graph, curr, missing, relink, linked, cache, runs, results>>

\* The keys SimpLL finds in the cache directory.
Cached == BagToSet(cache)

DefinitiveOrAssumed(g) == {f \in DOMAIN g : g[f].result # "unknown"}   \* mutant

\* The vertices handed to the cache after a merge.
Definitive(g) == {f \in DOMAIN g : g[f].result \in Definite}

KeyOf(g, f) == [fun |-> f, files |-> g[f].files]

\* Mutant: the marks of MarkUncachable are ignored.
UpdateCacheAll(c, g) == c (+) SetToBag({KeyOf(g, f) : f \in Definitive(g)})

\* SimpLLCache.update appends a line for every cachable vertex it is given.
UpdateCache(c, g) ==
    c (+) SetToBag({KeyOf(g, f) : f \in {h \in Definitive(g) : g[h].cachable}})

-----------------------------------------------------------------------------
Init ==
    /\ prog \in Programs
    /\ todo = prog.group
    /\ cur = {}
    /\ pc = "next"
    /\ graph = EmptyGraph
    /\ curr = EmptyGraph
    /\ missing = {}
    /\ relink = FALSE
    /\ linked = {}
    /\ cache = EmptyBag
    /\ runs = 0
    /\ results = [f \in Funs |-> NoResult]

\* The group is compared in the order of names.
IsNext(f) == f \in todo /\ \A h \in todo : f <= h

HasModules(f) == \A s \in Side : prog.home[s][f] # NoFile

\* The new snapshot does not list the function.
SkipAbsent ==
    /\ pc = "next"
    /\ \E f \in todo :
        /\ IsNext(f)
        /\ f \in prog.absent
        /\ todo' = todo \ {f}
    /\ UNCHANGED <<prog, cur, pc, graph, curr, missing, relink, linked, cache, runs, results>>

\* One of the snapshots has no module for the function.
ReportUnknown ==
    /\ pc = "next"
    /\ \E f \in todo :
        /\ IsNext(f)
        /\ f \notin prog.absent
        /\ ~HasModules(f)
        /\ todo' = todo \ {f}
        /\ results' = [results EXCEPT ![f].kind = "unknown"]
    /\ UNCHANGED <<prog, cur, pc, graph, curr, missing, relink, linked, cache, runs>>

\* functions_diff is called.
StartDiff ==
    /\ pc = "next"
    /\ \E f \in todo :
        /\ IsNext(f)
        /\ f \notin prog.absent
        /\ HasModules(f)
        /\ todo' = todo \ {f}
        /\ cur' = {f}
    /\ pc' = "simplify"
    /\ curr' = EmptyGraph
    /\ linked' = {}
    /\ UNCHANGED <<prog, graph, missing, relink, cache, runs, results>>

KnownAnyhow(f) == f \in DOMAIN graph   \* mutant: an assumption counts as a result

\* The previous comparisons already have a result that needs no revision.
Known(f) == f \in DOMAIN graph /\ graph[f].result # "assumed_equal"

ReuseGraph ==
    /\ pc = "simplify"
    /\ \A f \in cur : Known(f)
    /\ curr' = graph
    /\ relink' = FALSE
    /\ pc' = "report"
    /\ UNCHANGED <<prog, todo, cur, graph, missing, linked, cache, runs, results>>

\* Mutant: the flag of the previous iteration is not reset.
RunSimpLLNoReset ==
    /\ pc = "simplify"
    /\ \E f \in cur :
        /\ ~Known(f)
        /\ curr' = RunGraph(prog, f, linked, Cached, runs)
        /\ missing' = MissingDefs(prog, f, linked, Cached)
    /\ runs' = runs + 1
    /\ pc' = "link"
    /\ UNCHANGED <<prog, todo, cur, graph, relink, linked, cache, results>>

\* SimpLL is run on the two modules, which are simplified and compared.
RunSimpLL ==
    /\ pc = "simplify"
    /\ \E f \in cur :
        /\ ~Known(f)
        /\ curr' = RunGraph(prog, f, linked, Cached, runs)
        /\ missing' = MissingDefs(prog, f, linked, Cached)
    /\ runs' = runs + 1
    /\ relink' = FALSE
    /\ pc' = "link"
    /\ UNCHANGED <<prog, todo, cur, graph, linked, cache, results>>

\* SimpLL fails: the result is an error, and the graph left by the previous
\* iteration, if there is one, becomes the graph of the session.
SimpLLFails ==
    /\ pc = "simplify"
    /\ (IF curr = EmptyGraph THEN "first run" ELSE "rerun") \in MayFail
    /\ \E f \in cur :
        /\ ~Known(f)
        /\ results' = [results EXCEPT ![f].kind = "error"]
    /\ graph' = IF curr = EmptyGraph THEN graph ELSE curr
    /\ cur' = {}
    /\ relink' = FALSE
    /\ pc' = "next"
    /\ UNCHANGED <<prog, todo, curr, missing, linked, cache, runs>>

\* A missing definition is found in the sources and linked.
LinkDef ==
    /\ pc = "link"
    /\ \E d \in missing :
        /\ missing' = missing \ {d}
        /\ NewLinks(prog, linked, d) # {}
        /\ linked' = linked \cup NewLinks(prog, linked, d)
    /\ relink' = TRUE
    /\ UNCHANGED <<prog, todo, cur, pc, graph, curr, cache, runs, results>>

\* It is not found, is linked already, or llvm-link fails.
LinkDefFails ==
    /\ pc = "link"
    /\ \E d \in missing :
        /\ missing' = missing \ {d}
        /\ NewLinks(prog, linked, d) = {} \/ "link" \in MayFail
    /\ UNCHANGED <<prog, todo, cur, pc, graph, curr, relink, linked, cache, runs, results>>

\* Something was linked: simplify and compare again.
Rerun ==
    /\ pc = "link"
    /\ missing = {}
    /\ relink
    /\ pc' = "simplify"
    /\ UNCHANGED <<prog, todo, cur, graph, curr, missing, relink, linked, cache, runs, results>>

\* The graph of the run is absorbed by that of the session, and the cache
\* receives the definitive results.  The first graph of a session is kept as
\* it is, and not cached.
MergeGraph ==
    /\ pc = "link"
    /\ missing = {}
    /\ ~relink
    /\ IF graph = EmptyGraph
       THEN UNCHANGED <<graph, curr, cache>>
       ELSE /\ graph' = Absorb(graph, curr)
            /\ curr' = graph'
            /\ cache' = UpdateCache(cache, graph')
    /\ pc' = "report"
    /\ UNCHANGED <<prog, todo, cur, missing, relink, linked, runs, results>>

\* The linked files are unlinked and the result is reported.
ReportResult ==
    /\ pc = "report"
    /\ \E f \in cur : results' = [results EXCEPT ![f] = Report(curr, f)]
    /\ graph' = curr
    /\ linked' = {}
    /\ cur' = {}
    /\ pc' = "next"
    /\ UNCHANGED <<prog, todo, curr, missing, relink, cache, runs>>

\* Every function of the group has been dealt with.
Done ==
    /\ pc = "next"
    /\ todo = {}
    /\ UNCHANGED vars

Next ==
    \/ SkipAbsent
    \/ ReportUnknown
    \/ StartDiff
    \/ ReuseGraph
    \/ RunSimpLL
    \/ SimpLLFails
    \/ LinkDef
    \/ LinkDefFails
    \/ Rerun
    \/ MergeGraph
    \/ ReportResult
    \/ Done

Spec == Init /\ [][Next]_vars

-----------------------------------------------------------------------------
(***************************************************************************)
(* Properties.                                                             *)
(***************************************************************************)
\* Types of the variables of the session.
TypeOK ==
    /\ prog \in Program
    /\ todo \subseteq prog.group
    /\ cur \subseteq Funs
    /\ pc \in {"next", "simplify", "link", "report"}
    /\ IsGraph(graph)
    /\ IsGraph(curr)
    /\ missing \subseteq MissingDef
    /\ relink \in BOOLEAN
    /\ linked \subseteq Link
    /\ IsABag(cache) /\ BagToSet(cache) \subseteq CacheKey
    /\ runs \in Nat
    /\ results \in [Funs -> Result]

\* A pair SimpLL is told to skip has a definitive result in the graph, computed
\* for the same source files: the unknown result SimpLL gives it can be resolved.
CacheCoherent ==
    \A k \in Cached : /\ k.fun \in DOMAIN graph
                      /\ graph[k.fun].result \in Definite
                      /\ graph[k.fun].files = k.files

\* The graph is built incrementally: a definitive result of a comparison is
\* neither dropped nor changed by a later one.
ResultsKept ==
    [][\A f \in DOMAIN graph : graph[f].result \in Definite =>
            f \in DOMAIN graph' /\ graph'[f].result = graph[f].result]_vars

\* A header function is not cached while it calls, through header functions,
\* a function outside headers whose equality is only assumed: it is compared
\* again from the file that has the definition.
CachedHeadersSettled ==
    \A k \in Cached : \A u \in Unsettled(graph) :
        k.files.L \in Headers => k.fun \notin HeaderCallers(graph, u)

\* A function of the group is given the result it would be given on its own:
\* the graph and the cache left by earlier comparisons, and the error of one
\* of these, make no difference.
Independent == INSTANCE IndependentCompare
                    WITH todo <- todo \cup cur, RunsMayFail <- "first run" \in MayFail
CachingIsTransparent == Independent!Spec

\* No comparison is declared equal in the graph unless the bodies of the two
\* functions compare equal, nor different unless they, or those of the variant
\* pair, differ; and it names the files that define them.  Failures and
\* variants make no exception.
VerdictsSound ==
    \A f \in DOMAIN graph :
        /\ graph[f].result = "equal" => prog.equal[Strong(f)]
        /\ graph[f].result = "not_equal" => ~(prog.equal[Strong(f)] /\ prog.equal[Variant(f)])
        /\ graph[f].result \in Definite => \A s \in Side : graph[f].files[s] = prog.home[s][f]

\* Every step brings the session closer to its end, whatever is missing and
\* whatever fails: the loop that links definitions and runs SimpLL again cannot
\* go on for ever, since each iteration links a file that was not linked.
\* (A session that is not done is never stuck either.)
Iteration == Cardinality(MissingDef) + 4
FilesLeft == Cardinality(Link \ linked) + (IF pc = "link" /\ relink THEN 1 ELSE 0)
StepsLeft ==
    Cardinality(todo) * ((Cardinality(Link) + 1) * Iteration + 1)
        + (CASE pc = "next"     -> 0
             [] pc = "report"   -> 1
             [] pc = "link"     -> FilesLeft * Iteration + Cardinality(missing) + 2
             [] pc = "simplify" -> FilesLeft * Iteration + Iteration - 1)

SessionProgresses == [][StepsLeft' < StepsLeft]_vars

=============================================================================
