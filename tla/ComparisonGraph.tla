-------------------------- MODULE ComparisonGraph --------------------------
(***************************************************************************)
(* The comparison graph of diffkemp/semdiff/caching.py.  A vertex is the   *)
(* result of comparing one pair of functions of the same name, an edge is  *)
(* a call found by SimpLL.  The graph of a single SimpLL run is normalised *)
(* (variant functions "f.void" are folded into "f"), header functions      *)
(* whose result may still change are marked uncachable, and the graph is   *)
(* absorbed into the one accumulated by the earlier comparisons.           *)
(*                                                                         *)
(* A graph is a function from the names of its vertices to vertices, and   *)
(* the empty graph also stands for None: a graph in use always has the     *)
(* vertex of the function it was computed for.                             *)
(***************************************************************************)
EXTENDS Naturals, FiniteSets, SequencesExt

CONSTANTS
    Funs,      \* functions, numbered in the alphabetical order of their names
    CFiles,    \* C source files (their names end with ".c")
    Headers    \* header files (their names end with ".h")

NoFile == ""   \* the file reported for a function that is only declared

ASSUME FunsAssumption == Funs \subseteq Nat /\ IsFiniteSet(Funs)
ASSUME FilesAssumption == /\ CFiles \cap Headers = {} /\ NoFile \notin CFiles \cup Headers
                          /\ IsFiniteSet(CFiles)

Side == {"L", "R"}
Files == CFiles \cup Headers

\* What SimpLL says of a pair of functions.
Verdicts == {"equal", "assumed_equal", "not_equal", "unknown"}
Definite == {"equal", "not_equal"}

\* An edge of one side.  "variant" is set when the call is to f.void: the
\* normalised edge leads to f, and is still an element of its own.
Edge == [to : Funs, variant : BOOLEAN, weak : BOOLEAN]

\* "run" is the identity of the vertex object (the SimpLL run that made it),
\* "prevents" the objects of the same run in its prevents_caching_of list.
Vertex == [result   : Verdicts,
           files    : [Side -> Files \cup {NoFile}],
           calls    : [Side -> SUBSET Edge],
           cachable : BOOLEAN,
           run      : Nat,
           prevents : SUBSET Funs]

IsGraph(g) == DOMAIN g \subseteq Funs /\ g \in [DOMAIN g -> Vertex]
EmptyGraph == [f \in {} |-> {}]

\* The graph g itself.  The comparison makes TLC compute g as a whole, once,
\* and not one vertex at each use.
Whole(g) == IF g = EmptyGraph THEN EmptyGraph ELSE g

\* What is reached from x along the relation R: the least set that holds x and
\* is closed under R.
Closure(x, R) ==
    LET Around == {x} \cup {r[2] : r \in R}
        Closed == {S \in SUBSET Around : x \in S /\ \A r \in R : r[1] \in S => r[2] \in S}
    IN  {y \in Around : \A S \in Closed : y \in S}

-----------------------------------------------------------------------------
(***************************************************************************)
(* Normalisation.  The graph read from SimpLL's output has a vertex per    *)
(* pair: [fun |-> f, void |-> FALSE] for (f, f), and with TRUE for         *)
(* (f.void, f) or (f, f.void), whose key is "f.void".                      *)
(***************************************************************************)
Pairs == [fun : Funs, void : BOOLEAN]
Strong(f) == [fun |-> f, void |-> FALSE]
Variant(f) == [fun |-> f, void |-> TRUE]

\* An edge becomes weak when its caller calls f.void on some side and the
\* vertex f.void is equal.
WeakenEdges(raw, v) ==
    LET CallsVariant(f) == \E s \in Side : \E e \in v.calls[s] : e.to = f /\ e.variant
        Weakened(e) == /\ CallsVariant(e.to)
                       /\ Variant(e.to) \in DOMAIN raw
                       /\ raw[Variant(e.to)].result = "equal"
    IN  [v EXCEPT !.calls =
            [L |-> {[e EXCEPT !.weak = @ \/ Weakened(e)] : e \in v.calls.L},
             R |-> {[e EXCEPT !.weak = @ \/ Weakened(e)] : e \in v.calls.R}]]

\* A weak vertex without a strong one takes its place, an equal result
\* becoming only assumed.
StrengthenKeepsEqual(v) == v   \* mutant: the result is left as it is

Strengthen(v) ==
    [v EXCEPT !.result = IF @ = "equal" THEN "assumed_equal" ELSE @]

Normalize(raw) ==
    [f \in {p.fun : p \in DOMAIN raw} |->
        IF Strong(f) \in DOMAIN raw
        THEN WeakenEdges(raw, raw[Strong(f)])
        ELSE Strengthen(WeakenEdges(raw, raw[Variant(f)]))]

-----------------------------------------------------------------------------
(***************************************************************************)
(* Marking of uncachable header functions, on the graph of a single run.   *)
(***************************************************************************)
IsHeader(g, f) == g[f].files["L"] \in Headers

\* The header functions that reach u through calls of header functions only.
HeaderCallers(g, u) ==
    LET HeaderFuns == {h \in DOMAIN g : IsHeader(g, h)}
        CalledBy == UNION {{<<e.to, h>> : e \in g[h].calls.L} : h \in HeaderFuns}
    IN  Closure(u, CalledBy) \ {u}

\* The results that may change once a file with the definition is compared.
Unsettled(g) ==
    {f \in DOMAIN g : g[f].result = "assumed_equal" /\ ~IsHeader(g, f)}

MarkUncachable(g) ==
    [f \in DOMAIN g |->
        [g[f] EXCEPT
            !.cachable = @ /\ \A u \in Unsettled(g) : f \notin HeaderCallers(g, u),
            !.prevents = IF f \in Unsettled(g) THEN HeaderCallers(g, f) ELSE @]]

-----------------------------------------------------------------------------
(***************************************************************************)
(* Merging.                                                                *)
(***************************************************************************)
\* Mutants: the new vertex always wins; it wins with as many calls.
GivesWayAlways(v, w) == TRUE
GivesWayWhenEven(v, w) ==
    \/ v.result \in {"assumed_equal", "unknown"}
    \/ \E s \in Side : Cardinality(w.calls[s]) >= Cardinality(v.calls[s])

\* compare_vertex_priority: TRUE when the vertex v of the graph gives way to w.
GivesWay(v, w) ==
    \/ v.result \in {"assumed_equal", "unknown"}
    \/ \E s \in Side : Cardinality(w.calls[s]) > Cardinality(v.calls[s])

ReplacedIfNew(g, new) == DOMAIN new \ DOMAIN g   \* mutant: only new names are added

Replaced(g, new) ==
    {f \in DOMAIN new : f \notin DOMAIN g \/ GivesWay(g[f], new[f])}

\* The vertices of g whose result stops being assumed equal.
Settled(g, new) ==
    {f \in Replaced(g, new) \cap DOMAIN g :
        g[f].result = "assumed_equal" /\ new[f].result # "assumed_equal"}

Absorb(g, new) ==
    [f \in DOMAIN g \cup DOMAIN new |->
        IF f \in Replaced(g, new) THEN new[f]
        ELSE [g[f] EXCEPT !.cachable =
                @ \/ \E u \in Settled(g, new) : f \in g[u].prevents /\ g[f].run = g[u].run]]

-----------------------------------------------------------------------------
(***************************************************************************)
(* Lookup of the results a function depends on.                            *)
(***************************************************************************)
\* The calls of f the search follows: not those that leave for another C file.
Followed(g, s, start, f) ==
    {e \in g[f].calls[s] :
        /\ e.to \in DOMAIN g
        /\ g[e.to].files[s] \in CFiles => g[e.to].files[s] = g[start].files[s]}

\* The callees of the i-th of the vertices w that are not among these.
NewCallees(g, s, start, w, i) == {e.to : e \in Followed(g, s, start, w[i])} \ Range(w)

\* The vertices in the order in which the breadth-first search pops them: after
\* w comes, of the callees that are new, the first by name of the first caller.
Least(S) == CHOOSE n \in S : \A m \in S : n <= m
Visit(g, s, start, w) ==
    LET Callers == {i \in DOMAIN w : NewCallees(g, s, start, w, i) # {}}
    IN  IF Callers = {} THEN w
        ELSE Append(w, Least(NewCallees(g, s, start, w, Least(Callers))))

SearchOrder(g, s, start) ==
    LET Walk[n \in Nat] == IF n = 0 THEN <<start>> ELSE Visit(g, s, start, Walk[n - 1])
    IN  Walk[Cardinality(Funs)]

\* A vertex counts only when a strong edge to it is met before it is popped.
ReachableFrom(g, s, start) ==
    LET w == SearchOrder(g, s, start)
        Counts(j) == \E i \in 1..(j - 1) : \E e \in Followed(g, s, start, w[i]) :
                        e.to = w[j] /\ ~e.weak
    IN  {start} \cup {w[j] : j \in {k \in DOMAIN w : Counts(k)}}

\* graph_to_fun_pair_list: what the report about a function lists.
FunPairs(g, f) ==
    {h \in DOMAIN g \cap ReachableFrom(g, "L", f) \cap ReachableFrom(g, "R", f) :
        g[h].result \notin {"equal", "assumed_equal"}}

-----------------------------------------------------------------------------
(***************************************************************************)
(* The result of comparing a function.                                     *)
(***************************************************************************)
Kinds == {"none", "equal_syntax", "not_equal", "unknown", "error"}
Result == [kind : Kinds, inner : [Funs -> Kinds]]
NoInner == [h \in Funs |-> "none"]
NoResult == [kind |-> "none", inner |-> NoInner]

\* The result made from the objects the graph g lists for f: an inner result
\* for each, and the worst of their kinds.
Report(g, f) ==
    LET pairs == FunPairs(g, f)
        kinds == {g[h].result : h \in pairs}
    IN  [kind  |-> IF "unknown" \in kinds THEN "unknown"
                   ELSE IF "not_equal" \in kinds THEN "not_equal" ELSE "equal_syntax",
         inner |-> [h \in Funs |-> IF h \in pairs THEN g[h].result ELSE "none"]]

=============================================================================
