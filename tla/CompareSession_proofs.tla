------------------------ MODULE CompareSession_proofs ------------------------
(***************************************************************************)
(* Proofs about CompareSession.                                            *)
(***************************************************************************)
EXTENDS CompareSession, TLAPS, FiniteSetTheorems

-----------------------------------------------------------------------------
(* Types of the operators on graphs. *)

\* A closure contains only its start and targets of the relation.
LEMMA ClosureType ==
    ASSUME NEW T, NEW x \in T, NEW R, \A r \in R : r[2] \in T
    PROVE  Closure(x, R) \subseteq T
BY DEF Closure

\* Whole changes nothing.
LEMMA WholeIsIdentity == \A g : Whole(g) = g
BY DEF Whole

\* Marking header functions keeps a graph a graph with the same functions.
LEMMA MarkUncachableType ==
    ASSUME NEW g, IsGraph(g)
    PROVE  /\ IsGraph(MarkUncachable(g))
           /\ DOMAIN MarkUncachable(g) = DOMAIN g
           /\ \A f \in DOMAIN g : /\ MarkUncachable(g)[f].result = g[f].result
                                  /\ MarkUncachable(g)[f].files = g[f].files
                                  /\ MarkUncachable(g)[f].calls = g[f].calls
                                  /\ MarkUncachable(g)[f].run = g[f].run
<1>1. ASSUME NEW u \in DOMAIN g
      PROVE  HeaderCallers(g, u) \subseteq Funs
  <2>1. u \in Funs
    BY DEF IsGraph
  <2>. DEFINE HeaderFuns == {h \in DOMAIN g : IsHeader(g, h)}
              CalledBy == UNION {{<<e.to, h>> : e \in g[h].calls.L} : h \in HeaderFuns}
  <2>2. \A r \in CalledBy : r[2] \in Funs
    BY DEF IsGraph
  <2>3. Closure(u, CalledBy) \subseteq Funs
    BY <2>1, <2>2, ClosureType
  <2>. QED
    BY <2>3 DEF HeaderCallers
<1>2. ASSUME NEW f \in DOMAIN g
      PROVE  /\ MarkUncachable(g)[f] \in Vertex
             /\ MarkUncachable(g)[f].result = g[f].result
             /\ MarkUncachable(g)[f].files = g[f].files
             /\ MarkUncachable(g)[f].calls = g[f].calls
             /\ MarkUncachable(g)[f].run = g[f].run
  <2>1. g[f] \in Vertex
    BY DEF IsGraph
  <2>2. (IF f \in Unsettled(g) THEN HeaderCallers(g, f) ELSE g[f].prevents) \subseteq Funs
    BY <1>1, <2>1 DEF Vertex
  <2>. QED
    BY <2>1, <2>2 DEF MarkUncachable, Vertex
<1>. QED
  BY <1>2 DEF MarkUncachable, IsGraph

\* A value for each side, given as a record.
LEMMA SidesType ==
    ASSUME NEW T, NEW a \in T, NEW b \in T
    PROVE  [L |-> a, R |-> b] \in [Side -> T]
BY DEF Side

\* Weakening edges leaves the rest of a vertex.
LEMMA WeakenType ==
    ASSUME NEW raw, NEW v \in Vertex
    PROVE  /\ WeakenEdges(raw, v) \in Vertex
           /\ WeakenEdges(raw, v).result = v.result
           /\ WeakenEdges(raw, v).files = v.files
           /\ WeakenEdges(raw, v).run = v.run
<1>. DEFINE CallsVariant(f) == \E s \in Side : \E e \in v.calls[s] : e.to = f /\ e.variant
            Weakened(e) == /\ CallsVariant(e.to)
                           /\ Variant(e.to) \in DOMAIN raw
                           /\ raw[Variant(e.to)].result = "equal"
            Weak(s) == {[e EXCEPT !.weak = @ \/ Weakened(e)] : e \in v.calls[s]}
<1>1. ASSUME NEW s \in Side
      PROVE  Weak(s) \subseteq Edge
  <2>1. v.calls[s] \subseteq Edge
    BY DEF Vertex
  <2>2. ASSUME NEW e \in Edge
        PROVE  [e EXCEPT !.weak = @ \/ Weakened(e)] \in Edge
    BY DEF Edge
  <2>. QED
    BY <2>1, <2>2
<1>2. [L |-> Weak("L"), R |-> Weak("R")] \in [Side -> SUBSET Edge]
  BY <1>1, SidesType DEF Side
<1>3. WeakenEdges(raw, v) = [v EXCEPT !.calls = [L |-> Weak("L"), R |-> Weak("R")]]
  BY DEF WeakenEdges
<1>. QED
  BY <1>2, <1>3 DEF Vertex

\* The normalised graph has the functions of the pairs; a vertex comes from
\* that of the strong pair if there is one, else from that of the variant.
LEMMA NormalizeType ==
    ASSUME NEW raw, DOMAIN raw \subseteq Pairs, raw \in [DOMAIN raw -> Vertex]
    PROVE  /\ IsGraph(Normalize(raw))
           /\ DOMAIN Normalize(raw) = {p.fun : p \in DOMAIN raw}
           /\ \A f \in DOMAIN Normalize(raw) :
                 LET n == Normalize(raw)[f]
                     s == raw[Strong(f)]
                     v == raw[Variant(f)]
                 IN  IF Strong(f) \in DOMAIN raw
                     THEN n.result = s.result /\ n.files = s.files /\ n.run = s.run
                     ELSE /\ Variant(f) \in DOMAIN raw
                          /\ n.result = IF v.result = "equal" THEN "assumed_equal" ELSE v.result
                          /\ n.files = v.files /\ n.run = v.run
<1>1. ASSUME NEW f \in Funs, NEW p \in DOMAIN raw, p.fun = f
      PROVE  p = Strong(f) \/ p = Variant(f)
  BY <1>1 DEF Pairs, Strong, Variant
<1>2. ASSUME NEW v \in Vertex
      PROVE  /\ Strengthen(v) \in Vertex
             /\ Strengthen(v).result = IF v.result = "equal" THEN "assumed_equal" ELSE v.result
             /\ Strengthen(v).files = v.files
             /\ Strengthen(v).run = v.run
  BY DEF Strengthen, Vertex, Verdicts
<1>3. {p.fun : p \in DOMAIN raw} \subseteq Funs
  BY DEF Pairs
<1>4. ASSUME NEW f \in {p.fun : p \in DOMAIN raw}
      PROVE  /\ Normalize(raw)[f] \in Vertex
             /\ LET n == Normalize(raw)[f]
                    s == raw[Strong(f)]
                    v == raw[Variant(f)]
                IN  IF Strong(f) \in DOMAIN raw
                    THEN n.result = s.result /\ n.files = s.files /\ n.run = s.run
                    ELSE /\ Variant(f) \in DOMAIN raw
                         /\ n.result = IF v.result = "equal" THEN "assumed_equal" ELSE v.result
                         /\ n.files = v.files /\ n.run = v.run
  <2>1. CASE Strong(f) \in DOMAIN raw
    <3>1. Normalize(raw)[f] = WeakenEdges(raw, raw[Strong(f)])
      BY <2>1 DEF Normalize
    <3>2. raw[Strong(f)] \in Vertex
      BY <2>1
    <3>. QED
      BY <2>1, <3>1, <3>2, WeakenType
  <2>2. CASE Strong(f) \notin DOMAIN raw
    <3>1. Variant(f) \in DOMAIN raw
      BY <1>1, <1>3, <2>2
    <3>2. Normalize(raw)[f] = Strengthen(WeakenEdges(raw, raw[Variant(f)]))
      BY <2>2 DEF Normalize
    <3>3. raw[Variant(f)] \in Vertex
      BY <3>1
    <3>. DEFINE w == WeakenEdges(raw, raw[Variant(f)])
    <3>4. /\ w \in Vertex
          /\ w.result = raw[Variant(f)].result
          /\ w.files = raw[Variant(f)].files
          /\ w.run = raw[Variant(f)].run
      BY <3>3, WeakenType
    <3>. HIDE DEF w
    <3>. QED
      BY <1>2, <2>2, <3>1, <3>2, <3>4 DEF w
  <2>. QED
    BY <2>1, <2>2
<1>. QED
  BY <1>3, <1>4 DEF Normalize, IsGraph

-----------------------------------------------------------------------------
(* What a run of SimpLL returns. *)

\* The pairs SimpLL compares contain the main one.
LEMMA ComparedPairsType ==
    ASSUME NEW P \in Program, NEW main \in Funs, NEW ln, NEW cached
    PROVE  /\ ComparedPairs(P, main, ln, cached) \subseteq Pairs
           /\ Strong(main) \in ComparedPairs(P, main, ln, cached)
<1>. DEFINE Calls == UNION {{<<p, q>> : q \in Callees(P, main, ln, cached, p)} : p \in Pairs}
<1>1. Strong(main) \in Pairs
  BY DEF Strong, Pairs
<1>2. ASSUME NEW p \in Pairs
      PROVE  Callees(P, main, ln, cached, p) \subseteq Pairs
  BY DEF Callees, Program
<1>3. \A r \in Calls : r[2] \in Pairs
  BY <1>2
<1>4. Closure(Strong(main), Calls) \subseteq Pairs
  BY <1>1, <1>3, ClosureType
<1>5. Strong(main) \in Closure(Strong(main), Calls)
  BY DEF Closure
<1>. QED
  BY <1>4, <1>5 DEF ComparedPairs

\* The files reported for a function are source files, or none.
LEMMA FilesOfType ==
    ASSUME NEW P \in Program, NEW main, NEW ln, NEW f \in Funs
    PROVE  FilesOf(P, main, ln, f) \in [Side -> Files \cup {NoFile}]
BY DEF FilesOf, Program

\* The edges of a pair are edges.
LEMMA CallsOnType ==
    ASSUME NEW P \in Program, NEW s \in Side, NEW p \in Pairs, NEW callees \in SUBSET Pairs
    PROVE  CallsOn(P, s, p, callees) \subseteq Edge
<1>1. ASSUME NEW q \in callees
      PROVE  NameOn(P, s, q) \in Pairs
  BY DEF NameOn, Pairs
<1>2. ASSUME NEW n \in Pairs
      PROVE  [to |-> n.fun, variant |-> n.void, weak |-> n \in P.inlined[p][s]] \in Edge
  BY DEF Pairs, Edge
<1>. QED
  BY <1>1, <1>2 DEF CallsOn

\* The vertices SimpLL reports, before normalisation.
LEMMA RawGraphType ==
    ASSUME NEW P \in Program, NEW main \in Funs, NEW ln, NEW cached, NEW run \in Nat
    PROVE  LET raw == RawGraph(P, main, ln, cached, run)
           IN  /\ DOMAIN raw = ComparedPairs(P, main, ln, cached)
               /\ raw \in [DOMAIN raw -> Vertex]
               /\ \A p \in DOMAIN raw :
                    /\ raw[p].result = PairVerdict(P, main, ln, cached, p)
                    /\ raw[p].files = FilesOf(P, main, ln, p.fun)
                    /\ raw[p].run = run
<1>. DEFINE C(p) == Callees(P, main, ln, cached, p)
            V(p) == [result   |-> PairVerdict(P, main, ln, cached, p),
                     files    |-> FilesOf(P, main, ln, p.fun),
                     calls    |-> [L |-> CallsOn(P, "L", p, C(p)), R |-> CallsOn(P, "R", p, C(p))],
                     cachable |-> TRUE,
                     run      |-> run,
                     prevents |-> {}]
<1>1. ASSUME NEW p \in Pairs
      PROVE  V(p) \in Vertex
  <2>1. PairVerdict(P, main, ln, cached, p) \in Verdicts
    BY DEF PairVerdict, Verdicts
  <2>2. FilesOf(P, main, ln, p.fun) \in [Side -> Files \cup {NoFile}]
    BY FilesOfType DEF Pairs
  <2>3. C(p) \in SUBSET Pairs
    BY DEF Callees, Program
  <2>4. [L |-> CallsOn(P, "L", p, C(p)), R |-> CallsOn(P, "R", p, C(p))]
            \in [Side -> SUBSET Edge]
    <3>1. CallsOn(P, "L", p, C(p)) \subseteq Edge /\ CallsOn(P, "R", p, C(p)) \subseteq Edge
      BY <2>3, CallsOnType DEF Side
    <3>. QED
      BY <3>1, SidesType
  <2>. QED
    BY <2>1, <2>2, <2>4 DEF Vertex
<1>2. RawGraph(P, main, ln, cached, run) = [p \in ComparedPairs(P, main, ln, cached) |-> V(p)]
  BY DEF RawGraph
<1>. QED
  BY <1>1, <1>2, ComparedPairsType

\* A verdict is definitive only when both bodies were compared: it is then
\* their outcome, and the files reported are those that define the function.
LEMMA PairVerdictMeaning ==
    ASSUME NEW P \in Program, NEW main \in Funs, NEW ln, NEW cached, NEW p \in Pairs
    PROVE  LET r == PairVerdict(P, main, ln, cached, p)
               files == FilesOf(P, main, ln, p.fun)
           IN  /\ r = "equal" => P.equal[p]
               /\ r = "not_equal" => ~P.equal[p]
               /\ r \in Definite => \A s \in Side : files[s] = P.home[s][p.fun]
<1>1. ASSUME HaveBodies(P, main, ln, p.fun), NEW s \in Side
      PROVE  FilesOf(P, main, ln, p.fun)[s] = P.home[s][p.fun]
  BY <1>1 DEF HaveBodies, FilesOf
<1>. QED
  BY <1>1 DEF PairVerdict, Definite

\* The soundness of the verdicts of a graph.
Sound(P, g) ==
    \A f \in DOMAIN g :
        /\ g[f].result = "equal" => P.equal[Strong(f)]
        /\ g[f].result = "not_equal" => ~(P.equal[Strong(f)] /\ P.equal[Variant(f)])
        /\ g[f].result \in Definite => \A s \in Side : g[f].files[s] = P.home[s][f]

\* The graph of a run is a graph with the main function, and is sound.
LEMMA RunGraphType ==
    ASSUME NEW P \in Program, NEW main \in Funs, NEW ln, NEW cached, NEW run \in Nat
    PROVE  LET g == RunGraph(P, main, ln, cached, run)
           IN  /\ IsGraph(g)
               /\ main \in DOMAIN g
               /\ \A f \in DOMAIN g : g[f].run = run
               /\ Sound(P, g)
<1>. DEFINE raw == RawGraph(P, main, ln, cached, run)
            n == Normalize(raw)
            g == MarkUncachable(n)
<1>1. RunGraph(P, main, ln, cached, run) = g
  BY WholeIsIdentity DEF RunGraph
<1>2. /\ DOMAIN raw = ComparedPairs(P, main, ln, cached)
      /\ DOMAIN raw \subseteq Pairs
      /\ Strong(main) \in DOMAIN raw
      /\ raw \in [DOMAIN raw -> Vertex]
      /\ \A p \in DOMAIN raw :
            /\ raw[p].result = PairVerdict(P, main, ln, cached, p)
            /\ raw[p].files = FilesOf(P, main, ln, p.fun)
            /\ raw[p].run = run
  BY RawGraphType, ComparedPairsType
<1>. HIDE DEF raw
<1>3. /\ IsGraph(n)
      /\ DOMAIN n = {p.fun : p \in DOMAIN raw}
      /\ \A f \in DOMAIN n :
            IF Strong(f) \in DOMAIN raw
            THEN /\ n[f].result = raw[Strong(f)].result
                 /\ n[f].files = raw[Strong(f)].files
                 /\ n[f].run = raw[Strong(f)].run
            ELSE /\ Variant(f) \in DOMAIN raw
                 /\ n[f].result = IF raw[Variant(f)].result = "equal" THEN "assumed_equal"
                                  ELSE raw[Variant(f)].result
                 /\ n[f].files = raw[Variant(f)].files
                 /\ n[f].run = raw[Variant(f)].run
  BY <1>2, NormalizeType
<1>. HIDE DEF n
<1>4. /\ IsGraph(g)
      /\ DOMAIN g = DOMAIN n
      /\ \A f \in DOMAIN n : /\ g[f].result = n[f].result
                             /\ g[f].files = n[f].files
                             /\ g[f].run = n[f].run
  BY <1>3, MarkUncachableType
<1>5. main \in DOMAIN n
  BY <1>2, <1>3 DEF Strong
<1>6. ASSUME NEW f \in DOMAIN n
      PROVE  /\ n[f].run = run
             /\ n[f].result = "equal" => P.equal[Strong(f)]
             /\ n[f].result = "not_equal" => ~(P.equal[Strong(f)] /\ P.equal[Variant(f)])
             /\ n[f].result \in Definite => \A s \in Side : n[f].files[s] = P.home[s][f]
  <2>1. CASE Strong(f) \in DOMAIN raw
    <3>1. Strong(f) \in Pairs /\ Strong(f).fun = f
      BY <1>2, <2>1 DEF Strong
    <3>. QED
      BY <1>2, <1>3, <2>1, <3>1, PairVerdictMeaning
  <2>2. CASE Strong(f) \notin DOMAIN raw
    <3>1. Variant(f) \in Pairs /\ Variant(f).fun = f /\ Variant(f) \in DOMAIN raw
      BY <1>2, <1>3, <2>2 DEF Variant
    <3>. QED
      BY <1>2, <1>3, <2>2, <3>1, PairVerdictMeaning DEF Definite
  <2>. QED
    BY <2>1, <2>2
<1>. HIDE DEF g
<1>. QED
  BY <1>1, <1>4, <1>5, <1>6 DEF Sound

-----------------------------------------------------------------------------
(* The steps of a session. *)

\* Every vertex of the absorbed graph has the result, the files, the calls and
\* the run of a vertex of one of the two graphs: that of the new one exactly
\* where it replaces.
LEMMA AbsorbType ==
    ASSUME NEW g, IsGraph(g), NEW new, IsGraph(new)
    PROVE  /\ IsGraph(Absorb(g, new))
           /\ DOMAIN Absorb(g, new) = DOMAIN g \cup DOMAIN new
           /\ \A f \in DOMAIN Absorb(g, new) :
                LET v == Absorb(g, new)[f]
                IN  IF f \in Replaced(g, new)
                    THEN f \in DOMAIN new /\ v = new[f]
                    ELSE /\ f \in DOMAIN g
                         /\ v.result = g[f].result /\ v.files = g[f].files
                         /\ v.calls = g[f].calls /\ v.run = g[f].run
<1>1. ASSUME NEW f \in DOMAIN g \cup DOMAIN new
      PROVE  LET v == Absorb(g, new)[f]
             IN  /\ v \in Vertex
                 /\ IF f \in Replaced(g, new)
                    THEN f \in DOMAIN new /\ v = new[f]
                    ELSE /\ f \in DOMAIN g
                         /\ v.result = g[f].result /\ v.files = g[f].files
                         /\ v.calls = g[f].calls /\ v.run = g[f].run
  <2>1. CASE f \in Replaced(g, new)
    BY <2>1 DEF Absorb, Replaced, IsGraph
  <2>2. CASE f \notin Replaced(g, new)
    <3>1. f \in DOMAIN g /\ g[f] \in Vertex
      BY <2>2 DEF Replaced, IsGraph
    <3>. DEFINE b == g[f].cachable \/ \E u \in Settled(g, new) :
                                        f \in g[u].prevents /\ g[f].run = g[u].run
    <3>2. Absorb(g, new)[f] = [g[f] EXCEPT !.cachable = b]
      BY <2>2 DEF Absorb
    <3>3. b \in BOOLEAN
      BY <3>1 DEF Vertex
    <3>. HIDE DEF b
    <3>. QED
      BY <2>2, <3>1, <3>2, <3>3 DEF Vertex
  <2>. QED
    BY <2>1, <2>2
<1>. QED
  BY <1>1 DEF Absorb, IsGraph

\* Updating the cache adds lines, of cachable functions with a definitive result.
LEMMA UpdateCacheType ==
    ASSUME NEW c, IsABag(c), BagToSet(c) \subseteq CacheKey, NEW g, IsGraph(g)
    PROVE  /\ IsABag(UpdateCache(c, g))
           /\ BagToSet(UpdateCache(c, g)) \subseteq CacheKey
           /\ \A k \in BagToSet(UpdateCache(c, g)) :
                k \in BagToSet(c) \/ \E f \in Definitive(g) : g[f].cachable /\ k = KeyOf(g, f)
<1>. DEFINE new == {KeyOf(g, f) : f \in {h \in Definitive(g) : g[h].cachable}}
<1>1. new \subseteq CacheKey
  BY DEF KeyOf, Definitive, CacheKey, IsGraph, Vertex
<1>2. \A k \in new : \E f \in Definitive(g) : g[f].cachable /\ k = KeyOf(g, f)
  OBVIOUS
<1>3. UpdateCache(c, g) = c (+) SetToBag(new)
  BY DEF UpdateCache
<1>. HIDE DEF new
<1>4. BagToSet(c (+) SetToBag(new)) = BagToSet(c) \cup new
  BY DEF BagToSet, SetToBag, (+)
<1>5. ASSUME NEW k \in DOMAIN c \cup new
      PROVE  (c (+) SetToBag(new))[k] \in {n \in Nat : n > 0}
  BY DEF IsABag, SetToBag, (+)
<1>6. IsABag(c (+) SetToBag(new))
  BY <1>5 DEF IsABag, SetToBag, (+)
<1>. QED
  BY <1>1, <1>2, <1>3, <1>4, <1>6

\* The report about a function is a result.
LEMMA ReportType ==
    ASSUME NEW g, IsGraph(g), NEW f
    PROVE  Report(g, f) \in Result
<1>. DEFINE pairs == FunPairs(g, f)
<1>1. ASSUME NEW h \in pairs
      PROVE  g[h].result \in Kinds
  <2>1. g[h] \in Vertex /\ g[h].result \notin {"equal", "assumed_equal"}
    BY DEF FunPairs, IsGraph
  <2>. QED
    BY <2>1 DEF Vertex, Verdicts, Kinds
<1>. HIDE DEF pairs
<1>2. [h \in Funs |-> IF h \in pairs THEN g[h].result ELSE "none"] \in [Funs -> Kinds]
  BY <1>1 DEF Kinds
<1>. QED
  BY <1>2 DEF Report, Result, Kinds, pairs

\* What SimpLL misses are definitions, and linking them adds source files.
LEMMA MissingDefsType ==
    ASSUME NEW P \in Program, NEW main \in Funs, NEW ln, NEW cached
    PROVE  MissingDefs(P, main, ln, cached) \subseteq MissingDef
BY DEF MissingDefs

\* Initially, and after every step, the variables have their types.
LEMMA InitType == Init => TypeOK
<1>. SUFFICES ASSUME Init PROVE TypeOK
  OBVIOUS
<1>1. prog \in Program
  BY ProgramsAssumption DEF Init
<1>2. IsGraph(EmptyGraph)
  BY DEF IsGraph, EmptyGraph
<1>3. IsABag(EmptyBag) /\ BagToSet(EmptyBag) \subseteq CacheKey
  BY DEF IsABag, EmptyBag, SetToBag, BagToSet
<1>4. NoResult \in Result
  BY DEF NoResult, NoInner, Result, Kinds
<1>. QED
  BY <1>1, <1>2, <1>3, <1>4 DEF Init, TypeOK

LEMMA NextType == TypeOK /\ [Next]_vars => TypeOK'
<1>. SUFFICES ASSUME TypeOK, [Next]_vars
              PROVE  TypeOK'
  OBVIOUS
<1>. USE DEF TypeOK
<1>0. todo \subseteq Funs
  BY DEF Program
<1>k. ASSUME NEW f, NEW k \in Kinds
      PROVE  [results EXCEPT ![f].kind = k] \in [Funs -> Result]
  BY DEF Result
<1>1. CASE SkipAbsent
  BY <1>1 DEF SkipAbsent
<1>2. CASE ReportUnknown
  <2>1. PICK f \in todo : todo' = todo \ {f} /\ results' = [results EXCEPT ![f].kind = "unknown"]
    BY <1>2 DEF ReportUnknown
  <2>2. results' \in [Funs -> Result]
    BY <2>1, <1>k DEF Kinds
  <2>. QED
    BY <1>2, <2>1, <2>2 DEF ReportUnknown
<1>3. CASE StartDiff
  <2>1. IsGraph(EmptyGraph)
    BY DEF IsGraph, EmptyGraph
  <2>. QED
    BY <1>0, <1>3, <2>1 DEF StartDiff
<1>4. CASE ReuseGraph
  BY <1>4 DEF ReuseGraph
<1>5. CASE RunSimpLL
  <2>1. PICK f \in cur : /\ curr' = RunGraph(prog, f, linked, Cached, runs)
                         /\ missing' = MissingDefs(prog, f, linked, Cached)
    BY <1>5 DEF RunSimpLL
  <2>2. IsGraph(curr') /\ missing' \subseteq MissingDef
    BY <2>1, RunGraphType, MissingDefsType
  <2>3. runs' \in Nat
    BY <1>5 DEF RunSimpLL
  <2>. QED
    BY <1>5, <2>2, <2>3 DEF RunSimpLL
<1>6. CASE SimpLLFails
  <2>1. PICK f \in cur : results' = [results EXCEPT ![f].kind = "error"]
    BY <1>6 DEF SimpLLFails
  <2>2. results' \in [Funs -> Result]
    BY <2>1, <1>k DEF Kinds
  <2>3. IsGraph(graph')
    BY <1>6 DEF SimpLLFails
  <2>. QED
    BY <1>6, <2>2, <2>3 DEF SimpLLFails
<1>7. CASE LinkDef
  <2>1. linked' \subseteq Link
    BY <1>7 DEF LinkDef, NewLinks
  <2>2. missing' \subseteq MissingDef
    BY <1>7 DEF LinkDef
  <2>. QED
    BY <1>7, <2>1, <2>2 DEF LinkDef
<1>8. CASE LinkDefFails
  BY <1>8 DEF LinkDefFails
<1>9. CASE Rerun
  BY <1>9 DEF Rerun
<1>10. CASE MergeGraph
  <2>1. CASE graph = EmptyGraph
    BY <1>10, <2>1 DEF MergeGraph
  <2>2. CASE graph # EmptyGraph
    <3>1. /\ graph' = Absorb(graph, curr)
          /\ curr' = graph'
          /\ cache' = UpdateCache(cache, graph')
      BY <1>10, <2>2 DEF MergeGraph
    <3>2. IsGraph(graph')
      BY <3>1, AbsorbType
    <3>3. IsABag(cache') /\ BagToSet(cache') \subseteq CacheKey
      BY <3>1, <3>2, UpdateCacheType
    <3>. QED
      BY <1>10, <3>1, <3>2, <3>3 DEF MergeGraph
  <2>. QED
    BY <2>1, <2>2
<1>11. CASE ReportResult
  <2>1. PICK f \in cur : results' = [results EXCEPT ![f] = Report(curr, f)]
    BY <1>11 DEF ReportResult
  <2>2. results' \in [Funs -> Result]
    BY <2>1, ReportType
  <2>. QED
    BY <1>11, <2>2 DEF ReportResult
<1>12. CASE Done \/ UNCHANGED vars
  BY <1>12 DEF Done, vars
<1>. QED
  BY <1>1, <1>2, <1>3, <1>4, <1>5, <1>6, <1>7, <1>8, <1>9, <1>10, <1>11, <1>12 DEF Next

\* The variables always have their types.
THEOREM TypeCorrect == Spec => []TypeOK
<1>. QED
  BY InitType, NextType, PTL DEF Spec

-----------------------------------------------------------------------------
(* The verdicts of the graph are sound: so are those of the graph of the    *)
(* run in progress, and absorbing the one into the other keeps them.        *)

LEMMA AbsorbSound ==
    ASSUME NEW P, NEW g, IsGraph(g), NEW new, IsGraph(new), Sound(P, g), Sound(P, new)
    PROVE  Sound(P, Absorb(g, new))
<1>. DEFINE a == Absorb(g, new)
<1>0. \A f \in DOMAIN a :
        IF f \in Replaced(g, new)
        THEN f \in DOMAIN new /\ a[f] = new[f]
        ELSE /\ f \in DOMAIN g
             /\ a[f].result = g[f].result /\ a[f].files = g[f].files
             /\ a[f].calls = g[f].calls /\ a[f].run = g[f].run
  BY AbsorbType
<1>. HIDE DEF a
<1>1. ASSUME NEW f \in DOMAIN a
      PROVE  \/ f \in DOMAIN new /\ a[f].result = new[f].result /\ a[f].files = new[f].files
             \/ f \in DOMAIN g /\ a[f].result = g[f].result /\ a[f].files = g[f].files
  BY <1>0
<1>2. Sound(P, a)
  BY <1>1 DEF Sound
<1>. QED
  BY <1>2 DEF a

SoundInv == Sound(prog, graph) /\ Sound(prog, curr)

LEMMA InitSound == Init => SoundInv
BY DEF Init, SoundInv, Sound, EmptyGraph

LEMMA NextSound == TypeOK /\ SoundInv /\ [Next]_vars => SoundInv'
<1>. SUFFICES ASSUME TypeOK, SoundInv, [Next]_vars
              PROVE  SoundInv'
  OBVIOUS
<1>1. prog' = prog
  BY DEF Next, vars, SkipAbsent, ReportUnknown, StartDiff, ReuseGraph, RunSimpLL, SimpLLFails,
         LinkDef, LinkDefFails, Rerun, MergeGraph, ReportResult, Done
<1>2. Sound(prog, EmptyGraph)
  BY DEF Sound, EmptyGraph
<1>3. CASE RunSimpLL
  <2>1. PICK f \in cur : curr' = RunGraph(prog, f, linked, Cached, runs)
    BY <1>3 DEF RunSimpLL
  <2>2. Sound(prog, curr')
    BY <2>1, RunGraphType DEF TypeOK
  <2>. QED
    BY <1>1, <1>3, <2>2 DEF RunSimpLL, SoundInv
<1>4. CASE MergeGraph
  <2>1. CASE graph = EmptyGraph
    BY <1>1, <1>4, <2>1 DEF MergeGraph, SoundInv
  <2>2. CASE graph # EmptyGraph
    <3>1. graph' = Absorb(graph, curr) /\ curr' = graph'
      BY <1>4, <2>2 DEF MergeGraph
    <3>2. Sound(prog, graph')
      BY <3>1, AbsorbSound DEF SoundInv, TypeOK
    <3>. QED
      BY <1>1, <3>1, <3>2 DEF SoundInv
  <2>. QED
    BY <2>1, <2>2
<1>5. CASE UNCHANGED <<graph, curr>>
  BY <1>1, <1>5 DEF SoundInv
<1>6. CASE StartDiff
  BY <1>1, <1>2, <1>6 DEF StartDiff, SoundInv
<1>7. CASE ReuseGraph \/ SimpLLFails \/ ReportResult
  BY <1>1, <1>7 DEF ReuseGraph, SimpLLFails, ReportResult, SoundInv
<1>. QED
  BY <1>3, <1>4, <1>5, <1>6, <1>7
     DEF Next, vars, SkipAbsent, ReportUnknown, LinkDef, LinkDefFails, Rerun, Done

\* Whatever fails and whatever is linked, cached or folded, a verdict in the
\* graph of the session is one that comparing the bodies of the function, or
\* of its variant, gives, for the files that define it.
THEOREM VerdictsAreSound == Spec => []VerdictsSound
<1>1. SoundInv => VerdictsSound
  BY DEF SoundInv, Sound, VerdictsSound
<1>. QED
  BY <1>1, InitType, NextType, InitSound, NextSound, PTL DEF Spec

-----------------------------------------------------------------------------
(* The measure of SessionProgresses: the files still to be linked count for *)
(* an iteration each, the functions still to be compared for as many        *)
(* iterations as there are files, and one.                                  *)

\* There are finitely many files to link and definitions to miss.
LEMMA LinkFinite == IsFiniteSet(Link)
<1>. DEFINE Tuples == Side \X CFiles
            F == [t \in Tuples |-> [side |-> t[1], file |-> t[2]]]
<1>1. IsFiniteSet({"L"} \cup {"R"}) /\ Side = {"L"} \cup {"R"}
  BY FS_Singleton, FS_Union DEF Side
<1>2. IsFiniteSet(Tuples)
  BY <1>1, FilesAssumption, FS_Product
<1>3. F \in Surjection(Tuples, Link)
  <2>1. F \in [Tuples -> Link]
    BY DEF Link
  <2>2. ASSUME NEW l \in Link
        PROVE  \E t \in Tuples : F[t] = l
    <3>1. <<l.side, l.file>> \in Tuples
      BY DEF Link
    <3>2. F[<<l.side, l.file>>] = l
      BY <3>1 DEF Link
    <3>. QED
      BY <3>1, <3>2
  <2>. QED
    BY <2>1, <2>2 DEF Surjection
<1>. QED
  BY <1>2, <1>3, FS_Surjection

LEMMA MissingDefFinite == IsFiniteSet(MissingDef)
<1>. DEFINE Tuples == Side \X (Funs \X BOOLEAN)
            F == [t \in Tuples |-> [side |-> t[1], fun |-> t[2][1], variant |-> t[2][2]]]
<1>1. /\ IsFiniteSet({"L"} \cup {"R"}) /\ Side = {"L"} \cup {"R"}
      /\ IsFiniteSet({TRUE} \cup {FALSE}) /\ BOOLEAN = {TRUE} \cup {FALSE}
  BY FS_Singleton, FS_Union DEF Side
<1>2. IsFiniteSet(Tuples)
  BY <1>1, FunsAssumption, FS_Product
<1>3. F \in Surjection(Tuples, MissingDef)
  <2>1. F \in [Tuples -> MissingDef]
    BY DEF MissingDef
  <2>2. ASSUME NEW d \in MissingDef
        PROVE  \E t \in Tuples : F[t] = d
    <3>1. <<d.side, <<d.fun, d.variant>>>> \in Tuples
      BY DEF MissingDef
    <3>2. F[<<d.side, <<d.fun, d.variant>>>>] = d
      BY <3>1 DEF MissingDef
    <3>. QED
      BY <3>1, <3>2
  <2>. QED
    BY <2>1, <2>2 DEF Surjection
<1>. QED
  BY <1>2, <1>3, FS_Surjection

\* The counts of the measure are natural numbers.
LEMMA CountsType ==
    TypeOK => /\ IsFiniteSet(todo) /\ Cardinality(todo) \in Nat
              /\ IsFiniteSet(missing) /\ Cardinality(missing) \in 0..Cardinality(MissingDef)
              /\ IsFiniteSet(Link \ linked)
              /\ Cardinality(Link \ linked) \in 0..Cardinality(Link)
<1>. SUFFICES ASSUME TypeOK
              PROVE  /\ IsFiniteSet(todo) /\ Cardinality(todo) \in Nat
                     /\ IsFiniteSet(missing)
                     /\ Cardinality(missing) \in 0..Cardinality(MissingDef)
                     /\ IsFiniteSet(Link \ linked)
                     /\ Cardinality(Link \ linked) \in 0..Cardinality(Link)
  OBVIOUS
<1>1. todo \subseteq Funs /\ missing \subseteq MissingDef
  BY DEF TypeOK, Program
<1>2. IsFiniteSet(todo) /\ IsFiniteSet(missing) /\ IsFiniteSet(Link \ linked)
  BY <1>1, FunsAssumption, LinkFinite, MissingDefFinite, FS_Subset
<1>3. Cardinality(missing) <= Cardinality(MissingDef)
  BY <1>1, MissingDefFinite, FS_Subset
<1>4. Cardinality(Link \ linked) <= Cardinality(Link)
  BY LinkFinite, FS_Subset
<1>. QED
  BY <1>2, <1>3, <1>4, LinkFinite, MissingDefFinite, FS_CardinalityType

LEMMA CountsTypeNext ==
    (TypeOK => /\ IsFiniteSet(todo) /\ Cardinality(todo) \in Nat
               /\ IsFiniteSet(missing) /\ Cardinality(missing) \in 0..Cardinality(MissingDef)
               /\ IsFiniteSet(Link \ linked)
               /\ Cardinality(Link \ linked) \in 0..Cardinality(Link))'
BY CountsType, PTL

\* Removing an element lowers a count.
LEMMA OneLess ==
    ASSUME NEW S, IsFiniteSet(S), NEW x \in S
    PROVE  Cardinality(S) > 0 /\ Cardinality(S \ {x}) = Cardinality(S) - 1
<1>1. Cardinality(S \ {x}) = Cardinality(S) - 1 /\ Cardinality(S \ {x}) \in Nat
  BY FS_RemoveElement, FS_CardinalityType
<1>. QED
  BY <1>1, FS_CardinalityType

\* Fewer of something, each of which counts for c, leave room for c more.
LEMMA RoomForOneMore ==
    ASSUME NEW a \in Nat, NEW b \in Nat, a < b, NEW c \in Nat
    PROVE  /\ a * c \in Nat /\ b * c \in Nat
           /\ a * c + c <= b * c
<1>. DEFINE k == b - (a + 1)
<1>1. k \in Nat /\ b = a + 1 + k
  OBVIOUS
<1>. HIDE DEF k
<1>2. b * c = a * c + c + k * c
  BY <1>1
<1>3. a * c \in Nat /\ k * c \in Nat /\ b * c \in Nat
  BY <1>1
<1>. QED
  BY <1>2, <1>3

\* What the measure is made of.
Session == (Cardinality(Link) + 1) * Iteration + 1

LEMMA UnitsType ==
    /\ Cardinality(Link) \in Nat /\ Cardinality(MissingDef) \in Nat
    /\ Iteration \in Nat /\ Iteration = Cardinality(MissingDef) + 4
    /\ Session \in Nat
    /\ Session = Cardinality(Link) * Iteration + Iteration + 1
<1>1. /\ Cardinality(Link) \in Nat /\ Cardinality(MissingDef) \in Nat
      /\ Iteration \in Nat /\ Iteration = Cardinality(MissingDef) + 4
  BY LinkFinite, MissingDefFinite, FS_CardinalityType DEF Iteration
<1>2. Session = Cardinality(Link) * Iteration + Iteration + 1
  BY <1>1 DEF Session
<1>3. Cardinality(Link) * Iteration \in Nat
  BY <1>1
<1>. QED
  BY <1>1, <1>2, <1>3

\* The measure in each phase, where n is what the functions still to be compared
\* account for, l the files not linked yet, m the definitions to be looked up.
MeasureIs(n, l, m) ==
    /\ pc = "next" => StepsLeft = n
    /\ pc = "report" => StepsLeft = n + 1
    /\ pc = "link" => StepsLeft = n + (IF relink THEN l + 1 ELSE l) * Iteration + m + 2
    /\ pc = "simplify" => StepsLeft = n + l * Iteration + Iteration - 1

LEMMA Measure ==
    TypeOK => MeasureIs(Cardinality(todo) * Session, Cardinality(Link \ linked),
                        Cardinality(missing))
<1>. SUFFICES ASSUME TypeOK
              PROVE  MeasureIs(Cardinality(todo) * Session, Cardinality(Link \ linked),
                               Cardinality(missing))
  OBVIOUS
<1>. DEFINE l == Cardinality(Link \ linked)
<1>1. l \in Nat /\ Iteration \in Nat /\ Session \in Nat
  BY CountsType, UnitsType
<1>2. Cardinality(todo) * Session \in Nat /\ Cardinality(missing) \in Nat
  BY CountsType, UnitsType
<1>3. l * Iteration \in Nat /\ (l + 1) * Iteration \in Nat
  BY <1>1
<1>4. relink \in BOOLEAN
  BY DEF TypeOK
<1>5. FilesLeft = IF pc = "link" /\ relink THEN l + 1 ELSE l
  BY <1>1 DEF FilesLeft
<1>. DEFINE n == Cardinality(todo) * Session
            m == Cardinality(missing)
<1>6. StepsLeft = n + (CASE pc = "next"     -> 0
                         [] pc = "report"   -> 1
                         [] pc = "link"     -> FilesLeft * Iteration + m + 2
                         [] pc = "simplify" -> FilesLeft * Iteration + Iteration - 1)
  BY DEF StepsLeft, Session
<1>. HIDE DEF n, l, m
<1>7. n \in Nat /\ m \in Nat
  BY <1>2 DEF n, m
<1>8. pc = "next" => StepsLeft = n
  BY <1>6, <1>7
<1>9. pc = "report" => StepsLeft = n + 1
  BY <1>6, <1>7
<1>10. pc = "link" => StepsLeft = n + (IF relink THEN l + 1 ELSE l) * Iteration + m + 2
  BY <1>1, <1>3, <1>5, <1>6, <1>7
<1>11. pc = "simplify" => StepsLeft = n + l * Iteration + Iteration - 1
  BY <1>1, <1>3, <1>5, <1>6, <1>7
<1>. QED
  BY <1>8, <1>9, <1>10, <1>11 DEF MeasureIs, n, l, m

LEMMA MeasureNext ==
    (TypeOK => MeasureIs(Cardinality(todo) * Session, Cardinality(Link \ linked),
                         Cardinality(missing)))'
BY Measure, PTL

\* Every step of a session but Done's lowers the measure.
LEMMA StepProgresses ==
    ASSUME TypeOK, TypeOK', Next
    PROVE  StepsLeft' < StepsLeft \/ UNCHANGED vars
<1>. DEFINE n == Cardinality(todo) * Session
            l == Cardinality(Link \ linked)
            m == Cardinality(missing)
            F == Cardinality(Link)
            D == Cardinality(MissingDef)
            nn == Cardinality(todo') * Session
            ll == Cardinality(Link \ linked')
            mm == Cardinality(missing')
<1>1. /\ n \in Nat /\ l \in 0..F /\ m \in 0..D /\ nn \in Nat /\ ll \in 0..F /\ mm \in 0..D
      /\ l \in Nat /\ ll \in Nat /\ m \in Nat /\ mm \in Nat
      /\ F \in Nat /\ D \in Nat /\ Iteration \in Nat /\ Iteration = D + 4
  <2>1. Cardinality(todo) \in Nat /\ l \in 0..F /\ m \in 0..D
    BY CountsType
  <2>2. Cardinality(todo') \in Nat /\ ll \in 0..F /\ mm \in 0..D
    BY CountsTypeNext
  <2>. QED
    BY <2>1, <2>2, UnitsType
<1>2. /\ pc = "next" => StepsLeft = n
      /\ pc = "report" => StepsLeft = n + 1
      /\ pc = "link" => StepsLeft = n + (IF relink THEN l + 1 ELSE l) * Iteration + m + 2
      /\ pc = "simplify" => StepsLeft = n + l * Iteration + Iteration - 1
  BY Measure DEF MeasureIs
<1>3. /\ pc' = "next" => StepsLeft' = nn
      /\ pc' = "report" => StepsLeft' = nn + 1
      /\ pc' = "link" => StepsLeft' = nn + (IF relink' THEN ll + 1 ELSE ll) * Iteration + mm + 2
      /\ pc' = "simplify" => StepsLeft' = nn + ll * Iteration + Iteration - 1
  BY MeasureNext DEF MeasureIs
<1>4. l * Iteration \in Nat /\ (l + 1) * Iteration \in Nat /\ (l + 1) * Iteration = l * Iteration + Iteration
  BY <1>1
<1>5. relink \in BOOLEAN /\ relink' \in BOOLEAN
  BY DEF TypeOK
<1>6. ASSUME NEW f \in todo, todo' = todo \ {f}
      PROVE  nn + F * Iteration + Iteration + 1 <= n
  <2>1. Cardinality(todo') < Cardinality(todo) /\ Cardinality(todo) \in Nat /\ Cardinality(todo') \in Nat
    BY <1>6, OneLess, CountsType, CountsTypeNext
  <2>2. nn + Session <= n
    BY <2>1, RoomForOneMore, UnitsType
  <2>3. F * Iteration \in Nat
    BY <1>1
  <2>. QED
    BY <2>2, <2>3, <1>1, UnitsType
<1>7. F * Iteration \in Nat
  BY <1>1
<1>. HIDE DEF n, l, m, F, D, nn, ll, mm
<1>8. CASE SkipAbsent \/ ReportUnknown
  <2>1. PICK f \in todo : todo' = todo \ {f}
    BY <1>8 DEF SkipAbsent, ReportUnknown
  <2>2. pc = "next" /\ pc' = "next"
    BY <1>8 DEF SkipAbsent, ReportUnknown
  <2>. QED
    BY <2>1, <2>2, <1>1, <1>2, <1>3, <1>6, <1>7
<1>9. CASE StartDiff
  <2>1. PICK f \in todo : todo' = todo \ {f}
    BY <1>9 DEF StartDiff
  <2>2. pc = "next" /\ pc' = "simplify" /\ linked' = {}
    BY <1>9 DEF StartDiff
  <2>3. ll = F
    <3>1. Link \ linked' = Link
      BY <2>2
    <3>. QED
      BY <3>1 DEF ll, F
  <2>. QED
    BY <2>1, <2>2, <2>3, <1>1, <1>2, <1>3, <1>6, <1>7
<1>10. CASE ReuseGraph \/ SimpLLFails \/ MergeGraph \/ ReportResult
  <2>1. todo' = todo
    BY <1>10, Zenon DEF ReuseGraph, SimpLLFails, MergeGraph, ReportResult
  <2>2. nn = n
    BY <2>1 DEF n, nn
  <2>3. \/ pc = "simplify" /\ pc' = "report"
        \/ pc = "simplify" /\ pc' = "next"
        \/ pc = "link" /\ ~relink /\ pc' = "report"
        \/ pc = "report" /\ pc' = "next"
    BY <1>10, Zenon DEF ReuseGraph, SimpLLFails, MergeGraph, ReportResult
  <2>. QED
    BY <2>2, <2>3, <1>1, <1>2, <1>3, <1>4
<1>11. CASE RunSimpLL
  <2>1. nn = n /\ ll = l
    BY <1>11 DEF RunSimpLL, n, nn, l, ll
  <2>2. pc = "simplify" /\ pc' = "link" /\ ~relink'
    BY <1>11 DEF RunSimpLL
  <2>. QED
    BY <2>1, <2>2, <1>1, <1>2, <1>3, <1>4
<1>12. CASE LinkDef
  <2>1. PICK d \in missing :
            /\ missing' = missing \ {d}
            /\ NewLinks(prog, linked, d) # {}
            /\ linked' = linked \cup NewLinks(prog, linked, d)
    BY <1>12 DEF LinkDef
  <2>2. pc = "link" /\ pc' = "link" /\ relink' /\ nn = n
    BY <1>12 DEF LinkDef, n, nn
  <2>3. mm = m - 1
    BY <2>1, OneLess, CountsType DEF m, mm
  <2>4. ll < l
    <3>1. PICK x \in Link \ linked : x \in linked'
      BY <2>1 DEF NewLinks
    <3>2. Link \ linked' \in SUBSET ((Link \ linked) \ {x})
      BY <2>1, <3>1
    <3>3. IsFiniteSet(Link \ linked)
      BY CountsType
    <3>4. IsFiniteSet((Link \ linked) \ {x}) /\ Cardinality((Link \ linked) \ {x}) = l - 1
      BY <3>3, OneLess, FS_RemoveElement DEF l
    <3>5. Cardinality(Link \ linked') <= Cardinality((Link \ linked) \ {x})
      BY <3>2, <3>4, FS_Subset
    <3>. QED
      BY <3>4, <3>5, <1>1 DEF ll
  <2>5. ll * Iteration \in Nat /\ ll * Iteration + Iteration <= l * Iteration
    BY <2>4, <1>1, RoomForOneMore
  <2>6. (ll + 1) * Iteration = ll * Iteration + Iteration
    BY <1>1
  <2>. QED
    BY <2>2, <2>3, <2>5, <2>6, <1>1, <1>2, <1>3, <1>4, <1>5
<1>13. CASE LinkDefFails
  <2>1. PICK d \in missing : missing' = missing \ {d}
    BY <1>13 DEF LinkDefFails
  <2>2. pc = "link" /\ pc' = "link" /\ relink' = relink /\ nn = n /\ ll = l
    BY <1>13 DEF LinkDefFails, n, nn, l, ll
  <2>3. mm = m - 1
    BY <2>1, OneLess, CountsType DEF m, mm
  <2>. QED
    BY <2>2, <2>3, <1>1, <1>2, <1>3, <1>4, <1>5
<1>14. CASE Rerun
  <2>1. nn = n /\ ll = l
    BY <1>14 DEF Rerun, n, nn, l, ll
  <2>2. pc = "link" /\ pc' = "simplify" /\ relink
    BY <1>14 DEF Rerun
  <2>. QED
    BY <2>1, <2>2, <1>1, <1>2, <1>3, <1>4
<1>15. CASE Done
  BY <1>15 DEF Done
<1>. QED
  BY <1>8, <1>9, <1>10, <1>11, <1>12, <1>13, <1>14, <1>15 DEF Next

\* However many definitions are missing and whatever fails, each step brings
\* the session closer to its end: the loop that links what is missing and runs
\* SimpLL again is left, and a session has finitely many steps.
THEOREM SessionAlwaysProgresses == Spec => SessionProgresses
<1>1. TypeOK /\ TypeOK' /\ [Next]_vars => [StepsLeft' < StepsLeft]_vars
  BY StepProgresses
<1>. QED
  BY <1>1, InitType, NextType, PTL DEF Spec, SessionProgresses

-----------------------------------------------------------------------------
(***************************************************************************)
(* Proofs that a session loses no result, and that the cache agrees with   *)
(* its graph, for programs without ".void" variants in sessions where      *)
(* SimpLL does not fail once it has answered.  Both conditions are needed: *)
(* a variant can demote the result of its function, and a failure before   *)
(* the merge leaves a graph that was not merged.                           *)
(***************************************************************************)

\* Every call is a call of the function itself.
CallsNoVariant(P) == \A p \in Pairs : P.calls[p] \subseteq {Strong(f) : f \in Funs}

\* What the comparison of the bodies of f says.
Outcome(P, f) == IF P.equal[Strong(f)] THEN "equal" ELSE "not_equal"

\* A vertex either has the outcome of comparing the two bodies of f, where
\* they are defined, or says nothing and has no calls.
Firm(P, f, v) ==
    IF v.result \in Definite
    THEN v.result = Outcome(P, f) /\ \A s \in Side : v.files[s] = P.home[s][f]
    ELSE \A s \in Side : v.calls[s] = {}

FirmGraph(P, g) == \A f \in DOMAIN g : Firm(P, f, g[f])

-----------------------------------------------------------------------------
(* The graph of a run is firm. *)

\* Without variants only pairs of a function with itself are compared.
LEMMA StrongPairs ==
    ASSUME NEW P \in Program, CallsNoVariant(P), NEW main \in Funs, NEW ln, NEW cached
    PROVE  ComparedPairs(P, main, ln, cached) \subseteq {Strong(f) : f \in Funs}
<1>. DEFINE Calls == UNION {{<<p, q>> : q \in Callees(P, main, ln, cached, p)} : p \in Pairs}
            T == {Strong(f) : f \in Funs}
<1>1. Strong(main) \in T
  OBVIOUS
<1>2. \A r \in Calls : r[2] \in T
  BY DEF Callees, CallsNoVariant
<1>3. Closure(Strong(main), Calls) \subseteq T
  BY <1>1, <1>2, ClosureType
<1>. QED
  BY <1>3 DEF ComparedPairs

\* A vertex without a definitive result has no calls.
LEMMA RawFirm ==
    ASSUME NEW P \in Program, NEW main \in Funs, NEW ln, NEW cached, NEW run \in Nat,
           NEW f \in Funs, Strong(f) \in DOMAIN RawGraph(P, main, ln, cached, run)
    PROVE  Firm(P, f, RawGraph(P, main, ln, cached, run)[Strong(f)])
<1>. DEFINE p == Strong(f)
            v == RawGraph(P, main, ln, cached, run)[p]
            callees == Callees(P, main, ln, cached, p)
<1>1. p.fun = f /\ p \in Pairs
  BY DEF Strong, Pairs
<1>2. /\ v.result = PairVerdict(P, main, ln, cached, p)
      /\ v.files = FilesOf(P, main, ln, f)
      /\ v.calls = [L |-> CallsOn(P, "L", p, callees), R |-> CallsOn(P, "R", p, callees)]
  BY <1>1 DEF RawGraph
<1>. HIDE DEF v
<1>3. CASE HaveBodies(P, main, ln, f) /\ ~IsCached(P, main, ln, cached, p)
  <2>1. v.result = Outcome(P, f)
    BY <1>1, <1>2, <1>3 DEF PairVerdict, Outcome
  <2>2. \A s \in Side : v.files[s] = P.home[s][f]
    BY <1>2, <1>3 DEF HaveBodies, FilesOf
  <2>. QED
    BY <2>1, <2>2 DEF Firm, Outcome, Definite, v
<1>4. CASE ~HaveBodies(P, main, ln, f) \/ IsCached(P, main, ln, cached, p)
  <2>1. v.result \notin Definite
    BY <1>1, <1>2, <1>4 DEF PairVerdict, Definite
  <2>2. callees = {}
    BY <1>1, <1>4 DEF Callees
  <2>3. \A s \in Side : v.calls[s] = {}
    BY <1>2, <2>2 DEF CallsOn, Side
  <2>. QED
    BY <2>1, <2>3 DEF Firm, v
<1>. QED
  BY <1>3, <1>4

\* Normalisation keeps it so.
LEMMA WeakenFirm ==
    ASSUME NEW P, NEW f, NEW raw, NEW v \in Vertex, Firm(P, f, v)
    PROVE  Firm(P, f, WeakenEdges(raw, v))
<1>. DEFINE w == WeakenEdges(raw, v)
<1>1. w.result = v.result /\ w.files = v.files
  BY WeakenType
<1>2. ASSUME \A s \in Side : v.calls[s] = {}
      PROVE  \A s \in Side : w.calls[s] = {}
  BY <1>2 DEF WeakenEdges, Side, Vertex
<1>. HIDE DEF w
<1>3. Firm(P, f, w)
  BY <1>1, <1>2 DEF Firm
<1>. QED
  BY <1>3 DEF w

LEMMA RunGraphFirm ==
    ASSUME NEW P \in Program, CallsNoVariant(P),
           NEW main \in Funs, NEW ln, NEW cached, NEW run \in Nat
    PROVE  FirmGraph(P, RunGraph(P, main, ln, cached, run))
<1>. DEFINE raw == RawGraph(P, main, ln, cached, run)
            n == Normalize(raw)
            g == MarkUncachable(n)
<1>1. RunGraph(P, main, ln, cached, run) = g
  BY WholeIsIdentity DEF RunGraph
<1>2. /\ DOMAIN raw \subseteq {Strong(f) : f \in Funs}
      /\ DOMAIN raw \subseteq Pairs
      /\ raw \in [DOMAIN raw -> Vertex]
  BY RawGraphType, ComparedPairsType, StrongPairs
<1>3. ASSUME NEW f \in Funs, Strong(f) \in DOMAIN raw
      PROVE  Firm(P, f, raw[Strong(f)])
  BY <1>3, RawFirm
<1>. HIDE DEF raw
<1>4. IsGraph(n) /\ DOMAIN n = {p.fun : p \in DOMAIN raw}
  BY <1>2, NormalizeType
<1>5. ASSUME NEW f \in DOMAIN n
      PROVE  Firm(P, f, n[f])
  <2>1. f \in Funs /\ Strong(f) \in DOMAIN raw
    <3>1. PICK p \in DOMAIN raw : p.fun = f
      BY <1>4
    <3>2. PICK h \in Funs : p = Strong(h)
      BY <1>2
    <3>3. h = f
      BY <3>1, <3>2 DEF Strong
    <3>. QED
      BY <3>2, <3>3
  <2>2. n[f] = WeakenEdges(raw, raw[Strong(f)])
    BY <1>4, <2>1 DEF Normalize
  <2>3. raw[Strong(f)] \in Vertex
    BY <1>2, <2>1
  <2>. QED
    BY <1>3, <2>1, <2>2, <2>3, WeakenFirm
<1>. HIDE DEF n
<1>6. /\ DOMAIN g = DOMAIN n
      /\ \A f \in DOMAIN n : /\ g[f].result = n[f].result
                             /\ g[f].files = n[f].files
                             /\ g[f].calls = n[f].calls
  BY <1>4, MarkUncachableType
<1>. HIDE DEF g
<1>7. ASSUME NEW f \in DOMAIN g
      PROVE  Firm(P, f, g[f])
  BY <1>5, <1>6 DEF Firm
<1>. QED
  BY <1>1, <1>7 DEF FirmGraph

-----------------------------------------------------------------------------
(* Absorbing a firm graph. *)

LEMMA EdgeFinite == IsFiniteSet(Edge)
<1>. DEFINE Triples == Funs \X (BOOLEAN \X BOOLEAN)
            F == [t \in Triples |-> [to |-> t[1], variant |-> t[2][1], weak |-> t[2][2]]]
<1>1. IsFiniteSet(BOOLEAN)
  <2>1. IsFiniteSet({TRUE} \cup {FALSE})
    BY FS_Singleton, FS_Union
  <2>2. BOOLEAN = {TRUE} \cup {FALSE}
    OBVIOUS
  <2>. QED
    BY <2>1, <2>2
<1>2. IsFiniteSet(Triples)
  BY <1>1, FunsAssumption, FS_Product
<1>3. F \in Surjection(Triples, Edge)
  <2>1. F \in [Triples -> Edge]
    BY DEF Edge
  <2>2. ASSUME NEW e \in Edge
        PROVE  \E t \in Triples : F[t] = e
    <3>1. <<e.to, <<e.variant, e.weak>>>> \in Triples
      BY DEF Edge
    <3>2. F[<<e.to, <<e.variant, e.weak>>>>] = e
      BY <3>1 DEF Edge
    <3>. QED
      BY <3>1, <3>2
  <2>. QED
    BY <2>1, <2>2 DEF Surjection
<1>. QED
  BY <1>2, <1>3, FS_Surjection

\* A vertex without calls replaces no definitive result.
LEMMA KeepsDefinite ==
    ASSUME NEW P, NEW f, NEW v \in Vertex, NEW w \in Vertex, Firm(P, f, w),
           v.result \in Definite, GivesWay(v, w)
    PROVE  w.result \in Definite
<1>. SUFFICES ASSUME w.result \notin Definite
              PROVE  FALSE
  OBVIOUS
<1>1. \A s \in Side : w.calls[s] = {}
  BY DEF Firm
<1>2. PICK s \in Side : Cardinality(w.calls[s]) > Cardinality(v.calls[s])
  BY DEF GivesWay, Definite
<1>3. v.calls[s] \in SUBSET Edge
  BY DEF Vertex
<1>4. Cardinality(v.calls[s]) \in Nat
  BY <1>3, EdgeFinite, FS_Subset, FS_CardinalityType
<1>5. Cardinality(w.calls[s]) = 0
  BY <1>1, FS_EmptySet
<1>. QED
  BY <1>2, <1>4, <1>5

\* Absorbing keeps the definitive results of a firm graph, and is firm.
LEMMA AbsorbFirm ==
    ASSUME NEW P, NEW g, IsGraph(g), NEW new, IsGraph(new), FirmGraph(P, g), FirmGraph(P, new)
    PROVE  /\ FirmGraph(P, Absorb(g, new))
           /\ \A f \in DOMAIN g :
                g[f].result \in Definite => /\ f \in DOMAIN Absorb(g, new)
                                            /\ Absorb(g, new)[f].result = g[f].result
<1>. DEFINE a == Absorb(g, new)
<1>1. /\ DOMAIN a = DOMAIN g \cup DOMAIN new
      /\ \A f \in DOMAIN a :
           IF f \in Replaced(g, new)
           THEN f \in DOMAIN new /\ a[f] = new[f]
           ELSE /\ f \in DOMAIN g
                /\ a[f].result = g[f].result /\ a[f].files = g[f].files
                /\ a[f].calls = g[f].calls /\ a[f].run = g[f].run
  BY AbsorbType
<1>. HIDE DEF a
<1>2. ASSUME NEW f \in DOMAIN a
      PROVE  Firm(P, f, a[f])
  BY <1>1 DEF FirmGraph, Firm
<1>3. ASSUME NEW f \in DOMAIN g, g[f].result \in Definite
      PROVE  f \in DOMAIN a /\ a[f].result = g[f].result
  <2>1. CASE f \in Replaced(g, new)
    <3>1. f \in DOMAIN new /\ a[f] = new[f] /\ GivesWay(g[f], new[f])
      BY <1>1, <2>1 DEF Replaced
    <3>2. g[f] \in Vertex /\ new[f] \in Vertex
      BY <3>1 DEF IsGraph
    <3>3. new[f].result \in Definite
      BY <1>3, <3>1, <3>2, KeepsDefinite DEF FirmGraph
    <3>. QED
      BY <1>1, <1>3, <3>1, <3>3 DEF FirmGraph, Firm
  <2>2. CASE f \notin Replaced(g, new)
    BY <1>1, <2>2
  <2>. QED
    BY <2>1, <2>2
<1>4. FirmGraph(P, a)
  BY <1>2 DEF FirmGraph
<1>. QED
  BY <1>3, <1>4 DEF a

-----------------------------------------------------------------------------
(* The invariant of the session.                                            *)

\* While SimpLL runs its graph is separate; when it has been merged it is the
\* graph of the session, unless it is the first.  What the cache lists is a
\* definitive result of that graph.
ResultsInv ==
    /\ CallsNoVariant(prog)
    /\ FirmGraph(prog, graph) /\ FirmGraph(prog, curr)
    /\ CacheCoherent
    /\ pc = "report" => graph = curr \/ graph = EmptyGraph

\* The graph changes only by absorbing the graph of a run, or from nothing.
Kept(g, h) == \A f \in DOMAIN g :
                g[f].result \in Definite => f \in DOMAIN h /\ h[f].result = g[f].result

LEMMA KeptSame == \A g : Kept(g, g) /\ Kept(EmptyGraph, g)
BY DEF Kept, EmptyGraph

\* A cache that agrees with a graph agrees with one that keeps its results.
LEMMA KeptCoherent ==
    ASSUME NEW P, NEW g, NEW h, FirmGraph(P, g), IsGraph(h), FirmGraph(P, h), Kept(g, h),
           IsGraph(g), NEW k, k.fun \in DOMAIN g, g[k.fun].result \in Definite,
           g[k.fun].files = k.files
    PROVE  k.fun \in DOMAIN h /\ h[k.fun].result \in Definite /\ h[k.fun].files = k.files
<1>1. k.fun \in DOMAIN h /\ h[k.fun].result \in Definite
  BY DEF Kept
<1>2. \A s \in Side : h[k.fun].files[s] = g[k.fun].files[s]
  BY <1>1 DEF FirmGraph, Firm
<1>3. /\ h[k.fun].files \in [Side -> Files \cup {NoFile}]
      /\ g[k.fun].files \in [Side -> Files \cup {NoFile}]
  BY <1>1 DEF IsGraph, Vertex
<1>4. h[k.fun].files = g[k.fun].files
  BY <1>2, <1>3
<1>. QED
  BY <1>1, <1>4

LEMMA InitResults ==
    ASSUME \A P \in Programs : CallsNoVariant(P)
    PROVE  Init => ResultsInv
<1>. SUFFICES ASSUME Init PROVE ResultsInv
  OBVIOUS
<1>1. FirmGraph(prog, EmptyGraph)
  BY DEF FirmGraph, EmptyGraph
<1>2. CacheCoherent
  BY DEF Init, CacheCoherent, Cached, BagToSet, EmptyBag, SetToBag
<1>. QED
  BY <1>1, <1>2 DEF Init, ResultsInv

\* One step of the session: the graphs stay firm, and the results are kept.
LEMMA NextFirm ==
    ASSUME "rerun" \notin MayFail, TypeOK, ResultsInv, [Next]_vars
    PROVE  /\ prog' = prog
           /\ FirmGraph(prog, graph') /\ FirmGraph(prog, curr')
           /\ Kept(graph, graph')
           /\ pc' = "report" => graph' = curr' \/ graph' = EmptyGraph
<1>. USE DEF ResultsInv
<1>1. prog' = prog
  BY DEF Next, vars, SkipAbsent, ReportUnknown, StartDiff, ReuseGraph, RunSimpLL, SimpLLFails,
         LinkDef, LinkDefFails, Rerun, MergeGraph, ReportResult, Done
<1>2. FirmGraph(prog, EmptyGraph)
  BY DEF FirmGraph, EmptyGraph
<1>3. CASE RunSimpLL
  <2>1. PICK f \in cur : curr' = RunGraph(prog, f, linked, Cached, runs)
    BY <1>3 DEF RunSimpLL
  <2>2. FirmGraph(prog, curr')
    BY <2>1, RunGraphFirm DEF TypeOK
  <2>. QED
    BY <1>1, <1>3, <2>2, KeptSame DEF RunSimpLL
<1>4. CASE MergeGraph
  <2>1. CASE graph = EmptyGraph
    BY <1>1, <1>4, <2>1, KeptSame DEF MergeGraph
  <2>2. CASE graph # EmptyGraph
    <3>1. graph' = Absorb(graph, curr) /\ curr' = graph'
      BY <1>4, <2>2 DEF MergeGraph
    <3>2. FirmGraph(prog, graph') /\ Kept(graph, graph')
      BY <3>1, AbsorbFirm DEF TypeOK, Kept
    <3>. QED
      BY <1>1, <3>1, <3>2
  <2>. QED
    BY <2>1, <2>2
<1>5. CASE ReportResult
  BY <1>1, <1>5, KeptSame DEF ReportResult
<1>6. CASE SimpLLFails
  <2>1. curr = EmptyGraph
    BY <1>6 DEF SimpLLFails
  <2>. QED
    BY <1>1, <1>6, <2>1, KeptSame DEF SimpLLFails
<1>7. CASE StartDiff \/ ReuseGraph
  BY <1>1, <1>2, <1>7, KeptSame DEF StartDiff, ReuseGraph
<1>8. CASE UNCHANGED <<graph, curr>> /\ (pc' = "report" => pc = "report")
  BY <1>1, <1>8, KeptSame
<1>9. \/ RunSimpLL \/ MergeGraph \/ ReportResult \/ SimpLLFails \/ StartDiff \/ ReuseGraph
      \/ UNCHANGED <<graph, curr>> /\ (pc' = "report" => pc = "report")
  BY DEF Next, vars, SkipAbsent, ReportUnknown, LinkDef, LinkDefFails, Rerun, Done
<1>. QED
  BY <1>3, <1>4, <1>5, <1>6, <1>7, <1>8, <1>9

\* The cache only receives definitive results of the merged graph.
LEMMA NextCached ==
    ASSUME TypeOK, [Next]_vars, NEW k \in Cached'
    PROVE  k \in Cached \/ \E f \in Definitive(graph') : graph'[f].cachable /\ k = KeyOf(graph', f)
<1>1. CASE MergeGraph /\ graph # EmptyGraph
  <2>1. cache' = UpdateCache(cache, graph') /\ graph' = Absorb(graph, curr)
    BY <1>1 DEF MergeGraph
  <2>2. IsGraph(graph')
    BY <2>1, AbsorbType DEF TypeOK
  <2>. QED
    BY <2>1, <2>2, UpdateCacheType DEF TypeOK, Cached
<1>2. cache' = cache \/ (MergeGraph /\ graph # EmptyGraph)
  BY DEF Next, vars, SkipAbsent, ReportUnknown, StartDiff, ReuseGraph, RunSimpLL, SimpLLFails,
         LinkDef, LinkDefFails, Rerun, MergeGraph, ReportResult, Done
<1>. QED
  BY <1>1, <1>2 DEF Cached

LEMMA NextResults ==
    ASSUME "rerun" \notin MayFail
    PROVE  TypeOK /\ ResultsInv /\ [Next]_vars => ResultsInv'
<1>. SUFFICES ASSUME TypeOK, ResultsInv, [Next]_vars
              PROVE  ResultsInv'
  OBVIOUS
<1>1. /\ prog' = prog
      /\ FirmGraph(prog, graph') /\ FirmGraph(prog, curr')
      /\ Kept(graph, graph')
      /\ pc' = "report" => graph' = curr' \/ graph' = EmptyGraph
  BY NextFirm
<1>2. IsGraph(graph) /\ IsGraph(graph')
  BY NextType DEF TypeOK
<1>3. ASSUME NEW k \in Cached'
      PROVE  /\ k.fun \in DOMAIN graph'
             /\ graph'[k.fun].result \in Definite
             /\ graph'[k.fun].files = k.files
  <2>1. CASE k \in Cached
    <3>1. /\ k.fun \in DOMAIN graph
          /\ graph[k.fun].result \in Definite
          /\ graph[k.fun].files = k.files
      BY <2>1 DEF ResultsInv, CacheCoherent
    <3>2. FirmGraph(prog, graph)
      BY DEF ResultsInv
    <3>. QED
      BY <1>1, <1>2, <3>1, <3>2, KeptCoherent
  <2>2. CASE \E f \in Definitive(graph') : graph'[f].cachable /\ k = KeyOf(graph', f)
    BY <2>2 DEF Definitive, KeyOf
  <2>. QED
    BY <2>1, <2>2, NextCached
<1>4. CacheCoherent'
  BY <1>3 DEF CacheCoherent
<1>. QED
  BY <1>1, <1>4 DEF ResultsInv

-----------------------------------------------------------------------------
\* Without variants, and when no repeated run of SimpLL fails, a pair SimpLL
\* is told to skip has a definitive result in the graph of the session.
THEOREM CacheIsCoherent ==
    ASSUME \A P \in Programs : CallsNoVariant(P), "rerun" \notin MayFail
    PROVE  Spec => []CacheCoherent
<1>1. Init => ResultsInv
  BY InitResults
<1>2. TypeOK /\ ResultsInv /\ [Next]_vars => ResultsInv'
  BY NextResults
<1>3. ResultsInv => CacheCoherent
  BY DEF ResultsInv
<1>. QED
  BY <1>1, <1>2, <1>3, InitType, NextType, PTL DEF Spec

\* Under the same conditions no definitive result of a comparison is dropped
\* or changed by a later one.
THEOREM ResultsAreKept ==
    ASSUME \A P \in Programs : CallsNoVariant(P), "rerun" \notin MayFail
    PROVE  Spec => ResultsKept
<1>1. Init => ResultsInv
  BY InitResults
<1>2. TypeOK /\ ResultsInv /\ [Next]_vars => ResultsInv'
  BY NextResults
<1>3. TypeOK /\ ResultsInv /\ [Next]_vars
        => [\A f \in DOMAIN graph : graph[f].result \in Definite =>
                f \in DOMAIN graph' /\ graph'[f].result = graph[f].result]_vars
  BY NextFirm DEF Kept
<1>. QED
  BY <1>1, <1>2, <1>3, InitType, NextType, PTL DEF Spec, ResultsKept

-----------------------------------------------------------------------------
(***************************************************************************)
(* Proof that header functions in the cache depend on nothing that is only *)
(* assumed equal.                                                          *)
(***************************************************************************)

\* The callees of f.
CalleesOf(P, f) == {h \in Funs : Strong(h) \in P.calls[Strong(f)]}

LEMMA StrongFacts ==
    /\ \A f \in Funs : /\ Strong(f) \in Pairs /\ Strong(f).fun = f /\ ~Strong(f).void
    /\ \A f, h : Strong(f) = Strong(h) => f = h
<1>1. \A f \in Funs : Strong(f) \in Pairs /\ Strong(f).fun = f /\ ~Strong(f).void
  BY DEF Strong, Pairs
<1>2. \A f, h : Strong(f) = Strong(h) => f = h
  BY DEF Strong
<1>. QED
  BY <1>1, <1>2

\* A closure is closed.
LEMMA ClosureCloses ==
    ASSUME NEW x, NEW R, NEW y \in Closure(x, R), NEW z, <<y, z>> \in R
    PROVE  z \in Closure(x, R)
<1>. DEFINE Around == {x} \cup {r[2] : r \in R}
            Closed == {S \in SUBSET Around : x \in S /\ \A r \in R : r[1] \in S => r[2] \in S}
<1>1. \A S \in Closed : y \in S
  BY DEF Closure
<1>2. <<y, z>>[1] = y /\ <<y, z>>[2] = z
  OBVIOUS
<1>3. z \in Around
  BY <1>2
<1>4. ASSUME NEW S \in Closed
      PROVE  z \in S
  BY <1>1, <1>2
<1>. QED
  BY <1>3, <1>4 DEF Closure

\* The callees of the pairs compared are compared.
LEMMA CalleesMet ==
    ASSUME NEW P \in Program, NEW main \in Funs, NEW ln, NEW cached,
           NEW p \in ComparedPairs(P, main, ln, cached), NEW q \in Callees(P, main, ln, cached, p)
    PROVE  q \in ComparedPairs(P, main, ln, cached)
<1>. DEFINE Calls == UNION {{<<r, t>> : t \in Callees(P, main, ln, cached, r)} : r \in Pairs}
<1>1. p \in Pairs
  BY ComparedPairsType
<1>2. <<p, q>> \in Calls
  BY <1>1
<1>3. p \in Closure(Strong(main), Calls)
  BY DEF ComparedPairs
<1>. HIDE DEF Calls
<1>4. q \in Closure(Strong(main), Calls)
  BY <1>2, <1>3, ClosureCloses
<1>. QED
  BY <1>4 DEF ComparedPairs, Calls

\* What a closure has is in every set that has x and is closed.
LEMMA ClosureIsLeast ==
    ASSUME NEW x, NEW R, NEW T, x \in T, \A r \in R : r[1] \in T => r[2] \in T
    PROVE  Closure(x, R) \subseteq T
<1>. DEFINE Around == {x} \cup {r[2] : r \in R}
            Closed == {S \in SUBSET Around : x \in S /\ \A r \in R : r[1] \in S => r[2] \in S}
            S0 == Around \cap T
<1>1. S0 \in Closed
  <2>1. S0 \in SUBSET Around /\ x \in S0
    OBVIOUS
  <2>2. \A r \in R : r[1] \in S0 => r[2] \in S0
    OBVIOUS
  <2>. HIDE DEF S0, Around
  <2>. QED
    BY <2>1, <2>2
<1>2. ASSUME NEW y \in Closure(x, R)
      PROVE  y \in T
  <2>1. \A S \in Closed : y \in S
    BY DEF Closure
  <2>. QED
    BY <1>1, <2>1
<1>. QED
  BY <1>2

\* The calls that header functions of both snapshots make, the callee first.
HeaderCalls(P) ==
    UNION {{<<c, h>> : c \in CalleesOf(P, h)} :
            h \in {f \in Funs : P.home["L"][f] \in Headers /\ P.home["R"][f] \in Headers}}

\* The functions outside of headers that f depends on: f itself, or what it reaches
\* through calls of header functions only.
Dependencies(P, f) ==
    {u \in Funs : P.home["L"][u] \notin Headers /\ f \in Closure(u, HeaderCalls(P))}

InHeader(P, f) == P.home["L"][f] \in Headers

\* The functions of the old snapshot's headers have not been moved to C files, and depend
\* on one function outside of headers at most.
HeadersSimple(P) ==
    \A f \in Funs : InHeader(P, f) =>
        /\ P.home["R"][f] \notin CFiles
        /\ \A u, v \in Dependencies(P, f) : u = v

Unknowns(g) == {f \in DOMAIN g : g[f].result = "unknown"}

\* What a graph has of header functions is as in the program: files and calls, and the
\* functions that a result prevents from being cached.
HeadersExact(P, g) ==
    \A f \in DOMAIN g :
        /\ IsHeader(g, f) <=> InHeader(P, f)
        /\ InHeader(P, f) => \A e \in g[f].calls["L"] : <<e.to, f>> \in HeaderCalls(P)
        /\ \A h \in g[f].prevents : f \in Dependencies(P, h)

\* What f depends on has results in g.
SettledFor(P, g, f) == Dependencies(P, f) \subseteq Definitive(g)

\* A header function of g that may be cached depends on results that g or base has.
MarkedRight(P, g, base) ==
    \A f \in DOMAIN g :
        InHeader(P, f) /\ g[f].cachable => Dependencies(P, f) \subseteq Definitive(g) \cup Definitive(base)

\* A cached header function depends on results that the graph has.
CachedSettled(P, cached, g) ==
    \A k \in cached : /\ k.fun \in Definitive(g)
                      /\ InHeader(P, k.fun) => SettledFor(P, g, k.fun)

\* The header functions that a graph has as callers of u depend on u.
LEMMA CallersDepend ==
    ASSUME NEW P \in Program, NEW g, IsGraph(g), HeadersExact(P, g), NEW u \in DOMAIN g,
           ~InHeader(P, u), NEW f \in HeaderCallers(g, u)
    PROVE  u \in Dependencies(P, f)
<1>. DEFINE HeaderFuns == {h \in DOMAIN g : IsHeader(g, h)}
            CalledBy == UNION {{<<e.to, h>> : e \in g[h].calls.L} : h \in HeaderFuns}
            T == Closure(u, HeaderCalls(P))
<1>1. u \in T
  BY DEF Closure
<1>2. ASSUME NEW r \in CalledBy, r[1] \in T
      PROVE  r[2] \in T
  <2>1. PICK h \in DOMAIN g : IsHeader(g, h) /\ r \in {<<e.to, h>> : e \in g[h].calls.L}
    OBVIOUS
  <2>2. PICK e \in g[h].calls.L : r = <<e.to, h>>
    BY <2>1
  <2>3. r \in HeaderCalls(P)
    BY <2>1, <2>2 DEF HeadersExact
  <2>4. r = <<r[1], r[2]>>
    BY <2>2
  <2>. HIDE DEF T, CalledBy
  <2>5. <<r[1], r[2]>> \in HeaderCalls(P) /\ r[1] \in Closure(u, HeaderCalls(P))
    BY <1>2, <2>3, <2>4 DEF T
  <2>. QED
    BY <2>5, ClosureCloses DEF T
<1>3. f \in Closure(u, CalledBy)
  BY DEF HeaderCallers
<1>. HIDE DEF CalledBy, T
<1>4. f \in T
  BY <1>1, <1>2, <1>3, ClosureIsLeast
<1>. QED
  BY <1>4 DEF T, Dependencies, InHeader, IsGraph

\* The functions that a run meets when it does not know variants, and what it has of them.
RunMeets(P, main, ln, cached, g) ==
    /\ DOMAIN g = {f \in Funs : Strong(f) \in ComparedPairs(P, main, ln, cached)}
    /\ \A f \in DOMAIN g :
        /\ g[f].result = PairVerdict(P, main, ln, cached, Strong(f))
        /\ g[f].files = FilesOf(P, main, ln, f)
        /\ \A e \in g[f].calls["L"] : e.to \in Funs /\ Strong(e.to) \in Callees(P, main, ln, cached, Strong(f))
        /\ \A c \in Funs : Strong(c) \in Callees(P, main, ln, cached, Strong(f))
                              => \E e \in g[f].calls["L"] : e.to = c
        /\ g[f].prevents = {}

\* Weakening edges leaves where they lead, and what a vertex prevents.
LEMMA WeakenTargets ==
    ASSUME NEW raw, NEW v \in Vertex
    PROVE  /\ \A e \in WeakenEdges(raw, v).calls["L"] : \E d \in v.calls["L"] : d.to = e.to
           /\ \A d \in v.calls["L"] : \E e \in WeakenEdges(raw, v).calls["L"] : d.to = e.to
           /\ WeakenEdges(raw, v).prevents = v.prevents
<1>. DEFINE CallsVariant(f) == \E s \in Side : \E e \in v.calls[s] : e.to = f /\ e.variant
            Weakened(e) == /\ CallsVariant(e.to)
                           /\ Variant(e.to) \in DOMAIN raw
                           /\ raw[Variant(e.to)].result = "equal"
            W(e) == [e EXCEPT !.weak = @ \/ Weakened(e)]
            w == WeakenEdges(raw, v)
<1>1. w = [v EXCEPT !.calls = [L |-> {W(e) : e \in v.calls.L}, R |-> {W(e) : e \in v.calls.R}]]
  BY DEF WeakenEdges
<1>2. ASSUME NEW e \in v.calls["L"]
      PROVE  W(e).to = e.to
  <2>1. e \in Edge
    BY DEF Vertex, Side
  <2>. HIDE DEF Weakened
  <2>. QED
    BY <2>1 DEF Edge
<1>. HIDE DEF W, w
<1>3. w.calls["L"] = {W(e) : e \in v.calls["L"]} /\ w.prevents = v.prevents
  BY <1>1 DEF Vertex
<1>4. /\ \A e \in w.calls["L"] : \E d \in v.calls["L"] : d.to = e.to
      /\ \A d \in v.calls["L"] : \E e \in w.calls["L"] : d.to = e.to
  BY <1>2, <1>3
<1>. QED
  BY <1>3, <1>4 DEF w

LEMMA RawMeets ==
    ASSUME NEW P \in Program, CallsNoVariant(P), NEW main \in Funs, NEW ln, NEW cached, NEW run \in Nat
    PROVE  LET n == Normalize(RawGraph(P, main, ln, cached, run))
           IN  IsGraph(n) /\ RunMeets(P, main, ln, cached, n)
<1>. DEFINE raw == RawGraph(P, main, ln, cached, run)
            n == Normalize(raw)
            C == ComparedPairs(P, main, ln, cached)
            K(f) == Callees(P, main, ln, cached, Strong(f))
<1>1. /\ C \subseteq {Strong(f) : f \in Funs}
      /\ DOMAIN raw = C
      /\ DOMAIN raw \subseteq Pairs
      /\ raw \in [DOMAIN raw -> Vertex]
      /\ \A p \in DOMAIN raw :
            /\ raw[p].result = PairVerdict(P, main, ln, cached, p)
            /\ raw[p].files = FilesOf(P, main, ln, p.fun)
  BY RawGraphType, ComparedPairsType, StrongPairs
<1>2. ASSUME NEW f \in Funs, Strong(f) \in C
      PROVE  /\ raw[Strong(f)].calls["L"] = CallsOn(P, "L", Strong(f), K(f))
             /\ raw[Strong(f)].prevents = {}
  BY <1>2 DEF RawGraph
<1>3. ASSUME NEW f \in Funs
      PROVE  K(f) \subseteq {Strong(c) : c \in Funs}
  BY StrongFacts DEF Callees, CallsNoVariant
<1>4. ASSUME NEW c \in Funs
      PROVE  NameOn(P, "L", Strong(c)).fun = c
  BY DEF NameOn, Strong
<1>5. ASSUME NEW f \in Funs
      PROVE  /\ \A e \in CallsOn(P, "L", Strong(f), K(f)) : e.to \in Funs /\ Strong(e.to) \in K(f)
             /\ \A c \in Funs : Strong(c) \in K(f) => \E e \in CallsOn(P, "L", Strong(f), K(f)) : e.to = c
  <2>. DEFINE E(m) == [to |-> m.fun, variant |-> m.void, weak |-> m \in P.inlined[Strong(f)]["L"]]
  <2>1. \A m : E(m).to = m.fun
    OBVIOUS
  <2>2. CallsOn(P, "L", Strong(f), K(f)) = {E(m) : m \in {NameOn(P, "L", q) : q \in K(f)}}
    BY DEF CallsOn
  <2>. HIDE DEF E, K
  <2>3. ASSUME NEW e \in CallsOn(P, "L", Strong(f), K(f))
        PROVE  e.to \in Funs /\ Strong(e.to) \in K(f)
    <3>1. PICK q \in K(f) : e = E(NameOn(P, "L", q))
      BY <2>2, <2>3
    <3>2. PICK c \in Funs : q = Strong(c)
      BY <1>3
    <3>. QED
      BY <1>4, <2>1, <3>1, <3>2
  <2>4. ASSUME NEW c \in Funs, Strong(c) \in K(f)
        PROVE  \E e \in CallsOn(P, "L", Strong(f), K(f)) : e.to = c
    <3>1. E(NameOn(P, "L", Strong(c))) \in CallsOn(P, "L", Strong(f), K(f))
      BY <2>2, <2>4
    <3>. QED
      BY <1>4, <2>1, <3>1
  <2>. QED
    BY <2>3, <2>4
<1>. HIDE DEF raw, C, K
<1>6. /\ IsGraph(n)
      /\ DOMAIN n = {p.fun : p \in DOMAIN raw}
      /\ \A f \in DOMAIN n : Strong(f) \in DOMAIN raw =>
            n[f].result = raw[Strong(f)].result /\ n[f].files = raw[Strong(f)].files
  BY <1>1, NormalizeType
<1>7. DOMAIN n = {f \in Funs : Strong(f) \in C}
  <2>1. ASSUME NEW p \in C
        PROVE  p.fun \in Funs /\ Strong(p.fun) = p
    BY <1>1, StrongFacts
  <2>2. DOMAIN n \subseteq {f \in Funs : Strong(f) \in C}
    BY <1>1, <1>6, <2>1
  <2>3. {f \in Funs : Strong(f) \in C} \subseteq DOMAIN n
    BY <1>1, <1>6, StrongFacts
  <2>. QED
    BY <2>2, <2>3
<1>8. ASSUME NEW f \in DOMAIN n
      PROVE  /\ \A e \in n[f].calls["L"] : \E d \in raw[Strong(f)].calls["L"] : d.to = e.to
             /\ \A d \in raw[Strong(f)].calls["L"] : \E e \in n[f].calls["L"] : d.to = e.to
             /\ n[f].prevents = {}
  <2>1. n[f] = WeakenEdges(raw, raw[Strong(f)])
    BY <1>1, <1>6, <1>7 DEF Normalize
  <2>2. raw[Strong(f)] \in Vertex
    BY <1>1, <1>7
  <2>3. raw[Strong(f)].prevents = {}
    BY <1>2, <1>7
  <2>. QED
    BY <2>1, <2>2, <2>3, WeakenTargets
<1>9. ASSUME NEW f \in DOMAIN n
      PROVE  /\ n[f].result = PairVerdict(P, main, ln, cached, Strong(f))
             /\ n[f].files = FilesOf(P, main, ln, f)
             /\ \A e \in n[f].calls["L"] : e.to \in Funs /\ Strong(e.to) \in K(f)
             /\ \A c \in Funs : Strong(c) \in K(f) => \E e \in n[f].calls["L"] : e.to = c
             /\ n[f].prevents = {}
  <2>1. f \in Funs /\ Strong(f) \in C /\ Strong(f) \in DOMAIN raw /\ Strong(f).fun = f
    BY <1>1, <1>7, StrongFacts
  <2>2. raw[Strong(f)].calls["L"] = CallsOn(P, "L", Strong(f), K(f))
    BY <1>2, <2>1
  <2>3. /\ \A e \in raw[Strong(f)].calls["L"] : e.to \in Funs /\ Strong(e.to) \in K(f)
        /\ \A c \in Funs : Strong(c) \in K(f) => \E e \in raw[Strong(f)].calls["L"] : e.to = c
    BY <1>5, <2>1, <2>2
  <2>4. /\ n[f].result = PairVerdict(P, main, ln, cached, Strong(f))
        /\ n[f].files = FilesOf(P, main, ln, f)
    BY <1>1, <1>6, <2>1
  <2>. QED
    BY <1>8, <2>3, <2>4
<1>. HIDE DEF n
<1>. QED
  BY <1>6, <1>7, <1>9 DEF RunMeets, n, raw, C, K

\* Headers are in every module: what a graph of a run has of header functions is exact.
LEMMA RunExact ==
    ASSUME NEW P \in Program, HeadersSimple(P), NEW main \in Funs, NEW ln \in SUBSET Link, NEW cached,
           NEW g, RunMeets(P, main, ln, cached, g)
    PROVE  HeadersExact(P, g)
<1>1. ASSUME NEW f \in Funs, NEW s \in Side
      PROVE  /\ P.home[s][f] \in Headers => f \in Bodies(P, main, ln, s)
             /\ P.home[s][f] \in Files \cup {NoFile}
             /\ f \in Bodies(P, main, ln, s) => P.home[s][f] # NoFile
  <2>1. P.home[s][f] \in Files \cup {NoFile}
    BY DEF Program
  <2>2. \A l \in ln : l.file \in CFiles
    BY DEF Link
  <2>. QED
    BY <2>1, <2>2, FilesAssumption DEF Bodies, Files
<1>2. ASSUME NEW f \in DOMAIN g
      PROVE  IsHeader(g, f) <=> InHeader(P, f)
  <2>1. f \in Funs /\ g[f].files = FilesOf(P, main, ln, f)
    BY DEF RunMeets
  <2>2. g[f].files["L"] = IF f \in Bodies(P, main, ln, "L") THEN P.home["L"][f] ELSE NoFile
    BY <2>1 DEF FilesOf, Side
  <2>. QED
    BY <1>1, <2>1, <2>2, FilesAssumption DEF IsHeader, InHeader, Side
<1>3. ASSUME NEW f \in DOMAIN g, InHeader(P, f), NEW e \in g[f].calls["L"]
      PROVE  <<e.to, f>> \in HeaderCalls(P)
  <2>1. f \in Funs /\ e.to \in Funs /\ Strong(e.to) \in Callees(P, main, ln, cached, Strong(f))
    BY DEF RunMeets
  <2>2. HaveBodies(P, main, ln, f) /\ Strong(e.to) \in P.calls[Strong(f)]
    BY <2>1, StrongFacts DEF Callees
  <2>3. f \in Bodies(P, main, ln, "R")
    BY <2>2 DEF HaveBodies, Side
  <2>4. P.home["R"][f] \in Headers
    BY <1>1, <1>3, <2>1, <2>3 DEF HeadersSimple, Files, Side
  <2>5. e.to \in CalleesOf(P, f)
    BY <2>1, <2>2 DEF CalleesOf
  <2>. QED
    BY <1>3, <2>1, <2>4, <2>5 DEF HeaderCalls, InHeader
<1>. QED
  BY <1>2, <1>3 DEF HeadersExact, RunMeets

\* What u is reached from in the program by calls of header functions, the graph has too,
\* but for callers of what is found in the cache.
LEMMA MetByCallers ==
    ASSUME NEW P \in Program, HeadersSimple(P), NEW main \in Funs, NEW ln \in SUBSET Link, NEW cached,
           NEW g, RunMeets(P, main, ln, cached, g), HeadersExact(P, g),
           NEW u \in Funs, ~InHeader(P, u), NEW f \in DOMAIN g, f # u, u \in Dependencies(P, f),
           \A k \in cached : InHeader(P, k.fun) => u \notin Dependencies(P, k.fun)
    PROVE  u \in DOMAIN g /\ f \in HeaderCallers(g, u)
<1>. DEFINE HeaderFuns == {h \in DOMAIN g : IsHeader(g, h)}
            CalledBy == UNION {{<<e.to, h>> : e \in g[h].calls.L} : h \in HeaderFuns}
            Above == Closure(u, HeaderCalls(P))
            T == {h \in Above : h \in DOMAIN g => u \in DOMAIN g /\ h \in Closure(u, CalledBy)}
<1>1. u \in T
  BY DEF Closure
<1>2. ASSUME NEW r \in HeaderCalls(P), r[1] \in T
      PROVE  r[2] \in T
  <2>1. PICK h \in Funs : /\ InHeader(P, h) /\ P.home["R"][h] \in Headers
                          /\ r \in {<<c, h>> : c \in CalleesOf(P, h)}
    BY DEF HeaderCalls, InHeader
  <2>2. PICK c \in CalleesOf(P, h) : r = <<c, h>>
    BY <2>1
  <2>3. r[1] = c /\ r[2] = h /\ c \in Funs
    BY <2>2 DEF CalleesOf
  <2>4. h \in Above
    <3>1. <<c, h>> \in HeaderCalls(P) /\ c \in Above
      BY <1>2, <2>2, <2>3
    <3>. QED
      BY <3>1, ClosureCloses
  <2>5. ASSUME h \in DOMAIN g
        PROVE  u \in DOMAIN g /\ h \in Closure(u, CalledBy)
    <3>1. HaveBodies(P, main, ln, h)
      BY <2>1 DEF HaveBodies, Bodies, InHeader, Side
    <3>2. ~IsCached(P, main, ln, cached, Strong(h))
      <4>1. u \in Dependencies(P, h)
        BY <2>4 DEF Dependencies, InHeader
      <4>2. \A k \in cached : k.fun # h
        BY <2>1, <4>1
      <4>. QED
        BY <4>2, StrongFacts DEF IsCached
    <3>3. Strong(c) \in Callees(P, main, ln, cached, Strong(h))
      BY <2>2, <3>1, <3>2, StrongFacts DEF Callees, CalleesOf
    <3>4. c \in DOMAIN g
      <4>1. Strong(h) \in ComparedPairs(P, main, ln, cached)
        BY <2>5 DEF RunMeets
      <4>2. Strong(c) \in ComparedPairs(P, main, ln, cached)
        BY <3>3, <4>1, CalleesMet
      <4>. QED
        BY <2>3, <4>2 DEF RunMeets
    <3>5. u \in DOMAIN g /\ c \in Closure(u, CalledBy)
      BY <1>2, <2>3, <3>4
    <3>6. PICK e \in g[h].calls["L"] : e.to = c
      BY <2>3, <2>5, <3>3 DEF RunMeets
    <3>7. IsHeader(g, h)
      BY <2>1, <2>5 DEF HeadersExact
    <3>8. <<c, h>> \in CalledBy
      BY <2>5, <3>6, <3>7
    <3>. HIDE DEF CalledBy
    <3>. QED
      BY <3>5, <3>8, ClosureCloses
  <2>. QED
    BY <2>3, <2>4, <2>5
<1>. HIDE DEF T
<1>3. f \in Closure(u, HeaderCalls(P))
  BY DEF Dependencies
<1>4. f \in T
  BY <1>1, <1>2, <1>3, ClosureIsLeast
<1>5. u \in DOMAIN g /\ f \in Closure(u, CalledBy)
  BY <1>4 DEF T
<1>. QED
  BY <1>5 DEF HeaderCallers

\* What marking adds to a vertex.
LEMMA MarkMeaning ==
    ASSUME NEW n, IsGraph(n), NEW f \in DOMAIN n
    PROVE  LET g == MarkUncachable(n)
           IN  /\ g[f].cachable => \A u \in Unsettled(n) : f \notin HeaderCallers(n, u)
               /\ g[f].prevents = IF f \in Unsettled(n) THEN HeaderCallers(n, f) ELSE n[f].prevents
<1>1. n[f] \in Vertex
  BY DEF IsGraph
<1>. QED
  BY <1>1 DEF MarkUncachable, Vertex

\* The graph of a run, for a cache that lists what the graph of the session has settled.
LEMMA RunGraphMarked ==
    ASSUME NEW P \in Program, CallsNoVariant(P), HeadersSimple(P), NEW main \in Funs,
           NEW ln \in SUBSET Link, NEW cached, NEW run \in Nat,
           NEW base, CachedSettled(P, cached, base)
    PROVE  LET g == RunGraph(P, main, ln, cached, run)
           IN  /\ HeadersExact(P, g)
               /\ MarkedRight(P, g, base)
               /\ Unknowns(g) \subseteq Definitive(base)
<1>. DEFINE n == Normalize(RawGraph(P, main, ln, cached, run))
            g == MarkUncachable(n)
<1>1. RunGraph(P, main, ln, cached, run) = g
  BY WholeIsIdentity DEF RunGraph
<1>2. IsGraph(n) /\ RunMeets(P, main, ln, cached, n)
  BY RawMeets
<1>. HIDE DEF n
<1>3. HeadersExact(P, n)
  BY <1>2, RunExact
<1>4. /\ DOMAIN g = DOMAIN n
      /\ \A f \in DOMAIN n : /\ g[f].result = n[f].result
                             /\ g[f].files = n[f].files
                             /\ g[f].calls = n[f].calls
  BY <1>2, MarkUncachableType
<1>5. ASSUME NEW f \in DOMAIN n
      PROVE  /\ g[f].cachable => \A u \in Unsettled(n) : f \notin HeaderCallers(n, u)
             /\ g[f].prevents = IF f \in Unsettled(n) THEN HeaderCallers(n, f) ELSE n[f].prevents
  BY <1>2, MarkMeaning
<1>. HIDE DEF g
<1>6. HeadersExact(P, g)
  <2>1. ASSUME NEW f \in DOMAIN n, NEW h \in g[f].prevents
        PROVE  f \in Dependencies(P, h)
    <3>1. n[f].prevents = {}
      BY <1>2 DEF RunMeets
    <3>2. f \in Unsettled(n) /\ h \in HeaderCallers(n, f)
      BY <1>5, <2>1, <3>1
    <3>3. ~InHeader(P, f)
      BY <1>3, <3>2 DEF Unsettled, HeadersExact
    <3>. QED
      BY <1>2, <1>3, <3>2, <3>3, CallersDepend
  <2>2. ASSUME NEW f \in DOMAIN n
        PROVE  IsHeader(g, f) <=> InHeader(P, f)
    BY <1>3, <1>4 DEF HeadersExact, IsHeader
  <2>3. ASSUME NEW f \in DOMAIN n, InHeader(P, f), NEW e \in g[f].calls["L"]
        PROVE  <<e.to, f>> \in HeaderCalls(P)
    BY <1>3, <1>4, <2>3 DEF HeadersExact
  <2>. QED
    BY <1>4, <2>1, <2>2, <2>3 DEF HeadersExact
<1>7. ASSUME NEW x \in Unknowns(g)
      PROVE  x \in Definitive(base)
  <2>1. x \in Funs /\ PairVerdict(P, main, ln, cached, Strong(x)) = "unknown"
    BY <1>2, <1>4 DEF Unknowns, RunMeets
  <2>2. IsCached(P, main, ln, cached, Strong(x))
    BY <2>1 DEF PairVerdict
  <2>. QED
    BY <2>1, <2>2, StrongFacts DEF IsCached, CachedSettled
<1>8. ASSUME NEW f \in DOMAIN g, InHeader(P, f), g[f].cachable,
             NEW u \in Dependencies(P, f), u \notin Definitive(base)
      PROVE  u \in Definitive(g)
  <2>1. u \in Funs /\ ~InHeader(P, u) /\ f # u
    BY <1>8 DEF Dependencies, InHeader
  <2>2. \A k \in cached : InHeader(P, k.fun) => u \notin Dependencies(P, k.fun)
    BY <1>8 DEF CachedSettled, SettledFor
  <2>3. u \in DOMAIN n /\ f \in HeaderCallers(n, u)
    BY <1>2, <1>3, <1>4, <1>8, <2>1, <2>2, MetByCallers
  <2>4. u \notin Unsettled(n)
    BY <1>4, <1>5, <1>8, <2>3
  <2>5. n[u].result # "assumed_equal"
    BY <1>3, <2>1, <2>3, <2>4 DEF Unsettled, HeadersExact
  <2>6. g[u].result \in Verdicts
    BY <1>2, <1>4, <2>3 DEF IsGraph, Vertex
  <2>7. g[u].result # "unknown"
    BY <1>4, <1>7, <1>8, <2>3 DEF Unknowns
  <2>. QED
    BY <1>4, <2>3, <2>5, <2>6, <2>7 DEF Verdicts, Definitive, Definite
<1>. QED
  BY <1>1, <1>6, <1>7, <1>8 DEF MarkedRight

\* Merging keeps all this.
LEMMA MergeMarked ==
    ASSUME NEW P \in Program, HeadersSimple(P), NEW g, IsGraph(g), FirmGraph(P, g), HeadersExact(P, g),
           MarkedRight(P, g, g), NEW new, IsGraph(new), FirmGraph(P, new), HeadersExact(P, new),
           MarkedRight(P, new, g), Unknowns(new) \subseteq Definitive(g)
    PROVE  LET a == Absorb(g, new) IN HeadersExact(P, a) /\ MarkedRight(P, a, a)
<1>. DEFINE a == Absorb(g, new)
<1>1. /\ DOMAIN a = DOMAIN g \cup DOMAIN new
      /\ \A f \in DOMAIN a :
           IF f \in Replaced(g, new)
           THEN f \in DOMAIN new /\ a[f] = new[f]
           ELSE /\ f \in DOMAIN g
                /\ a[f].result = g[f].result /\ a[f].files = g[f].files
                /\ a[f].calls = g[f].calls /\ a[f].run = g[f].run
  BY AbsorbType
<1>2. ASSUME NEW f \in DOMAIN a, f \notin Replaced(g, new)
      PROVE  /\ a[f].prevents = g[f].prevents
             /\ a[f].cachable => g[f].cachable \/ \E u \in Settled(g, new) : f \in g[u].prevents
  <2>1. a[f] = [g[f] EXCEPT !.cachable =
                    @ \/ \E u \in Settled(g, new) : f \in g[u].prevents /\ g[f].run = g[u].run]
    BY <1>1, <1>2 DEF Absorb
  <2>2. g[f] \in Vertex
    BY <1>1, <1>2 DEF IsGraph
  <2>. QED
    BY <2>1, <2>2 DEF Vertex
<1>3. Definitive(g) \subseteq Definitive(a)
  BY AbsorbFirm DEF Definitive
<1>4. Definitive(new) \subseteq Definitive(a)
  <2>1. ASSUME NEW f \in Definitive(new), f \notin Replaced(g, new)
        PROVE  f \in Definitive(g)
    <3>1. f \in DOMAIN g /\ ~GivesWay(g[f], new[f])
      BY <2>1 DEF Replaced, Definitive
    <3>2. g[f].result \in Verdicts
      BY <3>1 DEF IsGraph, Vertex
    <3>. QED
      BY <3>1, <3>2 DEF GivesWay, Verdicts, Definitive, Definite
  <2>. HIDE DEF a
  <2>. QED
    BY <1>1, <1>3, <2>1 DEF Definitive
<1>. HIDE DEF a
<1>5. HeadersExact(P, a)
  <2>1. ASSUME NEW f \in DOMAIN a, f \in Replaced(g, new)
        PROVE  /\ IsHeader(a, f) <=> InHeader(P, f)
               /\ InHeader(P, f) => \A e \in a[f].calls["L"] : <<e.to, f>> \in HeaderCalls(P)
               /\ \A h \in a[f].prevents : f \in Dependencies(P, h)
    BY <1>1, <2>1 DEF HeadersExact, IsHeader
  <2>2. ASSUME NEW f \in DOMAIN a, f \notin Replaced(g, new)
        PROVE  /\ IsHeader(a, f) <=> InHeader(P, f)
               /\ InHeader(P, f) => \A e \in a[f].calls["L"] : <<e.to, f>> \in HeaderCalls(P)
               /\ \A h \in a[f].prevents : f \in Dependencies(P, h)
    BY <1>1, <1>2, <2>2 DEF HeadersExact, IsHeader
  <2>. QED
    BY <2>1, <2>2 DEF HeadersExact
<1>6. ASSUME NEW f \in DOMAIN a, InHeader(P, f), a[f].cachable
      PROVE  Dependencies(P, f) \subseteq Definitive(a)
  <2>1. CASE f \in Replaced(g, new)
    BY <1>1, <1>3, <1>4, <1>6, <2>1 DEF MarkedRight
  <2>2. CASE f \notin Replaced(g, new) /\ g[f].cachable
    BY <1>1, <1>3, <1>6, <2>2 DEF MarkedRight
  <2>3. CASE f \notin Replaced(g, new) /\ \E u \in Settled(g, new) : f \in g[u].prevents
    <3>1. PICK u \in Settled(g, new) : f \in g[u].prevents
      BY <2>3
    <3>2. /\ u \in DOMAIN g /\ u \in DOMAIN new /\ g[u].result = "assumed_equal"
          /\ new[u].result # "assumed_equal"
      BY <3>1 DEF Settled, Replaced
    <3>3. new[u].result # "unknown"
      BY <3>2 DEF Unknowns, Definitive, Definite
    <3>4. u \in Definitive(new)
      <4>1. new[u].result \in Verdicts
        BY <3>2 DEF IsGraph, Vertex
      <4>. QED
        BY <3>2, <3>3, <4>1 DEF Verdicts, Definitive, Definite
    <3>5. u \in Dependencies(P, f)
      BY <3>1, <3>2 DEF HeadersExact
    <3>6. f \in Funs
      BY <1>1, <2>3 DEF IsGraph
    <3>7. \A v \in Dependencies(P, f) : v = u
      BY <1>6, <3>5, <3>6 DEF HeadersSimple
    <3>. QED
      BY <1>4, <3>4, <3>7
  <2>. QED
    BY <1>2, <1>6, <2>1, <2>2, <2>3
<1>. QED
  BY <1>5, <1>6 DEF MarkedRight, a

\* The graphs have of header functions what the program has, and what may be cached is marked.
HeadersInv ==
    /\ HeadersSimple(prog)
    /\ HeadersExact(prog, graph) /\ HeadersExact(prog, curr)
    /\ CachedSettled(prog, Cached, graph)
    /\ MarkedRight(prog, graph, graph)
    /\ pc \in {"link", "report"} => MarkedRight(prog, curr, graph)
    /\ pc = "link" => Unknowns(curr) \subseteq Definitive(graph)

LEMMA InitHeaders ==
    ASSUME \A P \in Programs : HeadersSimple(P)
    PROVE  Init => HeadersInv
<1>. SUFFICES ASSUME Init PROVE HeadersInv
  OBVIOUS
<1>1. HeadersExact(prog, EmptyGraph) /\ MarkedRight(prog, EmptyGraph, EmptyGraph)
  BY DEF HeadersExact, MarkedRight, EmptyGraph
<1>2. CachedSettled(prog, Cached, graph)
  BY DEF Init, CachedSettled, Cached, BagToSet, EmptyBag, SetToBag
<1>. QED
  BY <1>1, <1>2 DEF Init, HeadersInv

\* The steps that leave the graphs, or take one for the other.
LEMMA NextHeaderGraphs ==
    ASSUME "rerun" \notin MayFail, TypeOK, ResultsInv, HeadersInv, [Next]_vars
    PROVE  /\ prog' = prog
           /\ HeadersExact(prog, graph') /\ HeadersExact(prog, curr')
           /\ MarkedRight(prog, graph', graph')
           /\ pc' \in {"link", "report"} => MarkedRight(prog, curr', graph')
           /\ pc' = "link" => Unknowns(curr') \subseteq Definitive(graph')
<1>. USE DEF HeadersInv
<1>1. prog' = prog
  BY NextFirm
<1>2. HeadersExact(prog, EmptyGraph)
  BY DEF HeadersExact, EmptyGraph
<1>3. CASE RunSimpLL
  <2>1. PICK f \in cur : curr' = RunGraph(prog, f, linked, Cached, runs)
    BY <1>3 DEF RunSimpLL
  <2>2. /\ HeadersExact(prog, curr')
        /\ MarkedRight(prog, curr', graph)
        /\ Unknowns(curr') \subseteq Definitive(graph)
    BY <2>1, RunGraphMarked DEF TypeOK, ResultsInv
  <2>. QED
    BY <1>1, <1>3, <2>2 DEF RunSimpLL
<1>4. CASE MergeGraph
  <2>1. CASE graph = EmptyGraph
    BY <1>1, <1>4, <2>1 DEF MergeGraph
  <2>2. CASE graph # EmptyGraph
    <3>1. graph' = Absorb(graph, curr) /\ curr' = graph' /\ pc = "link" /\ pc' = "report"
      BY <1>4, <2>2 DEF MergeGraph
    <3>2. HeadersExact(prog, graph') /\ MarkedRight(prog, graph', graph')
      BY <3>1, MergeMarked DEF TypeOK, ResultsInv
    <3>. QED
      BY <1>1, <3>1, <3>2
  <2>. QED
    BY <2>1, <2>2
<1>5. CASE ReportResult
  <2>1. graph' = curr /\ curr' = curr /\ pc = "report" /\ pc' = "next"
    BY <1>5 DEF ReportResult
  <2>2. MarkedRight(prog, curr, curr)
    <3>1. graph = curr \/ graph = EmptyGraph
      BY <2>1 DEF ResultsInv
    <3>2. Definitive(EmptyGraph) = {}
      BY DEF Definitive, EmptyGraph
    <3>3. MarkedRight(prog, curr, graph)
      BY <2>1
    <3>. QED
      BY <3>1, <3>2, <3>3 DEF MarkedRight
  <2>. QED
    BY <1>1, <2>1, <2>2
<1>6. CASE SimpLLFails
  <2>1. curr = EmptyGraph
    BY <1>6 DEF SimpLLFails
  <2>. QED
    BY <1>1, <1>6, <2>1 DEF SimpLLFails
<1>7. CASE StartDiff \/ ReuseGraph
  BY <1>1, <1>2, <1>7 DEF StartDiff, ReuseGraph
<1>8. CASE UNCHANGED <<graph, curr>> /\ (pc' \in {"link", "report"} => pc' = pc)
  BY <1>1, <1>8
<1>9. \/ RunSimpLL \/ MergeGraph \/ ReportResult \/ SimpLLFails \/ StartDiff \/ ReuseGraph
      \/ UNCHANGED <<graph, curr>> /\ (pc' \in {"link", "report"} => pc' = pc)
  BY DEF Next, vars, SkipAbsent, ReportUnknown, LinkDef, LinkDefFails, Rerun, Done
<1>. QED
  BY <1>3, <1>4, <1>5, <1>6, <1>7, <1>8, <1>9

LEMMA NextHeaders ==
    ASSUME "rerun" \notin MayFail
    PROVE  TypeOK /\ ResultsInv /\ HeadersInv /\ [Next]_vars => HeadersInv'
<1>. SUFFICES ASSUME TypeOK, ResultsInv, HeadersInv, [Next]_vars
              PROVE  HeadersInv'
  OBVIOUS
<1>1. /\ prog' = prog
      /\ HeadersExact(prog, graph') /\ HeadersExact(prog, curr')
      /\ MarkedRight(prog, graph', graph')
      /\ pc' \in {"link", "report"} => MarkedRight(prog, curr', graph')
      /\ pc' = "link" => Unknowns(curr') \subseteq Definitive(graph')
  BY NextHeaderGraphs
<1>2. Definitive(graph) \subseteq Definitive(graph')
  BY NextFirm DEF Kept, Definitive
<1>3. ASSUME NEW k \in Cached'
      PROVE  /\ k.fun \in Definitive(graph')
             /\ InHeader(prog, k.fun) => SettledFor(prog, graph', k.fun)
  <2>1. CASE k \in Cached
    BY <1>2, <2>1 DEF HeadersInv, CachedSettled, SettledFor
  <2>2. CASE \E f \in Definitive(graph') : graph'[f].cachable /\ k = KeyOf(graph', f)
    <3>1. PICK f \in Definitive(graph') : graph'[f].cachable /\ k.fun = f
      BY <2>2 DEF KeyOf
    <3>. QED
      BY <1>1, <3>1 DEF MarkedRight, SettledFor, Definitive
  <2>. QED
    BY <2>1, <2>2, NextCached
<1>4. CachedSettled(prog, Cached', graph')
  BY <1>3 DEF CachedSettled
<1>5. HeadersSimple(prog)
  BY DEF HeadersInv
<1>. QED
  BY <1>1, <1>4, <1>5 DEF HeadersInv

\* Without variants, when no repeated run of SimpLL fails and no header function depends on
\* more than one function outside of headers, the header functions that SimpLL is told to
\* skip depend on nothing that is only assumed equal: what mark_uncachable_from_assumed_equal
\* has marked is marked while it has to be, also after absorb_graph (caching.py).  With two,
\* the first one that is settled makes the function cachable again.
THEOREM CachedAreSettled ==
    ASSUME \A P \in Programs : CallsNoVariant(P) /\ HeadersSimple(P), "rerun" \notin MayFail
    PROVE  Spec => []CachedHeadersSettled
<1>1. Init => ResultsInv /\ HeadersInv
  BY InitResults, InitHeaders
<1>2. TypeOK /\ ResultsInv /\ HeadersInv /\ [Next]_vars => ResultsInv' /\ HeadersInv'
  BY NextResults, NextHeaders
<1>3. TypeOK /\ ResultsInv /\ HeadersInv => CachedHeadersSettled
  <2>. SUFFICES ASSUME TypeOK, ResultsInv, HeadersInv, NEW k \in Cached, NEW u \in Unsettled(graph),
                       k.files.L \in Headers, k.fun \in HeaderCallers(graph, u)
                PROVE  FALSE
    BY DEF CachedHeadersSettled
  <2>1. k.fun \in DOMAIN graph /\ graph[k.fun].files = k.files
    BY DEF ResultsInv, CacheCoherent
  <2>2. InHeader(prog, k.fun)
    BY <2>1 DEF HeadersInv, HeadersExact, IsHeader
  <2>3. u \in DOMAIN graph /\ ~InHeader(prog, u) /\ graph[u].result = "assumed_equal"
    BY DEF HeadersInv, HeadersExact, Unsettled
  <2>4. u \in Dependencies(prog, k.fun)
    BY <2>3, CallersDepend DEF HeadersInv, TypeOK
  <2>5. u \in Definitive(graph)
    BY <2>2, <2>4 DEF HeadersInv, CachedSettled, SettledFor
  <2>. QED
    BY <2>3, <2>5 DEF Definitive, Definite
<1>. QED
  BY <1>1, <1>2, <1>3, InitType, NextType, PTL DEF Spec

=============================================================================
