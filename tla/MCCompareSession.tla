-------------------------- MODULE MCCompareSession --------------------------
(***************************************************************************)
(* Families of programs on which TLC checks CompareSession.                *)
(***************************************************************************)
EXTENDS CompareSession

Three == {1, 2, 3}
NoInlining == [p \in Pairs |-> [s \in Side |-> {}]]

\* Functions beyond those of a family are not defined.
Filled(t, default) == [f \in Funs |-> IF f \in DOMAIN t THEN t[f] ELSE default]

\* Without variants: e and c give the outcome of comparing bodies.
StrongProgram(homeL, homeR, e, c, group, absent) ==
    [home        |-> [s \in Side |-> Filled(IF s = "L" THEN homeL ELSE homeR, NoFile)],
     variantSide |-> "L",
     equal       |-> [p \in Pairs |-> Filled(e, TRUE)[p.fun]],
     calls       |-> [p \in Pairs |-> {Strong(f) : f \in Filled(c, {})[p.fun]}],
     inlined     |-> NoInlining,
     group       |-> group,
     absent      |-> absent]

\* Every call graph on three functions without self-calls, every outcome, all
\* homes in two C files and a header; functions of C files are compared.
SmallPrograms ==
    LET Homes == {h \in [Three -> Files] : h[1] = "a.c"}
        CallGraphs == {c \in [Three -> SUBSET Three] : \A f \in Three : f \notin c[f]}
    IN  {StrongProgram(h, h, e, c, {f \in Three : h[f] \in CFiles}, {}) :
            h \in Homes, e \in [Three -> BOOLEAN], c \in CallGraphs}

\* The definitions of two functions move between files or disappear, so that
\* definitions are missing on one side; a function may be gone from the list.
MovedPrograms ==
    LET Homes == {<<"a.c", h2, h3>> : h2 \in CFiles \cup {NoFile}, h3 \in Files \cup {NoFile}}
        Outcomes == {<<TRUE, e, TRUE>> : e \in BOOLEAN} \cup {<<TRUE, e, FALSE>> : e \in BOOLEAN}
        CallGraphs == {<<c1, c2, c3>> : c1 \in {{2}, {2, 3}}, c2 \in {{}, {3}}, c3 \in {{}, {2}}}
    IN  {StrongProgram(l, r, e, c, {f \in Three : {l[f], r[f]} \cap Headers = {}}, a) :
            l \in Homes, r \in Homes, e \in Outcomes, c \in CallGraphs, a \in {{}, {2}}}

SessionPrograms == SmallPrograms \cup MovedPrograms

\* A function v returns a value on the left and none on the right: the pair
\* (v, v) differs at once, and callers that ignore the value call v.void.
VariantProgram(v, e, c) ==
    [home        |-> [s \in Side |-> Filled([f \in Three |-> "a.c"], NoFile)],
     variantSide |-> "L",
     equal       |-> [p \in Pairs |-> p # Strong(v) /\ Filled(e, TRUE)[p.fun]],
     calls       |-> [p \in Pairs |-> IF p = Strong(v) THEN {} ELSE Filled(c, {})[p.fun]],
     inlined     |-> NoInlining,
     group       |-> Three,
     absent      |-> {}]

VariantPrograms(v) ==
    LET Callees1(f) == SUBSET ({Strong(h) : h \in Three \ {f}} \cup ({Variant(v)} \ {Variant(f)}))
    IN  {VariantProgram(v, <<e1, e2, e3>>, <<c1, c2, c3>>) :
            e1 \in BOOLEAN, e2 \in BOOLEAN, e3 \in BOOLEAN,
            c1 \in Callees1(1), c2 \in Callees1(2), c3 \in Callees1(3)}

FirstIsVariant == VariantPrograms(1)

\* A few of the moved programs: enough for reruns, of which some fail.
Homes3(p, s) == [f \in Three |-> p.home[s][f]]
SomeMovedPrograms ==
    {p \in MovedPrograms : /\ Homes3(p, "L") \in {<<"a.c", "b.c", "b.c">>, <<"a.c", "a.c", "b.c">>}
                           /\ Homes3(p, "R") \in {<<"a.c", "a.c", "b.c">>, <<"a.c", "b.c", "a.c">>,
                                                  <<"a.c", "b.c", NoFile>>}
                           /\ p.equal[Strong(2)] /\ ~p.equal[Strong(3)]
                           /\ p.calls[Strong(1)] = {Strong(2)}}

\* Sessions with variants, and sessions that link.
FailurePrograms == FirstIsVariant \cup SomeMovedPrograms

\* A header function, 3, depends on at most one function that is compared, or
\* never defined, elsewhere.
HeaderPrograms ==
    LET Homes == {<<"a.c", h2, "h.h", h4>> : h2 \in CFiles, h4 \in {"b.c", "h.h", NoFile}}
        CallGraphs == {<<c1, c2, c3, c4>> :
            c1 \in SUBSET {2, 3, 4}, c2 \in SUBSET {1, 3, 4}, c3 \in {{}, {1}, {2}, {4}}, c4 \in {{}, {3}}}
    IN  {StrongProgram(h, h, <<TRUE, TRUE, e, TRUE>>, c, {f \in Funs : h[f] \in CFiles}, {}) :
            h \in Homes, e \in BOOLEAN, c \in CallGraphs}

\* Sessions in which SimpLL or a link may fail, and sessions with header functions.
HardPrograms == FailurePrograms \cup HeaderPrograms

=============================================================================
