-------------------------- MODULE MCModuleCompare --------------------------
(***************************************************************************)
(* Families of modules on which TLC checks ModuleCompare.  The functions   *)
(* are the main one, 1, a function 2 with a parameter, a function 3, and   *)
(* an abstraction of inline assembly, 4.                                   *)
(***************************************************************************)
EXTENDS ModuleCompare

Plain(d) == [kind |-> "plain", fun |-> NoFun, args |-> <<d>>, macro |-> NoFun]
Cast == [kind |-> "cast", fun |-> NoFun, args |-> <<>>, macro |-> NoFun]
Call(f, args) == [kind |-> "call", fun |-> f, args |-> args, macro |-> NoFun]
FromMacro(f, i) == [i EXCEPT !.macro = f]
NoBody == <<>>   \* a function 2, 3 or 4 is only declared

UpTo(n, instrs) == UNION {[1 .. k -> instrs] : k \in 0 .. n}
Pair(l, r) == [L |-> l, R |-> r]
Both(x) == Pair(x, x)
Mains(instrs) == {Pair(l, r) : l \in UpTo(2, instrs), r \in UpTo(2, instrs)}

\* The pair of modules with these bodies of 1, 2 and 3; function 2 has arity2
\* parameters.
Versions(main, second, third, arity2, cached) ==
    LET bodies == Pair(<<main.L, second.L, third.L, NoBody>>, <<main.R, second.R, third.R, NoBody>>)
        Defined(b) == {1} \cup {f \in 2 .. 4 : b[f] # NoBody}
    IN  [main    |-> 1,
         defined |-> Pair(Defined(bodies.L), Defined(bodies.R)),
         arity   |-> Pair(<<0, arity2.L, 0, 1>>, <<0, arity2.R, 0, 1>>),
         body    |-> bodies,
         cached  |-> cached]

\* Main functions with every kind of call.
CallMains == Mains({Plain("x"), Call(2, <<"x">>), Call(2, <<"y">>), Call(3, <<>>)})
CallSeconds == {Both(<<Plain("p1")>>),
                Pair(<<Plain("p1")>>, <<Cast, Plain("p1")>>),
                Pair(<<Plain("p1")>>, <<Plain("x")>>),
                Both(<<Call(3, <<>>)>>),
                Pair(<<Call(3, <<>>)>>, <<Plain("x")>>),
                Pair(<<Plain("p1"), Call(3, <<>>)>>, <<Plain("p1"), Plain("x")>>)}
CallThirds == {Both(<<Plain("x")>>), Pair(<<Plain("x")>>, <<Plain("y")>>), Pair(<<Plain("x")>>, NoBody)}

CallPrograms ==
    {Versions(m, g, h, Both(1), {}) : m \in CallMains, g \in CallSeconds, h \in CallThirds}

\* Casts, code that comes from a macro, inline assembly, and what the cache
\* may list.
OddMains == Mains({Cast, FromMacro(2, Plain("x")), Call(2, <<"x">>), Call(4, <<"x">>)})
OddSeconds == {Both(<<Plain("p1")>>),
               Pair(<<Plain("p1")>>, <<Plain("y")>>),
               Pair(<<Plain("p1")>>, NoBody),
               Pair(<<Plain("p1"), Call(4, <<"x">>)>>, <<Plain("p1"), Call(4, <<"y">>)>>)}

OddPrograms ==
    {Versions(m, g, Both(NoBody), Both(1), {}) : m \in OddMains, g \in OddSeconds}
        \cup {Versions(m, Both(<<Plain("p1")>>), Both(NoBody), Both(1), {2}) : m \in OddMains}

\* The second function has one more parameter on the right.
MoreArgs(b) == [n \in DOMAIN b |-> IF b[n].fun = 2 THEN [b[n] EXCEPT !.args = Append(@, "y")] ELSE b[n]]

ChangedPrograms ==
    {Versions(Pair(m.L, MoreArgs(m.R)), g, Both(NoBody), Pair(1, 2), {}) :
        m \in CallMains,
        g \in {Both(<<Plain("p1")>>), Pair(<<Plain("p1")>>, <<Plain("p2")>>)}}

\* Recursion, with the same calls on both sides.
Renamed(b) == [n \in DOMAIN b |-> IF b[n].kind = "plain" THEN Plain("y") ELSE b[n]]

RecursiveMains ==
    LET mains == UpTo(2, {Plain("x"), Call(2, <<"x">>), Call(3, <<>>)})
    IN  {Both(b) : b \in mains} \cup {Pair(b, Renamed(b)) : b \in mains}

RecursivePrograms ==
    {Versions(m, g, h, Both(1), {}) :
        m \in RecursiveMains,
        g \in {Both(<<Plain("p1"), Call(2, <<"p1">>)>>),
               Both(<<Plain("p1"), Call(3, <<>>)>>),
               Pair(<<Plain("p1"), Call(3, <<>>)>>, <<Plain("x"), Call(3, <<>>)>>)},
        h \in {Both(<<Call(2, <<"x">>)>>), Both(<<Plain("x"), Call(1, <<>>)>>)}}

AllFamilies == {CallPrograms, OddPrograms, ChangedPrograms, RecursivePrograms}

=============================================================================
