-------------------------- MODULE MCFunctionCompare --------------------------
(***************************************************************************)
(* Families of pairs of functions on which TLC checks FunctionCompare.     *)
(***************************************************************************)
EXTENDS FunctionMeaning

I(name, op, kind, args, to) == [name |-> name, op |-> op, kind |-> kind, args |-> args, to |-> to]
Plain(n, k, args) == I(n, "plain", k, args, <<>>)
Ret(n, args) == I(n, "ret", "", args, <<>>)
Jump(n, b) == I(n, "br", "", <<>>, <<b>>)
Branch(n, c, b1, b2) == I(n, "br", "", <<c>>, <<b1, b2>>)
Cmp(n, pred, args) == I(n, "cmp", pred, args, <<>>)

Predicates == [p \in {"eq", "ne"} |-> IF p = "eq" THEN "ne" ELSE "eq"]
Code(blocks) == [b \in BlockNames |-> IF b \in DOMAIN blocks THEN blocks[b] ELSE <<>>]

\* Callees: f stores its argument, g is only declared.
NoBody == [c \in Consts |-> <<>>]
Bodies == [c \in Consts |-> IF c = "f" THEN <<Plain("i", "store", <<"a">>)>> ELSE <<>>]
Params == [c \in Consts |-> <<"a">>]

PairOf(l, r, callees) ==
    [fn |-> [s \in Side |-> IF s = "L" THEN l ELSE r],
     params |-> [s \in Side |-> Params], callee |-> [s \in Side |-> callees]]
PairsOf(fs, callees) == {PairOf(l, r, callees) : l \in fs, r \in fs}

\* One block of up to three instructions on two arguments.
StraightFns ==
    LET First == {I("i", "alloca", "add", <<>>, <<>>)}
                 \cup {I("i", "cast", "", <<"a">>, <<>>), Plain("i", "add", <<"a", "b">>),
                       I("i", "call", "", <<"a", "f">>, <<>>)}
        Second == {I("j", "cast", "", <<v>>, <<>>) : v \in {"b"}}
                  \cup {I("j", "alloca", "add", <<>>, <<>>), Plain("j", "store", <<"a">>),
                        Plain("j", "store", <<"i">>), Plain("j", "add", <<"a", "b">>),
                        I("j", "call", "", <<"a", "g">>, <<>>)}
        Third == {Plain("k", "store", <<v>>) : v \in {"i", "j"}}
                 \cup {Plain("k", "add", <<"j", "i">>)}
    IN  {[args |-> <<"a", "b">>, entry |-> "1", code |-> Code("1" :> is)] :
            is \in {<<i, Ret("t", <<v>>)>> : i \in First, v \in {"a", "i"}}
                   \cup {<<i, j, k, Ret("t", <<>>)>> : i \in First, j \in Second, k \in Third}}

\* A branch on a comparison: blocks 2 and 3 have an instruction each and return.
TreeFns ==
    {[args |-> <<"a", "b">>, entry |-> "1",
      code |-> Code(("1" :> <<Cmp("i", p, <<v, "x">>), Branch("t", "i", to[1], to[2])>>)
               @@ ("2" :> <<Plain("j", k[1], <<"a">>), Ret("u", <<"j">>)>>)
               @@ ("3" :> <<Plain("k", k[2], <<w>>), Ret("v", <<>>)>>))] :
        p \in {"eq", "ne"}, v \in {"a", "b"}, to \in {<<"2", "3">>, <<"3", "2">>, <<"2", "2">>},
        k \in {"add", "store"} \X {"add", "store"}, w \in {"a", "i"}}

\* The branches meet, with or without PHI instruction, or go back.
JoinFns ==
    {[args |-> <<"a", "b">>, entry |-> "1",
      code |-> Code(("1" :> <<Branch("t", "a", "2", "3")>>)
               @@ ("2" :> <<Plain("j", "add", <<"b">>), Jump("u", to[1])>>)
               @@ ("3" :> <<Plain("k", k, <<"b">>), Jump("v", to[2])>>)
               @@ ("4" :> <<Plain("l", "store", <<"b">>), Ret("w", <<>>)>>)
               @@ ("5" :> <<Plain("m", "add", <<"b">>), Ret("s", <<>>)>>))] :
        k \in {"add", "store"}, to \in {"2", "3", "4", "5"} \X {"3", "4", "5"}}

PhiFns ==
    {[args |-> <<"a", "b">>, entry |-> "1",
      code |-> Code(("1" :> <<Branch("t", "a", "2", "3")>>)
               @@ ("2" :> <<Plain("j", "add", <<"b">>), Jump("u", "4")>>)
               @@ ("3" :> <<Jump("v", "4")>>)
               @@ ("4" :> <<I("p", "phi", "", vs, bs), Plain("k", "store", <<"p">>),
                            Branch("w", "p", to[1], to[2])>>)
               @@ ("5" :> <<Ret("s", <<"p">>)>>))] :
        vs \in {"j", "x", "y"} \X {"x", "b"}, bs \in {<<"2", "3">>},
        to \in {<<"5", "5">>, <<"3", "5">>, <<"5", "2">>}}

\* Calls with a line number: x and y come from __LINE__.
LineFns ==
    {[args |-> <<"a", "b">>, entry |-> "1",
      code |-> Code("1" :> <<I("i", "call", "", Append(vs, "g"), <<>>), Ret("t", <<v>>)>>)] :
        vs \in {<<"a", "x">>, <<"b", "x">>, <<"a", "y">>, <<"y">>, <<"x">>}, v \in {"i", "x", "y"}}

MacroLines == {<<"x", "y">>, <<"y", "x">>}

\* Functions that have gained or lost an argument.
ArgumentFns ==
    {[args |-> as, entry |-> "1", code |-> Code("1" :> <<Plain("i", "add", <<v>>), Ret("t", <<"i">>)>>)] :
        as \in {<<"a">>, <<"a", "b">>, <<"b", "a">>}, v \in {"a", "x"}}

Straight == PairsOf(StraightFns, Bodies)
Trees == PairsOf(TreeFns, NoBody)
JoinPairs == PairsOf(JoinFns, NoBody)
PhiPairs == PairsOf(PhiFns, NoBody)
LinePairs == PairsOf(LineFns, NoBody)
ArgumentPairs == PairsOf(ArgumentFns, NoBody)

Families == {Straight, Trees, JoinPairs, PhiPairs, LinePairs, ArgumentPairs}
JoinFamily == {JoinPairs}
=============================================================================
