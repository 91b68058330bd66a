------------------------------ MODULE MCSlicer ------------------------------
(***************************************************************************)
(* Small functions on which TLC checks Slicer.                             *)
(***************************************************************************)
EXTENDS Slicer

I(op, ops) == [op |-> op, ops |-> ops, from |-> <<>>, callee |-> ""]
Call(callee, ops) == [I("call", ops) EXCEPT !.callee = callee]
Phi(ops, from) == [I("phi", ops) EXCEPT !.from = from]
Fun(code, succ) ==
    [code |-> code, succ |-> succ, order |-> [b \in DOMAIN code |-> b],
     live |-> UNION {{<<b, n>> : n \in DOMAIN code[b]} : b \in DOMAIN code}]
Run(pass, funs) == {[fun |-> fun, pass |-> pass, void |-> FALSE, called |-> FALSE] : fun \in funs}

\* All ways through n blocks of which the last one returns.  Each block calls a
\* function, and each one that two blocks are before has a phi.
Ways(n) == {<<s>> : s \in 2 .. n} \cup {way \in (2 .. n) \X (2 .. n) : way[1] # way[2]}
Graph(n) == {[b \in 1 .. n |-> IF b = n THEN <<>> ELSE g[b]] : g \in [1 .. n - 1 -> Ways(n)]}
Before(succ, b) == SetToSortSeq({p \in DOMAIN succ : b \in Range(succ[p])}, <)
Joins(succ, b) == Len(Before(succ, b)) > 1
FlowBlock(succ, conds, b) ==
    (IF Joins(succ, b) THEN <<Phi([k \in DOMAIN Before(succ, b) |-> Const(Before(succ, b)[k] % 2)], Before(succ, b))>> ELSE <<>>)
    \o <<Call("f", <<Const(0)>>)>>
    \o <<IF succ[b] = <<>> THEN I("ret", <<IF Joins(succ, b) THEN Ref(<<b, 1>>) ELSE Const(0)>>)
         ELSE I("br", IF Len(succ[b]) = 2 THEN <<conds[b]>> ELSE <<>>)>>
Flow(n) ==
    {fun \in {Fun([b \in 1 .. n |-> FlowBlock(succ, conds, b)], succ) :
                succ \in Graph(n), conds \in [1 .. n - 1 -> {Var, Arg}]} :
        Reach(fun, {1}) = 1 .. n}

\* Without calls, blocks with nothing to keep can go.
Quiet(fun) ==
    LET code == [b \in DOMAIN fun.code |-> SelectSeq(fun.code[b], LAMBDA i : i.op # "call")]
    IN  Fun(code, fun.succ)

\* Two ways, or a loop, with operations.
Data ==
    {Fun(<< <<I("def", <<d1>>), I("br", <<cond>>)>>,
            <<I("def", <<d2, d1>>), I("br", <<>>)>>,
            <<Call("f", <<Ref(<<1, 1>>)>>), I("br", <<>>)>>,
            <<Phi(<<p2, p3>>, <<2, 3>>), I("def", <<Ref(<<4, 1>>), d4>>), I("dbg", <<Ref(<<4, 2>>)>>), I("ret", <<r>>)>> >>,
         << <<2, 3>>, <<4>>, <<4>>, <<>> >>) :
        d1 \in {Var, Arg}, d2 \in {Var, Ref(<<1, 1>>)}, d4 \in {Var, Const(1)}, cond \in {Arg, Ref(<<1, 1>>)},
        p2 \in {Const(0), Ref(<<2, 1>>)}, p3 \in {Const(0), Arg}, r \in {Const(0), Ref(<<4, 1>>), Ref(<<4, 2>>)}}
Loops ==
    {Fun(<< <<I("br", <<>>)>>,
            <<Phi(<<Const(0), Ref(<<3, 1>>)>>, <<1, 3>>), Call("f", <<Ref(<<2, 1>>)>>), I("br", <<cond>>)>>,
            <<I("def", <<Ref(<<2, 1>>), d>>), I("br", <<>>)>>,
            <<I("ret", <<r>>)>> >>,
         << <<2>>, ways, <<2>>, <<>> >>) :
        cond \in {Var, Arg, Ref(<<2, 1>>)}, d \in {Var, Arg}, r \in {Const(0), Ref(<<2, 1>>), Var},
        ways \in {<<3, 4>>, <<4, 3>>}}

\* The third block decides on the value of a phi, though nothing in it is included.
Deciding ==
    {Fun(<< <<I("br", <<>>)>>, <<I("br", <<Var>>)>>, <<I("br", <<>>)>>,
            <<Phi(<<Const(0), Const(n)>>, <<2, 3>>), Call("f", <<Ref(<<4, 1>>), Var>>), I("br", <<Arg>>)>>,
            <<Call("f", <<Var>>), I("br", <<>>)>>, <<I("ret", <<Const(0)>>)>> >>,
         << <<2>>, <<3, 4>>, <<4>>, <<3, 5>>, <<6>>, <<>> >>) : n \in 0 .. 1}

\* A loop is entered through a block that cannot go, since the fifth block gives the phi
\* another value; the block that comes after the entry is not the one it leads to.
Entered ==
    {Fun(<< <<I("br", <<>>)>>, <<Call("f", <<Var>>), I("br", back)>>, <<I("br", <<>>)>>,
            <<Phi(<<Const(0), Const(n)>> \o [k \in DOMAIN back |-> Const(1)], <<3, 5>> \o [k \in DOMAIN back |-> 2]),
              Call("f", <<Ref(<<4, 1>>), Var>>), I("br", <<Var>>)>>,
            <<Call("f", <<c>>), I("br", <<Arg>>)>>, <<I("br", <<Arg>>)>>, <<I("ret", <<Const(0)>>)>> >>,
         << <<3>>, IF back = <<>> THEN <<7>> ELSE <<7, 4>>, <<4>>, <<5, 6>>, <<3, 4>>, <<3, 2>>, <<>> >>) :
        n \in 0 .. 1, back \in {<<>>, <<Arg>>}, c \in {Var, Const(1)}}

\* An allocation that is written to directly, through an address, and by a function.
Memory ==
    {Fun(<< <<I("alloca", <<>>), I("gep", <<Ref(<<1, 1>>)>>), I("store", <<v, to>>), I("br", <<Arg>>)>>,
            <<Call("f", <<use>>), I("br", <<>>)>>,
            <<I("load", <<Ref(<<1, 1>>)>>), I("def", <<Ref(<<3, 1>>), d>>), I("ret", <<r>>)>> >>,
         << <<2, 3>>, <<3>>, <<>> >>) :
        v \in {Var, Arg, Const(0)}, to \in {Ref(<<1, 1>>), Ref(<<1, 2>>)}, use \in {Ref(<<1, 1>>), Ref(<<1, 2>>), Const(1)},
        d \in {Var, Const(0)}, r \in {Ref(<<3, 1>>), Ref(<<3, 2>>), Const(0)}}

\* Calls whose results are stored or used, through addresses of functions or not.
Address == <<"fun", 0, 0>>
Calls ==
    {Fun(<< <<I("alloca", <<>>), Call(c, <<v>>), I("store", <<s, Ref(<<1, 1>>)>>), I("br", <<b>>)>>,
            <<Call("kmalloc", <<Const(1)>>), I("gep", <<Ref(<<2, 1>>)>>), I("store", <<Address, Ref(<<2, 2>>)>>),
              Call("indirect", <<u, Ref(<<2, 2>>)>>), I("br", <<>>)>>,
            <<I("def", <<Arg>>), I("ret", <<r>>)>> >>,
         << <<2, 3>>, <<3>>, <<>> >>) :
        c \in {"f", "pure"}, v \in {Var, Arg}, s \in {Ref(<<1, 2>>), Address, Const(0)},
        b \in {Var, Ref(<<1, 2>>)}, u \in {Arg, Ref(<<1, 2>>)}, r \in {Const(0), Ref(<<3, 1>>)}}

Pure == {"pure"}
Slices ==
    Run("scan", Flow(3) \cup Flow(4) \cup {Quiet(fun) : fun \in Flow(4)} \cup Data \cup Loops \cup Deciding \cup Entered \cup Memory \cup Calls)
    \cup Run("control flow", Data \cup Loops \cup Calls \cup Memory)
=============================================================================
