---------------------------- MODULE MCPreprocess ----------------------------
(***************************************************************************)
(* Pairs of modules for Preprocess: a compared function of two             *)
(* instructions and a return, next to a function that it may call.         *)
(***************************************************************************)
EXTENDS Preprocess

Sig(ret, params) == [ret |-> ret, params |-> params]
F(id, name, sig, body) == [id |-> id, name |-> name, sig |-> sig, body |-> body, asm |-> 0]
I(op, callee, args, sig, loc) == [op |-> op, callee |-> callee, args |-> args, sig |-> sig, loc |-> loc]
CallOf(callee, args, sig) == I("call", callee, args, sig, 2)
Numbered(i, n) == [id |-> n, op |-> i.op, callee |-> i.callee, args |-> i.args, sig |-> i.sig, loc |-> i.loc]
Ret(v) == I("ret", NoValue, <<v>>, Void(<<>>), 3)

OnePtr == Sig("ptr", <<"ptr">>)
gSig(ret) == Sig(ret, <<"ptr">>)
Const(n) == <<"const", n>>
Arg(n) == <<"arg", n>>
\* Instructions that may stand after one whose result is prev; ret is what g returns.
Simple(prev) ==
    {I("gep", NoValue, <<prev, Const(3)>>, Void(<<>>), 1), I("gep", NoValue, <<prev, Arg(2)>>, Void(<<>>), 1),
     I("cast", NoValue, <<prev>>, Void(<<>>), 1), I("use", NoValue, <<prev>>, Void(<<>>), 2)}
Calls(prev, ret) ==
    {CallOf(<<"fun", 2>>, <<prev>>, gSig(ret)),
     CallOf(<<"fun", 3>>, <<prev>>, gSig("int")),
     CallOf(<<"cast", 3>>, <<prev, Const(5)>>, Sig("ptr", <<"int", "int">>)),
     CallOf(<<"cast", 2>>, <<prev>>, OnePtr),
     CallOf(<<"cast", 5>>, <<prev>>, Sig("void", <<"ptr">>)),
     CallOf(<<"fun", 1>>, <<prev, Arg(2)>>, Sig("ptr", <<"ptr", "ptr">>))}
Abstract(prev) ==
    {CallOf(<<"asm", 1>>, <<Arg(1), Const(7), prev>>, Sig("int", <<"ptr", "int", "ptr">>)),
     CallOf(<<"asm", 2>>, <<prev>>, OnePtr),
     CallOf(Arg(2), <<prev>>, OnePtr)}
Kernel(prev) ==
    {CallOf(<<"fun", 4>>, <<prev, Const(9)>>, Sig("int", <<"ptr", "int">>)),
     CallOf(<<"fun", 5>>, <<Arg(1), Const(7), prev>>, Sig("void", <<"ptr", "int", "ptr">>)),
     CallOf(<<"fun", 7>>, <<>>, Sig("void", <<>>)),
     CallOf(<<"memcpy", 0>>, <<Arg(1), prev, Const(8), Const(1)>>, Sig("void", <<"ptr", "ptr", "int", "int">>)),
     CallOf(<<"expect", 0>>, <<prev, Const(1)>>, Sig("ptr", <<"ptr", "int">>)),
     CallOf(<<"lifetime", 0>>, <<prev>>, Sig("void", <<"ptr">>))}
Memcpy(prev) == {CallOf(<<"fun", 6>>, <<Arg(1), prev, Const(8)>>, Sig("ptr", <<"ptr", "ptr", "int">>))}

\* What can be used after i: its result, if there is one, or the argument.
After(i, n) ==
    IF i.op = "use" \/ (i.op = "call" /\ (i.sig.ret = "void" \/ i.callee = <<"fun", 6>>)) THEN {Arg(1)}
    ELSE {<<"instr", n>>, Arg(1)}

\* g and g.1, which differ; the declared functions.
G(ret) == F(2, <<"g">>, gSig(ret), <<Numbered(I("use", NoValue, <<Arg(1)>>, Void(<<>>), 4), 1),
                                     Numbered(CallOf(<<"fun", 3>>, <<Arg(1)>>, gSig("int")), 2),
                                     Numbered(Ret(IF ret = "void" THEN Arg(1) ELSE <<"instr", 2>>), 3)>>)
G1 == F(3, <<"g", "1">>, gSig("int"), <<Numbered(I("use", NoValue, <<Const(4)>>, Void(<<>>), 4), 1),
                                        Numbered(Ret(<<"instr", 1>>), 2)>>)
Declared == <<F(4, <<"printk">>, Sig("int", <<"ptr">>), <<>>),
              F(5, <<"warn_slowpath_fmt">>, Sig("void", <<"ptr", "int", "ptr">>), <<>>),
              F(6, <<"__memcpy">>, Sig("ptr", <<"ptr", "ptr", "int">>), <<>>),
              F(7, <<"__compiletime_assert_1">>, Sig("void", <<>>), <<>>),
              F(8, <<"__compiletime_assert_2">>, Sig("void", <<>>), <<>>)>>
Main(ret, body) == F(1, <<"f">>, Sig(ret, <<"ptr", "ptr">>), body)
Module(funs) == [funs |-> funs, main |-> 1]

AnyInstr(prev, ret) == Simple(prev) \cup Calls(prev, ret) \cup Abstract(prev) \cup Kernel(prev) \cup Memcpy(prev)
\* Two instructions and the return of the last result, or of the argument.
Bodies(First(_), Second(_)) ==
    UNION {UNION {UNION {{<<Numbered(i, 1), Numbered(j, 2), Numbered(Ret(v), 3)>> : v \in After(j, 2)}
                         : j \in Second(prev)} : prev \in After(i, 1)} : i \in First(Arg(1))}

\* The other version: f and g return nothing, or something, and accesses a field.
OtherBody == <<Numbered(I("gep", NoValue, <<Arg(1), Const(3)>>, Void(<<>>), 1), 1),
               Numbered(I("use", NoValue, <<<<"instr", 1>>>>, Void(<<>>), 2), 2)>>
OtherModule(fr, gr) == Module(<<Main(fr, OtherBody), G(gr), G1>>)
Given(body, ret, other) == [L |-> Module(<<Main("ptr", body), G(ret), G1>> \o Declared), R |-> other]

\* Three instructions, to have casts and accesses in a row.
Longer ==
    {<<Numbered(I("gep", NoValue, <<Arg(1), Const(3)>>, Void(<<>>), 1), 1),
       Numbered(I(op, NoValue, IF op = "gep" THEN <<<<"instr", 1>>, Const(0)>> ELSE <<<<"instr", 1>>>>, Void(<<>>), l), 2),
       Numbered(I("use", NoValue, <<<<"instr", 2>>, v>>, Void(<<>>), 2), 3), Numbered(Ret(v), 4)>>
     : op \in {"gep", "cast"}, l \in {1, 2}, v \in {<<"instr", 1>>, <<"instr", 2>>, Arg(1)}}

AnyPairs(ret) ==
    {Given(body, ret, OtherModule("void", "void")) :
        body \in Bodies(LAMBDA v : AnyInstr(v, ret), LAMBDA v : AnyInstr(v, ret))}
CallPairs ==
    {Given(body, "int", OtherModule(fr, "int")) : fr \in {"ptr", "void"},
        body \in Longer \cup Bodies(LAMBDA v : Calls(v, "int"), LAMBDA v : Calls(v, "int") \cup Abstract(v))}
VoidPairs ==
    {Given(body, "void", OtherModule("ptr", "void")) :
        body \in Bodies(LAMBDA v : Calls(v, "void"), LAMBDA v : Calls(v, "void"))}
ModelPairs == AnyPairs("int") \cup CallPairs \cup VoidPairs
BugAsm == {1}
=============================================================================
