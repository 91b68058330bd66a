--------------------------- MODULE MCValueCompare ---------------------------
(***************************************************************************)
(* Small sets of types, constants, accesses and instructions on which TLC  *)
(* checks ValueCompare.                                                    *)
(***************************************************************************)
EXTENDS ValueCompare

T(id, n, sub, name) == [id |-> id, n |-> n, sub |-> sub, name |-> name]
i1 == IntType(1)
i8 == IntType(8)
i16 == IntType(16)
i32 == IntType(32)
i64 == IntType(64)
Float == T("float", 0, <<>>, "")
Double == T("double", 0, <<>>, "")
Ptr(space) == T("ptr", space, <<>>, "")
Array(n, t) == T("array", n, <<t>>, "")
Vector(n, t) == T("vector", n, <<t>>, "")
Struct(name, ts) == T("struct", 0, ts, name)
Fun(variadic, ts) == T("func", variadic, ts, "")
Inner == Struct("in", <<i32, i8>>)
Items(sort, its) == {[sort |-> sort, it |-> it] : it \in its}

Types ==
    {i1, i8, i32, i64, Float, Double, T("void", 0, <<>>, ""), Ptr(0), Ptr(1), Ptr(2),
     Array(2, i32), Array(3, i32), Array(2, i8), Array(2, Array(2, i8)), Vector(2, i32), Vector(8, i8),
     Struct("s", <<i32>>), Struct("s", <<i32, i8>>), Struct("t", <<i32, i64>>),
     T("struct", 1, <<i32, i8>>, "s"), Struct("s", <<Inner, i8>>),
     Fun(0, <<i32>>), Fun(0, <<i32, i8>>), Fun(1, <<i32, i8>>), Fun(0, <<i64, Ptr(0)>>)}

Unions ==
    {i32, i64, Ptr(0), Array(2, i32), Array(3, i32), Struct("s", <<i32>>), Struct("s", <<i64, i64>>),
     Struct("union.u", <<i64>>), Struct("union.v", <<Array(3, i32)>>),
     Struct("s", <<Struct("union.u", <<i64>>)>>)}

C(id, type, val, ops, name) == [id |-> id, type |-> type, val |-> val, ops |-> ops, name |-> name]
Num(t, n) == C("int", t, n, <<>>, "")
Global(name, constant, init) == C("global", Ptr(0), constant, init, name)
Expr(op, t, ops) == C("expr", t, op, ops, "")
Data(id, t, bytes) == C(id, t, bytes, <<>>, "")

\* Besides others: the same bytes as vectors of different types.
Constants ==
    {Num(i8, 0), Num(i8, 1), Num(i32, 0), Num(i32, 1), Num(i32, 2), Num(i64, 0), Num(i64, 1),
     C("fp", Float, 0, <<>>, ""), C("fp", Float, 1, <<>>, ""), C("fp", Double, 1, <<>>, ""),
     C("null", Ptr(0), 0, <<>>, ""), C("null", Ptr(1), 0, <<>>, ""),
     C("undef", i32, 0, <<>>, ""), C("undef", i64, 0, <<>>, ""),
     C("zero", Array(2, i8), 0, <<>>, ""), C("zero", Struct("s", <<i32, i8>>), 0, <<>>, ""),
     Data("data array", Array(2, i8), <<0, 1>>), Data("data array", Array(3, i8), <<0, 0, 1>>),
     Data("data vector", Vector(2, i8), <<0, 1>>), Data("data vector", Vector(1, i16), <<0, 1>>),
     Data("data vector", Vector(1, i16), <<1, 0>>), C("zero", Vector(1, i16), 0, <<>>, ""),
     C("zero", Vector(2, i8), 0, <<>>, ""), Data("data vector", Vector(4, i8), <<0, 1, 0, 0>>),
     C("struct", Struct("s", <<i32, i8>>), 0, <<Num(i32, 1), Num(i8, 0)>>, ""),
     C("struct", Struct("t", <<i32, i8>>), 0, <<Num(i32, 1), Num(i8, 1)>>, "")}

Addresses ==
    {Global("x", TRUE, <<Num(i32, 1)>>), Global("y", TRUE, <<Num(i32, 1)>>), Global("y", FALSE, <<Num(i32, 2)>>),
     Global("x", TRUE, <<>>), Global("z", TRUE, <<Num(i32, 2)>>),
     Expr("ptrtoint", i64, <<Global("y", FALSE, <<Num(i32, 2)>>)>>),
     Expr("ptrtoint", i64, <<Global("z", FALSE, <<Num(i32, 2)>>)>>),
     Expr("bitcast", Ptr(0), <<Global("y", FALSE, <<Num(i32, 2)>>)>>),
     Expr("zext", i64, <<Expr("ptrtoint", i32, <<Global("y", FALSE, <<Num(i32, 2)>>)>>)>>),
     Expr("inttoptr", Ptr(0), <<Num(i64, 3)>>),
     Expr("inttoptr", Ptr(0), <<Expr("ptrtoint", i64, <<Global("z", FALSE, <<Num(i32, 2)>>)>>)>>),
     Num(i64, 1), Num(i64, 3), Num(i32, 3), C("null", Ptr(0), 0, <<>>, "")}

Operations ==
    {Expr(op, i64, <<Expr("ptrtoint", i64, <<Global("x", FALSE, <<>>)>>), Num(i64, n)>>) :
        op \in {"add", "sub", "and"}, n \in 1 .. 3}

\* Structs in both versions, with their members in C, in bits.  s gets a member in front and
\* "in" its members in the other order; f, with bit-fields, gets two in
\* front of them; d has another member a.  The members of t have no names, and one of p asks for an
\* alignment.
M(name, off, size) == [name |-> name, off |-> off, size |-> size, align |-> 0, storage |-> off]
BitField(name, off, size, storage) == [M(name, off, size) EXCEPT !.storage = storage]
OldS == Struct("s", <<i32, Inner, i64>>)
NewInner == Struct("in", <<i8, i32>>)
NewS == Struct("s", <<i64, i32, NewInner, i64>>)
OldF == Struct("f", <<i8, i8, i8>>)
NewF == Struct("f", <<i8, i8, i8, i8, i8>>)
OldD == Struct("d", <<i32, i32>>)
NewD == Struct("d", <<i32, i64, i32>>)
StructT == Struct("t", <<i8, i8, i8>>)
StructP == Struct("p", <<i8, Array(3, i8), i32, i32>>)
LayoutT == <<M("k", 0, 8), M("", 8, 8), M("", 16, 8)>>
LayoutP == <<M("k", 0, 8), [M("l", 32, 32) EXCEPT !.align = 32], M("m", 64, 32)>>
Layouts ==
    [L |-> [s  |-> <<M("a", 0, 32), M("b", 32, 64), M("e", 128, 64)>>,
            in |-> <<M("c", 0, 32), M("d", 32, 8)>>,
            f  |-> <<M("k", 0, 8), BitField("x", 8, 3, 8), BitField("y", 11, 5, 8), M("z", 16, 8)>>,
            d  |-> <<M("g", 0, 32), M("a", 32, 32)>>, t |-> LayoutT, p |-> LayoutP],
     R |-> [s  |-> <<M("new", 0, 64), M("a", 64, 32), M("b", 96, 64), M("e", 192, 64)>>,
            in |-> <<M("d", 0, 8), M("c", 32, 32)>>,
            f  |-> <<M("k", 0, 8), M("w", 8, 8), M("v", 16, 8), BitField("x", 24, 3, 24), BitField("y", 27, 5, 24), M("z", 32, 8)>>,
            d  |-> <<M("g", 0, 32), M("h", 64, 64), M("a", 128, 32)>>, t |-> LayoutT, p |-> LayoutP]]
Value(n) == C("value", i64, n, <<>>, "")
Access(src, idx) == [src |-> src, idx |-> idx]
Zero == Num(i32, 0)

\* Places of both functions: the same member, as one expects; another one; and no access on
\* one side.
Place(o, n) == [old |-> o, new |-> n]
Member1(f, t, n) == Access(t, <<f, Num(i32, n)>>)
SamePlaces(f) ==
    {Place(Member1(f, OldS, n), Member1(f, NewS, n + 1)) : n \in 0 .. 2}
    \cup {Place(Member1(f, OldF, n), Member1(f, NewF, k)) : n \in 1 .. 2, k \in 3 .. 4}
    \cup {Place(Member1(f, Inner, n), Member1(f, NewInner, 1 - n)) : n \in 0 .. 1}
Places ==
    SamePlaces(Zero)
    \cup {Place(Member1(Value(1), OldS, 1), Member1(Value(1), NewS, 2)),
          Place(Member1(Num(i32, 1), OldS, 1), Member1(Num(i32, 1), NewS, 2)),
          Place(Member1(Zero, OldD, 1), Member1(Zero, NewD, 2)),
          Place(Member1(Zero, OldD, 0), Member1(Zero, NewD, 0)),
          Place(Member1(Zero, OldD, 1), Member1(Zero, NewS, 2)),
          Place(Member1(Zero, StructT, 2), Member1(Zero, StructT, 2)),
          Place(Member1(Zero, StructT, 1), Member1(Zero, StructT, 1)),
          Place(Member1(Zero, StructP, 2), Member1(Zero, StructP, 2)),
          Place(Member1(Zero, StructP, 3), Member1(Zero, StructP, 3)),
          Place(Member1(Zero, OldS, 2), NoAccess),
          Place(NoAccess, Member1(Zero, NewS, 0)),
          Place(Access(OldS, <<Zero, Num(i32, 1), Num(i32, 1)>>), Access(NewS, <<Zero, Num(i32, 2), Zero>>)),
          Place(Access(OldS, <<Value(1)>>), Access(NewS, <<Value(1)>>)),
          Place(Access(i32, <<Num(i32, 1)>>), Access(i64, <<Num(i32, 1)>>))}
Chains ==
    {<<a>> : a \in {Member1(Zero, OldS, 1), Member1(Zero, OldS, 2), Member1(Num(i32, 1), OldD, 0), Access(OldS, <<Value(1)>>)}}
    \cup {<<a, b>> : a \in {Member1(Zero, OldS, 1), Access(i8, <<C("int", i32, -4, <<>>, "")>>)},
                    b \in {Member1(Zero, Inner, 0), Member1(Zero, Inner, 1), Access(i32, <<Num(i32, 1)>>), Access(i64, <<Num(i32, 1)>>)}}

Asm(t, text, constraints, state) ==
    [id |-> "asm", type |-> t, asm |-> text, constraints |-> constraints, state |-> state]
Operands ==
    {Num(i8, 1), Num(i32, 1), Num(i32, 2), C("undef", i32, 0, <<>>, ""), Value(1), Value(2),
     Asm(Fun(0, <<i32>>), <<1>>, <<1>>, <<0, 0, 0>>), Asm(Fun(0, <<i64>>), <<1>>, <<1>>, <<0, 0, 0>>),
     Asm(Fun(0, <<i32>>), <<1, 1>>, <<1>>, <<0, 0, 0>>), Asm(Fun(0, <<i32>>), <<2>>, <<>>, <<0, 0, 0>>),
     Asm(Fun(0, <<i32>>), <<1>>, <<2>>, <<0, 0, 0>>), Asm(Fun(0, <<i32>>), <<1>>, <<1>>, <<1, 0, 0>>)}

I(op, type, args, state, more) ==
    [op |-> op, type |-> type, flags |-> 0, args |-> args, state |-> state,
     bundles |-> <<>>, range |-> <<>>, more |-> more]
NoType == T("none", 0, <<>>, "")
Call(f, type, args, struct) == I("call", type, args, <<0, 0>>, [callee |-> f, struct |-> struct])
Load(range) == [I("load", i32, <<Value(1)>>, <<0, 4, 0, 1>>, [callee |-> ""]) EXCEPT !.range = range]
IntA == Num(i32, 1)

Instructions ==
    {Load(<<>>), Load(<<Num(i32, 0), Num(i32, 4)>>), Load(<<Num(i32, 0), Num(i32, 8)>>),
     I("load", i32, <<Value(1)>>, <<1, 4, 0, 1>>, [callee |-> ""]),
     I("icmp", i1, <<Value(1), IntA>>, <<36>>, [callee |-> ""]),
     I("icmp", i1, <<Value(1), IntA>>, <<40>>, [callee |-> ""]),
     I("icmp", i1, <<Value(2), IntA>>, <<40>>, [callee |-> ""]),
     I("alloca", Ptr(0), <<IntA>>, <<8>>, [allocated |-> Struct("s", <<i32>>)]),
     I("alloca", Ptr(0), <<IntA>>, <<8>>, [allocated |-> Struct("s", <<i32, i32>>)]),
     I("alloca", Ptr(0), <<IntA>>, <<4>>, [allocated |-> Struct("s", <<i32>>)]),
     I("alloca", Ptr(0), <<IntA>>, <<8>>, [allocated |-> i64])}

Calls ==
    {Call("kmalloc", Ptr(0), <<Num(i64, n), IntA>>, t) :
        n \in {4, 8}, t \in {NoType, Struct("s", <<i32>>), Struct("s", <<i32, i32>>)}}
    \cup {Call("kmalloc", Ptr(0), <<Num(i64, 4), Num(i32, 2)>>, NoType)}
    \cup {Call("memset", Ptr(0), <<Value(v), Num(i8, 0), Num(i64, n)>>, t) :
        v \in 1 .. 2, n \in {4, 8}, t \in {Struct("s", <<i32>>), Struct("s", <<i32, i32>>)}}
    \cup {Call(f, i32, args, NoType) : f \in {"f", "g"},
            args \in {<<>>, <<IntA>>, <<IntA, Num(i32, 0)>>, <<IntA, Num(i32, 2)>>}}
    \cup {[Call("f", i32, <<>>, NoType) EXCEPT !.bundles = b] : b \in {<<<<1, 1>>>>, <<<<1, 2>>>>, <<<<1, 1>>, <<2, 1>>>>}}

AllItems ==
    {Items("type", Types), Items("type", Unions), Items("constant", Constants), Items("constant", Addresses),
     Items("value", Constants), Items("value", Operations), Items("operand", Operands), Items("access", Places),
     Items("field access", Chains), Items("instruction", Instructions), Items("instruction", Calls)}
UnionStructs == {"union.u", "union.v"}

\* A has the same value in both versions, B another one, C one too that comes first, D none.
Macro(name, value) == [name |-> name, value |-> value]
AllMacros ==
    [L |-> <<Macro("A", "1"), Macro("B", "1"), Macro("C", "2"), Macro("D", "0")>>,
     R |-> <<Macro("C", "1"), Macro("A", "1"), Macro("B", "2"), Macro("C", "3"), Macro("D", "")>>]
SmallRange == 256
=============================================================================
