---------------------------- MODULE ValueCompare ----------------------------
(***************************************************************************)
(* How SimpLL compares the data of two functions: types, constants, and    *)
(* what instructions have besides their operands.  LLVM's comparator       *)
(* (llvm-lib/10/FunctionComparator.cpp) orders them, with the result -1, 0 *)
(* or 1, and DifferentialFunctionComparator.cpp makes more of them equal.  *)
(* FunctionCompare is about the rest: the walk and the values themselves.  *)
(***************************************************************************)
EXTENDS DebugInfo

CONSTANTS
    Families,       \* sets of items of one sort that are compared with each other
    UnionNames,     \* names of structs that start with "union"
    OffsetRange     \* one more than the largest 32-bit number

VARIABLES
    items,          \* three types, constants or instructions
    debugInfo,      \* DI: the names of members on both sides, and the values of macros, for
                    \*   functions with these items
    outcome         \* of comparing them in pairs, for each value of config.ControlFlowOnly

vars == <<items, debugInfo, outcome>>

-----------------------------------------------------------------------------
\* Comparisons one after the other: the first difference counts.
a ?? b == IF a # 0 THEN a ELSE b

cmpNumbers(l, r) == IF l < r THEN -1 ELSE IF l > r THEN 1 ELSE 0
Flag(b) == IF b THEN 1 ELSE 0

\* Sequences of the same length, by cmp.
cmpEach(l, r, cmp(_, _)) ==
    FoldLeft(LAMBDA result, n : result ?? cmp(l[n], r[n]), 0, [n \in 1 .. Len(l) |-> n])

\* cmpMem; also lists of indices, which compare in the same way.
cmpMem(l, r) == cmpNumbers(Len(l), Len(r)) ?? cmpEach(l, r, cmpNumbers)

-----------------------------------------------------------------------------
(***************************************************************************)
(* Types: [id, n, sub, name].  n is the width of an integer, the address   *)
(* space of a pointer, the number of elements, or whether a struct is      *)
(* packed or a function has variable arguments; sub are the types inside.  *)
(***************************************************************************)
TypeIDs == <<"void", "float", "double", "label", "int", "func", "struct", "array", "ptr", "vector">>
TypeID(t) == CHOOSE n \in DOMAIN TypeIDs : TypeIDs[n] = t.id
PointerWidth == 64
IntType(width) == [id |-> "int", n |-> width, sub |-> <<>>, name |-> ""]

Coerced(t) == IF t.id = "ptr" /\ t.n = 0 THEN IntType(PointerWidth) ELSE t

\* Sizes in bytes, as DataLayout has them.
RECURSIVE Align(_), AllocSize(_)
RoundUp(n, k) == ((n + k - 1) \div k) * k
Align(t) ==
    CASE t.id = "struct" -> IF t.n = 1 THEN 1 ELSE Max({1} \cup {Align(t.sub[n]) : n \in DOMAIN t.sub})
      [] t.id = "array"  -> Align(t.sub[1])
      [] OTHER           -> AllocSize(t)
Offset(t, index) ==
    LET Place(at, f) == RoundUp(at, IF t.n = 1 THEN 1 ELSE Align(f))
        After(f, at) == Place(at, f) + AllocSize(f)
    IN  IF index > Len(t.sub) THEN RoundUp(FoldLeft(LAMBDA at, f : After(f, at), 0, t.sub), Align(t))
        ELSE Place(FoldLeft(LAMBDA at, f : After(f, at), 0, SubSeq(t.sub, 1, index - 1)), t.sub[index])
AllocSize(t) ==
    CASE t.id = "int"    -> IF t.n <= 8 THEN 1 ELSE t.n \div 8
      [] t.id = "float"  -> 4
      [] t.id \in {"double", "ptr"} -> 8
      [] t.id \in {"array", "vector"} -> t.n * AllocSize(t.sub[1])
      [] t.id = "struct" -> Offset(t, Len(t.sub) + 1)

IsUnion(t) == t.id = "struct" /\ t.name \in UnionNames

RECURSIVE cmpTypes(_, _, _)
\* LLVM's order of types, elements being compared by SimpLL.
cmpTypesLLVM(l, r, cf) ==
    LET tl == Coerced(l)
        tr == Coerced(r)
        cmpElements == cmpEach(tl.sub, tr.sub, LAMBDA a, b : cmpTypes(a, b, cf))
    IN  cmpNumbers(TypeID(tl), TypeID(tr)) ??
        CASE tl.id \in {"int", "ptr"}       -> cmpNumbers(tl.n, tr.n)
          [] tl.id \in {"array", "vector"}  -> cmpNumbers(tl.n, tr.n) ?? cmpElements
          [] tl.id \in {"struct", "func"}   ->
                cmpNumbers(Len(tl.sub), Len(tr.sub)) ?? cmpNumbers(tl.n, tr.n) ?? cmpElements
          [] OTHER                          -> 0

\* For the control flow alone the widths of integers do not matter, but for Booleans.
cmpWidthsStrict(l, r) == Flag(1 \in {l.n, r.n})                    \* mutant: no equal Booleans
cmpWidths(l, r) == Flag(1 \in {l.n, r.n} /\ l.n # r.n)

\* A union is equal to what is not larger.  The control flow has no lengths of arrays.
cmpTypes(l, r, cf) ==
    LET struct == IF l.id = "struct" THEN l ELSE r
        other == IF l.id = "struct" THEN r ELSE l
    IN  IF IsUnion(struct) /\ AllocSize(struct) >= AllocSize(other) THEN 0
        ELSE IF cf /\ l.id = "int" /\ r.id = "int" THEN cmpWidths(l, r)
        ELSE IF cf /\ l.id = "array" /\ r.id = "array" THEN cmpTypes(l.sub[1], r.sub[1], cf)
        ELSE cmpTypesLLVM(l, r, cf)

-----------------------------------------------------------------------------
(***************************************************************************)
(* Constants: [id, type, val, ops, name].  val is the value of a number,   *)
(* the raw bytes of data, the operation of an expression, or whether a     *)
(* global variable is constant; ops are elements, operands, or the         *)
(* initializer of a variable.  A name stands without its number suffix.    *)
(* Block addresses and tokens are left out.                                *)
(***************************************************************************)
ValueIDs == <<"global", "expr", "array", "struct", "vector", "undef", "zero",
              "data array", "data vector", "int", "fp", "null">>
ValueID(c) == CHOOSE n \in DOMAIN ValueIDs : ValueIDs[n] = c.id

CastOps == {"bitcast", "ptrtoint", "inttoptr", "zext", "trunc"}
IsCast(c) == c.id = "expr" /\ c.val \in CastOps
IsNull(c) == c.id \in {"zero", "null"} \/ (c.id \in {"int", "fp"} /\ c.val = 0)
FirstClass(t) == t.id \notin {"void", "func"}
VectorWidth(t) == IF t.id = "vector" THEN 8 * AllocSize(t) ELSE 0

\* Without ControlFlowOnly, only integers of the same width are equal.
cmpAPInts(l, r, cf) ==
    IF cf THEN cmpNumbers(l.val, r.val)
    ELSE cmpNumbers(l.type.n, r.type.n) ?? cmpNumbers(l.val, r.val)

\* Formats of floating-point numbers have different precisions.
Precision(t) == IF t.id = "float" THEN 24 ELSE 53
cmpAPFloats(l, r) == cmpNumbers(Precision(l.type), Precision(r.type)) ?? cmpNumbers(l.val, r.val)

RECURSIVE cmpConstants(_, _, _)
\* mutant: initializers of variables
cmpInitializers(l, r, cf) ==
    IF l.ops # <<>> /\ r.ops # <<>> THEN cmpConstants(l.ops[1], r.ops[1], cf) ELSE Flag(l.name # r.name)
\* Global variables: constant ones by their values, others by their names.
cmpGlobalValues(l, r, cf) ==
    IF l.val /\ r.val /\ l.ops # <<>> /\ r.ops # <<>> THEN cmpConstants(l.ops[1], r.ops[1], cf)
    ELSE Flag(l.name # r.name)

\* The types of l and r compare as "types"; the constants can be bitcast.
cmpContents(l, r, types, cf) ==
    LET cmpOps == cmpNumbers(Len(l.ops), Len(r.ops)) ??
                  cmpEach(l.ops, r.ops, LAMBDA a, b : cmpConstants(a, b, cf))
    IN  IF IsNull(l) \/ IsNull(r)
        THEN IF IsNull(l) /\ IsNull(r) THEN types ELSE cmpNumbers(Flag(IsNull(l)), Flag(IsNull(r)))
        ELSE IF l.id = "global" /\ r.id = "global" THEN cmpGlobalValues(l, r, cf)
        ELSE cmpNumbers(ValueID(l), ValueID(r)) ??
             CASE l.id \in {"data array", "data vector"} -> cmpMem(l.val, r.val)
               [] l.id = "undef" -> types
               [] l.id = "int"   -> cmpAPInts(l, r, cf)
               [] l.id = "fp"    -> cmpAPFloats(l, r)
               [] l.id \in {"array", "struct", "vector", "expr"} -> cmpOps
               [] OTHER -> 0

cmpPointersUnsigned(tl, tr) ==                                      \* mutant: no order
    IF tl.id = "ptr" /\ tr.id = "ptr" THEN cmpNumbers(tl.n, tr.n) ?? 1
    ELSE Flag("ptr" \in {tl.id, tr.id})
\* Pointers are greater than others, and those are greater that have the greater space.
cmpPointers(tl, tr) ==
    IF tl.id = "ptr" /\ tr.id = "ptr" THEN cmpNumbers(tl.n, tr.n) ?? 1
    ELSE cmpNumbers(Flag(tl.id = "ptr"), Flag(tr.id = "ptr"))

cmpConstantsLLVM(l, r, cf) ==
    LET tl == l.type
        tr == r.type
        types == cmpTypes(tl, tr, cf)
    IN  IF types = 0 THEN cmpContents(l, r, types, cf)
        ELSE IF ~(FirstClass(tl) /\ FirstClass(tr))
        THEN cmpNumbers(Flag(FirstClass(tl)), Flag(FirstClass(tr))) ?? types
        ELSE cmpNumbers(VectorWidth(tl), VectorWidth(tr)) ??
             IF VectorWidth(tl) = 0 THEN cmpPointers(tl, tr) ?? types ELSE cmpContents(l, r, types, cf)

\* For the control flow alone, constants that differ are compared without their casts, of
\* one side or of both.
CastOperand(c) == IF IsCast(c) THEN c.ops[1] ELSE c
cmpConstantsOldCast(l, r, cf) ==                                    \* mutant: casts of one side
    LET llvm == cmpConstantsLLVM(l, r, cf)
    IN  IF llvm # 0 /\ cf /\ IsCast(l) THEN cmpConstants(CastOperand(l), r, cf) ELSE llvm
cmpConstants(l, r, cf) ==
    LET llvm == cmpConstantsLLVM(l, r, cf)
    IN  IF llvm # 0 /\ cf /\ (IsCast(l) \/ IsCast(r))
        THEN cmpConstants(CastOperand(l), CastOperand(r), cf)
        ELSE llvm

\* mayIgnore, on the casts among constants: nothing that uses them is looked at.
MayIgnoreCast(c, cf) ==
    LET from == c.ops[1].type
    IN  \/ cf \/ IsUnion(from)
        \/ from.id = "ptr" /\ c.type.id = "ptr"
        \/ from.id = "int" /\ c.type.id = "int" /\ from.n <= c.type.n

RECURSIVE Uncast(_, _)
Uncast(c, cf) == IF IsCast(c) /\ MayIgnoreCast(c, cf) THEN Uncast(c.ops[1], cf) ELSE c

\* cmpValues on constants: macros and enumerations whose value has changed are equal.
cmpValues(l, r, cf) ==
    LET cl == Uncast(l, cf)
        cr == Uncast(r, cf)
        macros == debugInfo.macros
    IN  IF cl \in DOMAIN macros /\ macros[cl] = valueAsString(cr) THEN 0 ELSE cmpConstants(cl, cr, cf)

-----------------------------------------------------------------------------
(***************************************************************************)
(* Accesses to memory (GEPs): [src, idx], the type of what is pointed to   *)
(* and the indices, of which those that are no constants are "value"s.     *)
(***************************************************************************)
IsConstant(c) == c.id \notin {"asm", "value"}

\* Inline assembly is [id, type, asm, constraints, state]; state has the flags and the dialect.
cmpInlineAsm(l, r, cf) ==
    cmpTypes(l.type, r.type, cf) ?? cmpMem(l.asm, r.asm) ??
    cmpMem(l.constraints, r.constraints) ?? cmpMem(l.state, r.state)

\* Constants are greater than assembly, and assembly is greater than numbered values.
Rank(o) == IF IsConstant(o) THEN 2 ELSE IF o.id = "asm" THEN 1 ELSE 0
cmpOperand(l, r, cf) ==
    cmpNumbers(Rank(l), Rank(r)) ??
    CASE Rank(l) = 2 -> cmpValues(l, r, cf)
      [] Rank(l) = 1 -> cmpInlineAsm(l, r, cf)
      [] OTHER       -> cmpNumbers(l.val, r.val)

AllConstant(g) == \A n \in DOMAIN g.idx : IsConstant(g.idx[n])

\* The type that the first n indices lead to; the first one leads to the source.
IndexedType(g, n) == PathType(g.src, SubSeq(g.idx, 2, n))

\* accumulateConstantOffset.
OffsetOf(g) ==
    LET Part(n) == IF n = 1 THEN g.idx[1].val * AllocSize(g.src)
                   ELSE LET t == IndexedType(g, n - 1)
                        IN  IF t.id = "struct" THEN Offset(t, g.idx[n].val + 1)
                            ELSE g.idx[n].val * AllocSize(t.sub[1])
    IN  FoldLeft(LAMBDA sum, n : sum + Part(n), 0, [n \in 1 .. Len(g.idx) |-> n])

cmpGEPsLLVM(l, r, cf) ==
    IF AllConstant(l) /\ AllConstant(r) THEN cmpNumbers(OffsetOf(l), OffsetOf(r))
    ELSE cmpTypes(l.src, r.src, cf) ?? cmpNumbers(Len(l.idx), Len(r.idx)) ??
         cmpEach(l.idx, r.idx, LAMBDA a, b : cmpOperand(a, b, cf))

\* The type in front of the n-th index, as the loop over the indices has it: in front
\* of the first one already the source.
Container(g, n) == IndexedType(g, IF n = 1 THEN 1 ELSE n - 1)

\* The names of members: none where there is no debug information, or where it was not needed.
Member(g, n) == <<Container(g, n).name, g.idx[n].val>>
SameMember(l, r, n) ==
    /\ Member(l, n) \in DOMAIN debugInfo.L /\ Member(r, n) \in DOMAIN debugInfo.R
    /\ debugInfo.L[Member(l, n)] = debugInfo.R[Member(r, n)]

\* Members of structs that have changed are compared by their names.
cmpIndex(l, r, n, cf) ==
    IF Container(l, n).id = "struct" /\ Container(r, n).id = "struct" /\ SameMember(l, r, n)
    THEN 0 ELSE cmpOperand(l.idx[n], r.idx[n], cf)

cmpGEPs(l, r, cf) ==
    LET llvm == cmpGEPsLLVM(l, r, cf)
    IN  IF llvm = 0 \/ l.src.id # "struct" \/ r.src.id # "struct" \/ l.src.name # r.src.name
        THEN llvm
        ELSE cmpNumbers(Len(l.idx), Len(r.idx)) ??
             IF AllConstant(l) /\ AllConstant(r)
             THEN FoldLeft(LAMBDA result, n : result ?? cmpIndex(l, r, n, cf), 0,
                           [n \in 1 .. Len(l.idx) |-> n])
             ELSE IF Len(l.idx) = 1 THEN cmpOperand(l.idx[1], r.idx[1], cf)
             ELSE llvm

\* cmpFieldAccess: functions that FieldAccessFunctionGenerator made of accesses are the
\* sequences of these (a return comes after them, so that none is a single instruction).
\* The offsets are numbers of 32 bits, and their sum is one of 64.
accumulateAllOffsets(gs) ==
    FoldLeft(LAMBDA sum, g : sum + (OffsetOf(g) % OffsetRange), 0, gs)
cmpFieldAccess(l, r) ==
    Flag(\/ \E g \in Range(l) \cup Range(r) : ~AllConstant(g)
         \/ accumulateAllOffsets(l) # accumulateAllOffsets(r))

-----------------------------------------------------------------------------
(***************************************************************************)
(* Instructions: [op, type, flags, args, state, bundles, range, more].     *)
(* state is the numbers that belong to an instruction of the kind:         *)
(* volatile, alignment, ordering and scope of loads and stores, the        *)
(* predicate of a comparison, indices, ... bundles are the tags and sizes  *)
(* of a call's operand bundles, range the numbers of range metadata.  more *)
(* has the allocated type; for calls the called function, and the struct,  *)
(* if any, that an allocation is cast to next or that memory is set of.    *)
(* Attributes are equal (cmpAttrs).                                        *)
(***************************************************************************)
Ops == <<"alloca", "load", "store", "fence", "cmpxchg", "rmw", "icmp", "call", "extract">>
Opcode(i) == CHOOSE n \in DOMAIN Ops : Ops[n] = i.op

cmpOperandBundlesSchema(i, j) == cmpNumbers(Len(i), Len(j)) ?? cmpEach(i, j, cmpMem)

\* No range comes before any.
cmpRangeMetadata(l, r, cf) ==
    cmpNumbers(Len(l), Len(r)) ?? cmpEach(l, r, LAMBDA a, b : cmpAPInts(a, b, cf))

\* Number and types of operands come before what is special about the kind.
cmpOperationsLLVM(i, j, cf) ==
    cmpNumbers(Opcode(i), Opcode(j)) ??
    cmpNumbers(Len(i.args), Len(j.args)) ??
    cmpTypes(i.type, j.type, cf) ??
    cmpNumbers(i.flags, j.flags) ??
    cmpEach(i.args, j.args, LAMBDA a, b : cmpTypes(a.type, b.type, cf)) ??
    (IF i.op = "alloca" THEN cmpTypes(i.more.allocated, j.more.allocated, cf) ELSE 0) ??
    cmpMem(i.state, j.state) ??
    cmpOperandBundlesSchema(i.bundles, j.bundles) ??
    cmpRangeMetadata(i.range, j.range, cf)

Callee(i) == i.more.callee
IsAlloc(i) == i.op = "call" /\ Callee(i) \in {"kmalloc", "kzalloc"}
IsMemset(i) == i.op = "call" /\ Callee(i) = "memset"

\* Sizes that are those of the structs of the same name.
SameStructSizes(tl, tr, l, r) ==
    /\ tl.id = "struct" /\ tr.id = "struct" /\ tl.name = tr.name
    /\ l.id = "int" /\ l.val = AllocSize(tl)
    /\ r.id = "int" /\ r.val = AllocSize(tr)

\* Of allocations the sizes count, and not the flags.
EqualAllocs(i, j, cf) ==
    \/ cmpOperand(i.args[1], j.args[1], cf) = 0
    \/ SameStructSizes(i.more.struct, j.more.struct, i.args[1], j.args[1])

EqualMemsets(i, j, cf) ==
    /\ \A n \in DOMAIN i.args \ {3} : cmpOperand(i.args[n], j.args[n], cf) = 0
    /\ \/ cmpOperand(i.args[3], j.args[3], cf) = 0
       \/ SameStructSizes(i.more.struct, j.more.struct, i.args[3], j.args[3])

\* The longer call has a last argument that is zero more.
cmpCallsWithExtraArg(i, j, cf) ==
    LET long == IF Len(i.args) > Len(j.args) THEN i ELSE j
        short == IF Len(i.args) > Len(j.args) THEN j ELSE i
        cmpArg(a, b) == cmpTypes(a.type, b.type, cf) ?? cmpOperand(a, b, cf)
    IN  IF IsNull(long.args[Len(long.args)])
        THEN cmpTypes(long.type, short.type, cf) ??
             cmpEach(short.args, SubSeq(long.args, 1, Len(short.args)), LAMBDA a, b : cmpArg(b, a))
        ELSE 1

\* getUnsignedPredicate, in LLVM's numbers.
Unsigned(i) == IF i.state[1] \in 38 .. 41 THEN i.state[1] - 4 ELSE i.state[1]

\* The result on two instructions with their operands; the called function is one.
cmpOperations(i, j, cf) ==
    LET llvm == cmpOperationsLLVM(i, j, cf)
        calls == i.op = "call" /\ j.op = "call" /\ Callee(i) = Callee(j)
        icmps == i.op = "icmp" /\ j.op = "icmp" /\ Unsigned(i) = Unsigned(j)
        allocas == /\ i.op = "alloca" /\ j.op = "alloca"
                   /\ i.more.allocated.id = "struct" /\ j.more.allocated.id = "struct"
                   /\ i.more.allocated.name = j.more.allocated.name
        operands == cmpEach(i.args, j.args, LAMBDA a, b : cmpOperand(a, b, cf)) ??
                    Flag(i.op = "call" /\ Callee(i) # Callee(j))
    IN  IF calls /\ ((IsAlloc(i) /\ EqualAllocs(i, j, cf)) \/ (IsMemset(i) /\ EqualMemsets(i, j, cf))) THEN 0
        ELSE IF calls /\ llvm # 0 /\ cf /\ Len(i.args) - Len(j.args) \in {-1, 1}
        THEN cmpCallsWithExtraArg(i, j, cf)
        ELSE IF llvm # 0 /\ cf /\ icmps THEN operands
        ELSE IF llvm # 0 /\ allocas THEN cmpNumbers(i.state[1], j.state[1]) ?? operands
        ELSE llvm ?? operands

-----------------------------------------------------------------------------
\* The comparator for items of a sort.  For an access an item is a place of both functions, with
\* the accesses that they have there.
ResultOf(sort, l, r, cf) ==
    CASE sort = "type"         -> cmpTypes(l, r, cf)
      [] sort = "constant"     -> cmpConstants(l, r, cf)
      [] sort = "value"        -> cmpValues(l, r, cf)
      [] sort = "operand"      -> cmpOperand(l, r, cf)
      [] sort = "access"       -> IF NoAccess \in {l.old, r.new} THEN 1 ELSE cmpGEPs(l.old, r.new, cf)
      [] sort = "field access" -> cmpFieldAccess(l, r)
      [] sort = "instruction"  -> cmpOperations(l, r, cf)

\* What DebugInfo finds in functions with the items.
Collected(sort) ==
    LET its == [n \in DOMAIN items |-> items[n].it]
        names == IF sort # "access" THEN calculateGEPIndexAlignments(<<>>, <<>>)
                 ELSE calculateGEPIndexAlignments([n \in DOMAIN its |-> its[n].old], [n \in DOMAIN its |-> its[n].new])
    IN  [L |-> names.L, R |-> names.R, macros |-> calculateMacroAlignments(IF sort = "value" THEN its ELSE <<>>)]

Compared == {<<1, 2>>, <<2, 1>>, <<2, 3>>, <<1, 3>>}

Init == /\ \E family \in Families : items \in [1 .. 3 -> family]
        /\ items[1].sort = "access" => \A n \in DOMAIN items : ~ReadsNull(items[n].it.old)
        /\ debugInfo = Collected(items[1].sort)
        /\ outcome = [cf \in BOOLEAN |-> [p \in Compared |->
                        ResultOf(items[1].sort, items[p[1]].it, items[p[2]].it, cf)]]
Next == UNCHANGED vars
Spec == Init /\ [][Next]_vars

-----------------------------------------------------------------------------
(***************************************************************************)
(* Properties.                                                             *)
(***************************************************************************)
Sort == items[1].sort
Equal(m, n, cf) == outcome[cf][<<m, n>>] = 0

RECURSIVE HasUnion(_)
HasUnion(t) == IsUnion(t) \/ \E n \in DOMAIN t.sub : HasUnion(t.sub[n])
NoUnions ==
    Sort \in {"type", "constant", "operand", "instruction"} =>
        \A n \in DOMAIN items : ~HasUnion(IF Sort = "type" THEN items[n].it ELSE items[n].it.type)

\* "Defines total ordering among the types set", and "how the ordered set of constants
\* will look like": types, constants and operands are ordered as FunctionComparator.h says,
\* by whatever stage they differ.  Not so pointers that compare as integers (null is
\* equal to 0, but not on the same side of structs), and globals without an order.
Ordered(c) == IsConstant(c) => c.id \notin {"global", "expr"} /\ Coerced(c.type) = c.type
TotalOrder ==
    /\ Sort \in {"type", "constant", "operand"} /\ NoUnions
    /\ Sort # "type" => \A n \in DOMAIN items : Ordered(items[n].it)
    =>
    LET Less(m, n) == outcome[FALSE][<<m, n>>] <= 0
    IN  /\ Less(1, 2) \/ Less(2, 1)
        /\ Less(1, 2) /\ Less(2, 3) => Less(1, 3)

\* What is equal is also equal for the control flow alone, which asks for less.
ControlFlowCoarser == Equal(1, 2, FALSE) => Equal(1, 2, TRUE)

\* What is equal is equal also when the old version is compared with the new one the
\* other way round, but for unions and macros, which are looked for on one side.
SidesAlike ==
    Sort \notin {"access", "value"} /\ NoUnions =>
        \A cf \in BOOLEAN : Equal(1, 2, cf) <=> Equal(2, 1, cf)

RECURSIVE SameContents(_, _)
\* The constants have the same bits, as far as these are known.
SameContents(l, r) ==
    CASE {l.id, r.id} \subseteq {"int", "null"} ->
            AllocSize(l.type) = AllocSize(r.type) /\ (l.id = r.id => l.val = r.val)
            /\ (l.id # r.id => 0 \in {l.val, r.val})
      [] l.id = "global" /\ r.id = "global" ->
            \/ l.name = r.name
            \/ l.val /\ r.val /\ l.ops # <<>> /\ r.ops # <<>> /\ SameContents(l.ops[1], r.ops[1])
      [] OTHER ->
            /\ l.id = r.id
            /\ l.val = r.val \/ {l.val, r.val} \subseteq {"bitcast", "ptrtoint", "inttoptr"}
            /\ AllocSize(l.type) = AllocSize(r.type)
            /\ Len(l.ops) = Len(r.ops)
            /\ \A n \in DOMAIN l.ops : SameContents(l.ops[n], r.ops[n])

\* A macro or an enumerator has the text l in the old version, and r in the new one.
MacroHas(l, r) ==
    \E m \in Range(Macros.L), n \in Range(Macros.R) : m.name = n.name /\ m.value = l /\ n.value = r

\* "It ignores types on this stage and only compares bits": constants that are equal
\* have the same bits; operands may also come from a macro.  A macro that is empty now
\* counts for everything that is no integer, and of expressions the operation is not looked at.
EqualSameContents ==
    LET l == IF Sort = "value" THEN Uncast(items[1].it, FALSE) ELSE items[1].it
        r == IF Sort = "value" THEN Uncast(items[2].it, FALSE) ELSE items[2].it
    IN  Sort \in {"constant", "value"} /\ Equal(1, 2, FALSE) =>
            \/ SameContents(l, r)
            \/ Sort = "value" /\ (MacroHas(valueAsString(l), valueAsString(r)) \/ {l.id, r.id} = {"expr"})

\* The names of the members whose bits are in an element of a struct.
NamesIn(s, t, n) ==
    IF t.id # "struct" \/ t.name \notin StructsOf(s) THEN {}
    ELSE LET from == 8 * Offset(t, n + 1)
         IN  {m.name : m \in {k \in Range(Members[s][t.name]) :
                                k.storage \in from .. from + 8 * AllocSize(t.sub[n + 1]) - 1}}

\* Names are right where both functions look into the same structs at every place, and the
\* members of these structs have names and sizes and ask for no alignment.
SameStructs ==
    \A n \in DOMAIN items :
        LET o == items[n].it.old
            w == items[n].it.new
        IN  NoAccess \in {o, w} \/ \A k \in DOMAIN o.idx \cap DOMAIN w.idx : Container(o, k).name = Container(w, k).name
Plain(s, t) ==
    t.name \in StructsOf(s) => \A m \in Range(Members[s][t.name]) : m.name # "" /\ m.size > 0 /\ m.align = 0
PlainStructs(l, r) ==
    \A k \in DOMAIN l.idx \cap DOMAIN r.idx : Plain("L", Container(l, k)) /\ Plain("R", Container(r, k))

\* Accesses are equal when they are to the same place, or in the same element of the array
\* to members that share a name or have the same index.  (A first index that is a constant is
\* taken for a member as well.)  Field accesses are equal when their offsets are.
EqualSameElement ==
    /\ Sort = "access" /\ Equal(1, 2, FALSE) /\ SameStructs =>
        LET l == items[1].it.old
            r == items[2].it.new
        IN  PlainStructs(l, r) =>
            \/ AllConstant(l) /\ AllConstant(r) /\ OffsetOf(l) = OffsetOf(r)
            \/ /\ l.idx[1] = r.idx[1] \/ (IsConstant(l.idx[1]) /\ IsConstant(r.idx[1]))
               /\ \A n \in 2 .. Len(l.idx) :
                     \/ l.idx[n] = r.idx[n]
                     \/ NamesIn("L", Container(l, n), l.idx[n].val) \cap NamesIn("R", Container(r, n), r.idx[n].val) # {}
    /\ Sort = "field access" /\ Equal(1, 2, FALSE) =>
        LET Total(gs) == FoldLeft(LAMBDA sum, g : sum + OffsetOf(g), 0, gs)
        IN  Total(items[1].it) = Total(items[2].it)
=============================================================================
