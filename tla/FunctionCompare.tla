--------------------------- MODULE FunctionCompare ---------------------------
(***************************************************************************)
(* The comparison of two functions inside SimpLL: LLVM's comparator        *)
(* (llvm-lib/10/FunctionComparator.cpp) with the methods that              *)
(* DifferentialFunctionComparator.cpp overrides, and the loop of           *)
(* ModuleComparator.cpp that inlines calls and compares again.             *)
(*                                                                         *)
(* The comparator walks the control-flow graphs of both functions          *)
(* together, from the entry blocks on.  Values of the functions are equal  *)
(* when they have the same serial number: a value gets the next number     *)
(* when it is met first.  Types, constants and attributes of instructions  *)
(* are data; ValueCompare has their comparison.  What the comparator does  *)
(* about called functions is in ModuleCompare: here a call is an           *)
(* instruction with the called function as its last operand.               *)
(***************************************************************************)
EXTENDS Integers, Sequences, FiniteSets, Functions

CONSTANTS
    Consts,         \* constants, functions that are called among them
    Names,          \* arguments and instructions
    BlockNames,     \* basic blocks
    Kinds,          \* what LLVM compares of instructions besides operands
    InversePred,    \* predicate -> inverse predicate, for the kinds of comparisons
    SameInSource,   \* pairs of constants that the C source has as the same argument
    PairFamilies    \* sets of pairs of functions, with the bodies of callees

Side == {"L", "R"}
None == "none"

ASSUME NamesAssumption ==
    /\ Names \cap (Consts \cup BlockNames) = {} /\ Consts \cap BlockNames = {}
    /\ None \notin Names \cup Consts \cup BlockNames
    /\ IsFiniteSet(Names) /\ IsFiniteSet(BlockNames)

Ops == {"plain", "cast", "alloca", "cmp", "call", "phi", "br", "ret"}
Values == Consts \cup Names

\* A cast is one that mayIgnore ignores; others are plain.  "to" is the list of
\* successors of a branch, or of incoming blocks of a PHI instruction.
Instr == [name : Names, op : Ops, kind : Kinds, args : Seq(Values), to : Seq(BlockNames)]

Function == [args  : Seq(Names),
             entry : BlockNames,
             code  : [BlockNames -> Seq(Instr)]]      \* no instructions: no such block

InstrsOf(f) == UNION {Range(f.code[b]) : b \in BlockNames}
BlocksOf(f) == {b \in BlockNames : f.code[b] # <<>>}

\* Branches have at most one condition, PHI instructions a block for each value, and
\* called functions are known.
Shaped(i) ==
    /\ i.op = "br" => Len(i.args) <= 1 /\ Len(i.to) = Len(i.args) + 1
    /\ i.op = "phi" => i.args # <<>> /\ Len(i.to) = Len(i.args)
    /\ i.op \notin {"br", "phi"} => i.to = <<>>
    /\ i.op = "cast" => Len(i.args) = 1
    /\ i.op = "cmp" => Len(i.args) = 2
    /\ i.op = "call" => i.args # <<>> /\ i.args[Len(i.args)] \in Consts

\* Blocks end with their only terminator, control stays within the function, and
\* instructions have names of their own.
WellFormed(f) ==
    /\ f.entry \in BlocksOf(f)
    /\ \A b \in BlocksOf(f) : \A n \in DOMAIN f.code[b] :
        /\ f.code[b][n].op \in {"br", "ret"} <=> n = Len(f.code[b])
        /\ Shaped(f.code[b][n])
        /\ Range(f.code[b][n].to) \subseteq BlocksOf(f)
        /\ f.code[b][n].name \notin Range(f.args)
        /\ \A c \in BlocksOf(f) : \A k \in DOMAIN f.code[c] :
                f.code[b][n].name = f.code[c][k].name => b = c /\ n = k

CastsOfNoCasts(f) ==
    \A i, j \in InstrsOf(f) : i.op = "cast" /\ j.op = "cast" => i.args[1] # j.name

\* callee: the body that replaces a call when it is inlined, here an instruction
\* over the parameters of the called function; empty for a declaration.
Pair == [fn     : [Side -> Function],
         params : [Side -> [Consts -> Seq(Names)]],
         callee : [Side -> [Consts -> Seq(Instr)]]]

\* Calls of functions with a body have their arguments, also in that body.
Callable(p, s) ==
    LET bodies == {Head(p.callee[s][c]) : c \in {c \in Consts : p.callee[s][c] # <<>>}}
    IN  /\ \A i \in bodies : i.op \in {"plain", "call"} /\ i.to = <<>>
        /\ \A i \in bodies \cup InstrsOf(p.fn[s]) :
             i.op = "call" =>
                /\ i.args # <<>> /\ i.args[Len(i.args)] \in Consts
                /\ p.callee[s][i.args[Len(i.args)]] # <<>> =>
                        Len(p.params[s][i.args[Len(i.args)]]) < Len(i.args)

ASSUME FamiliesAssumption ==
    \A pairs \in PairFamilies : \A p \in pairs :
        p \in Pair /\ \A s \in Side : /\ WellFormed(p.fn[s]) /\ CastsOfNoCasts(p.fn[s])
                                   /\ Callable(p, s)

VARIABLES
    given,      \* the pair of functions as read; never changes
    fn,         \* the functions, which comparing and inlining change
    at,         \* where the comparison is
    cur,        \* the pair of instructions being compared: block and place
    operand,    \* the next operand of these; then the next pair of incoming values
    matched,    \* match, in cmpPHIs
    sn,         \* sn_mapL, sn_mapR
    todo,       \* pairs of blocks to compare, the next one last
    visited,    \* VisitedBBs: blocks of the left function
    inverse,    \* inverseConditions
    phis,       \* phisToCompare
    tryInline,  \* the calls to inline, by their names
    verdict,    \* the result
    rerun       \* it is that of a comparison after inlining

vars == <<given, fn, at, cur, operand, matched, sn, todo, visited, inverse, phis, tryInline, verdict, rerun>>

Places == {"start", "blocks", "instructions", "operands", "successors", "differ", "phis", "inline", "end"}

-----------------------------------------------------------------------------
Both(x) == [s \in Side |-> x]
NoCalls == Both(None)
Conditional(i) == i.op = "br" /\ i.args # <<>>

\* The instructions being compared.
This(s) == fn[s].code[cur[s].block][cur[s].pos]
Left == This("L")
Right == This("R")
Behind(s) == [cur[s] EXCEPT !.pos = @ + 1]

\* The operands in LLVM's order: the called function is the last one, and a
\* branch has its blocks in reverse.  Those of a PHI instruction wait; its
\* incoming blocks are compared at once.
Operands(i) ==
    CASE i.op = "phi"  -> i.to
      [] i.op = "br"   -> i.args \o [n \in DOMAIN i.to |-> i.to[Len(i.to) + 1 - n]]
      [] OTHER         -> i.args

\* A cast that may be ignored stands for its operand.
Uncast(s, v) ==
    IF \E i \in InstrsOf(fn[s]) : i.name = v /\ i.op = "cast"
    THEN (CHOOSE i \in InstrsOf(fn[s]) : i.name = v /\ i.op = "cast").args[1]
    ELSE v

\* The numbers, with v numbered if it is met for the first time.
Size(map) == Cardinality(DOMAIN map)
Numbered(map, v) == [w \in DOMAIN map \cup {v} |-> IF w \in DOMAIN map THEN map[w] ELSE Size(map)]

\* cmpValues on l and r, which are no casts: the numbers after it, if they are ns
\* before, and whether the values are equal.
NumbersAfter(ns, l, r) ==
    IF {l, r} \cap Consts # {} THEN ns
    ELSE [s \in Side |-> Numbered(ns[s], IF s = "L" THEN l ELSE r)]

SameValue(ns, l, r) ==
    IF {l, r} \cap Consts # {} THEN l = r
    ELSE NumbersAfter(ns, l, r).L[l] = NumbersAfter(ns, l, r).R[r]

\* The last number is taken back from v.
DroppedAnyway(map, v) == Restrict(map, DOMAIN map \ {v})   \* mutant: any number is
Dropped(map, v) == IF map[v] = Size(map) - 1 THEN Restrict(map, DOMAIN map \ {v}) ELSE map

\* cmpValues on two blocks: they count as equal, whatever their numbers.
BlockNumbersAfter(l, r) ==
    LET new == NumbersAfter(sn, l, r)
    IN  IF new.L[l] # new.R[r] /\ Size(new.L) # Size(new.R)
        THEN [s \in Side |-> Dropped(new[s], IF s = "L" THEN l ELSE r)]
        ELSE new

\* cmpOperations: kind of instruction, number of operands, everything but these.
SameOperation(i, j) ==
    /\ i.op = j.op /\ i.kind = j.kind
    /\ Len(i.args) = Len(j.args) /\ Len(i.to) = Len(j.to)

UsersOf(s, v) == {i \in InstrsOf(fn[s]) : v \in Range(i.args)}

InverseComparisonsAnywhere(i, j) ==                         \* mutant: whoever uses them
    i.op = "cmp" /\ j.op = "cmp" /\ i.kind = InversePred[j.kind]

\* Comparisons with inverse predicates, used by branches only.
InverseComparisons(i, j) ==
    /\ i.op = "cmp" /\ j.op = "cmp"
    /\ i.kind = InversePred[j.kind]
    /\ \A s \in Side : \A u \in UsersOf(s, IF s = "L" THEN i.name ELSE j.name) : u.op = "br"

\* Branches on such comparisons.
InverseBranches(i, j) ==
    Conditional(i) /\ Conditional(j) /\ <<i.args[1], j.args[1]>> \in inverse

\* PHI instructions, to be compared at the end.
SamePhis(i, j) == i.op = "phi" /\ j.op = "phi" /\ Len(i.to) = Len(j.to)

\* The function with the successors of the branch at c exchanged.
Swapped(f, c) ==
    [f EXCEPT !.code[c.block][c.pos].to = <<@[2], @[1]>>]

MayIgnore(i) == i.op \in {"alloca", "cast"}
IsCall(i) == i.op = "call"

\* The next instructions when one of them is skipped.
AfterSkippingNone == cur                                    \* mutant: nothing is skipped
AfterSkippingBoth == [s \in Side |-> Behind(s)]             \* mutant: both are
AfterSkipping ==
    IF MayIgnore(Left) THEN [cur EXCEPT !.L = Behind("L")] ELSE [cur EXCEPT !.R = Behind("R")]

\* The walk has met the block b on the left.
ForgetMet(b) == visited                                     \* mutant: not remembered
Met(b) == visited \cup {b}

-----------------------------------------------------------------------------
\* The comparator is constructed.
Fresh ==
    /\ at' = "start"
    /\ cur' = [s \in Side |-> [block |-> fn'[s].entry, pos |-> 1]]
    /\ operand' = 1
    /\ matched' = FALSE
    /\ sn' = Both(<<>>)
    /\ todo' = <<>>
    /\ visited' = {}
    /\ inverse' = {}
    /\ phis' = <<>>

Init ==
    /\ \E pairs \in PairFamilies : given \in pairs
    /\ fn = given.fn
    /\ at = "start"
    /\ cur = [s \in Side |-> [block |-> fn[s].entry, pos |-> 1]]
    /\ operand = 1
    /\ matched = FALSE
    /\ sn = Both(<<>>)
    /\ todo = <<>> /\ visited = {} /\ inverse = {} /\ phis = <<>>
    /\ tryInline = NoCalls
    /\ verdict = "unknown"
    /\ rerun = FALSE

\* compareFunctions takes the result of compare(): equal functions are done with
\* unless a call was inlined before.
Result(v) ==
    /\ verdict' = v
    /\ at' = IF v = "equal" /\ ~rerun THEN "end" ELSE "inline"

\* compareSignature: the arguments get the first numbers.
CompareSignature ==
    /\ at = "start"
    /\ Len(fn.L.args) = Len(fn.R.args)
    /\ sn' = [s \in Side |-> [v \in Range(fn[s].args) |->
                                CHOOSE n \in 0 .. Len(fn[s].args) - 1 : fn[s].args[n + 1] = v]]
    /\ todo' = <<[s \in Side |-> fn[s].entry]>>
    /\ visited' = {fn.L.entry}
    /\ at' = "blocks"
    /\ UNCHANGED <<given, fn, cur, operand, matched, inverse, phis, tryInline, verdict, rerun>>

SignaturesDiffer ==
    /\ at = "start"
    /\ Len(fn.L.args) # Len(fn.R.args)
    /\ Result("not_equal")
    /\ UNCHANGED <<given, fn, cur, operand, matched, sn, todo, visited, inverse, phis, tryInline, rerun>>

\* compare() takes the last pair of blocks.
CompareBlocks ==
    /\ at = "blocks"
    /\ todo # <<>>
    /\ LET pair == todo[Len(todo)]
       IN  /\ sn' = BlockNumbersAfter(pair.L, pair.R)
           /\ cur' = [s \in Side |-> [block |-> pair[s], pos |-> 1]]
    /\ todo' = SubSeq(todo, 1, Len(todo) - 1)
    /\ at' = "instructions"
    /\ UNCHANGED <<given, fn, operand, visited, inverse, phis, matched, tryInline, verdict, rerun>>

\* The instructions themselves have to be equal, or to be treated as such.
EqualInstructions ==
    SameValue(sn, Uncast("L", Left.name), Uncast("R", Right.name)) /\ SameOperation(Left, Right)

CompareInstructions ==
    /\ at = "instructions"
    /\ sn' = NumbersAfter(sn, Uncast("L", Left.name), Uncast("R", Right.name))

\* cmpOperations: no difference, in instructions that are not treated specially.
InstructionsEqual ==
    /\ CompareInstructions
    /\ EqualInstructions
    /\ ~InverseBranches(Left, Right) /\ Left.op # "phi"
    /\ at' = "operands"
    /\ operand' = 1
    /\ UNCHANGED <<given, fn, cur, todo, visited, inverse, phis, matched, tryInline, verdict, rerun>>

\* The successors of the right branch are exchanged, in the function itself.
BranchesInverse ==
    /\ CompareInstructions
    /\ InverseBranches(Left, Right)
    /\ fn' = [fn EXCEPT !.R = Swapped(@, cur.R)]
    /\ at' = "operands"
    /\ operand' = 1
    /\ UNCHANGED <<given, cur, todo, visited, inverse, phis, matched, tryInline, verdict, rerun>>

\* Two PHI instructions with as many incoming values.
PhisLater ==
    /\ CompareInstructions
    /\ SamePhis(Left, Right)
    /\ phis' = Append(phis, [s \in Side |-> This(s)])
    /\ IF EqualInstructions
       THEN at' = "operands" /\ operand' = 1 /\ UNCHANGED cur
       ELSE /\ cur' = [s \in Side |-> Behind(s)]
            /\ UNCHANGED <<at, operand>>
    /\ UNCHANGED <<given, fn, todo, visited, inverse, matched, tryInline, verdict, rerun>>

\* Comparisons with inverse predicates are equal but for their branches.
ComparisonsInverse ==
    /\ CompareInstructions
    /\ ~EqualInstructions
    /\ InverseComparisons(Left, Right)
    /\ inverse' = inverse \cup {<<Left.name, Right.name>>}
    /\ at' = "operands"
    /\ operand' = 1
    /\ UNCHANGED <<given, fn, cur, todo, visited, phis, matched, tryInline, verdict, rerun>>

\* A difference; where one instruction is a call, it may be inlined.
InstructionsDiffer ==
    /\ CompareInstructions
    /\ ~EqualInstructions
    /\ ~InverseBranches(Left, Right) /\ ~SamePhis(Left, Right) /\ ~InverseComparisons(Left, Right)
    /\ tryInline' = IF IsCall(Left) /\ ~IsCall(Right) THEN [NoCalls EXCEPT !.L = Left.name]
                    ELSE IF IsCall(Right) /\ ~IsCall(Left) THEN [NoCalls EXCEPT !.R = Right.name]
                    ELSE tryInline
    /\ at' = "differ"
    /\ UNCHANGED <<given, fn, cur, operand, matched, todo, visited, inverse, phis, verdict, rerun>>

\* The next operands, a block each.
CompareBlockOperands ==
    /\ at = "operands"
    /\ operand <= Len(Operands(Left))
    /\ LET l == Operands(Left)[operand]
           r == Operands(Right)[operand]
       IN  /\ l \in BlockNames
           /\ sn' = BlockNumbersAfter(l, r)
    /\ operand' = operand + 1
    /\ UNCHANGED <<given, fn, at, cur, todo, visited, inverse, phis, matched, tryInline, verdict, rerun>>

\* Arguments of calls that differ may be the same in the C source.  The result is
\* then that of the instructions: other operands are not compared any more.
CompareOperands ==
    /\ at = "operands"
    /\ operand <= Len(Operands(Left))
    /\ LET l == Operands(Left)[operand]
           r == Operands(Right)[operand]
           equal == SameValue(sn, Uncast("L", l), Uncast("R", r))
           sameInSource == IsCall(Left) /\ IsCall(Right) /\ <<l, r>> \in SameInSource
       IN  /\ l \notin BlockNames
           /\ sn' = NumbersAfter(sn, Uncast("L", l), Uncast("R", r))
           /\ \/ equal /\ operand' = operand + 1 /\ UNCHANGED at
              \/ ~equal /\ sameInSource /\ operand' = Len(Operands(Left)) + 1 /\ UNCHANGED at
              \/ ~equal /\ ~sameInSource /\ at' = "differ" /\ UNCHANGED operand
    /\ UNCHANGED <<given, fn, cur, todo, visited, inverse, phis, matched, tryInline, verdict, rerun>>

NextInstructions ==
    /\ at = "operands"
    /\ operand > Len(Operands(Left))
    /\ Left.op \notin {"br", "ret"}
    /\ cur' = [s \in Side |-> Behind(s)]
    /\ at' = "instructions"
    /\ UNCHANGED <<given, fn, operand, sn, todo, visited, inverse, phis, matched, tryInline, verdict, rerun>>

\* The end of the blocks.
EndBlocks ==
    /\ at = "operands"
    /\ operand > Len(Operands(Left))
    /\ Left.op \in {"br", "ret"}
    /\ at' = "successors"
    /\ operand' = 1
    /\ UNCHANGED <<given, fn, cur, matched, sn, todo, visited, inverse, phis, tryInline, verdict, rerun>>

\* A successor that the walk has not met on the left is to be compared with the
\* one at the same place on the right.
NextSuccessors ==
    /\ at = "successors"
    /\ operand <= Len(Left.to)
    /\ LET b == Left.to[operand]
       IN  \/ /\ b \notin visited
              /\ todo' = Append(todo, [s \in Side |-> This(s).to[operand]])
              /\ visited' = Met(b)
           \/ b \in visited /\ UNCHANGED <<todo, visited>>
    /\ operand' = operand + 1
    /\ UNCHANGED <<given, fn, at, cur, matched, sn, inverse, phis, tryInline, verdict, rerun>>

NoMoreSuccessors ==
    /\ at = "successors"
    /\ operand > Len(Left.to)
    /\ at' = "blocks"
    /\ UNCHANGED <<given, fn, cur, operand, matched, sn, todo, visited, inverse, phis, tryInline, verdict, rerun>>

\* One of the instructions may be ignored: it is skipped, and both lose their numbers.
Skip ==
    /\ at = "differ"
    /\ MayIgnore(Left) \/ MayIgnore(Right)
    /\ sn' = [s \in Side |-> Restrict(sn[s], DOMAIN sn[s] \ {This(s).name})]
    /\ cur' = AfterSkipping
    /\ at' = "instructions"
    /\ UNCHANGED <<given, fn, operand, todo, visited, inverse, phis, matched, tryInline, verdict, rerun>>

\* The functions differ here; two calls may both be inlined.
Differ ==
    /\ at = "differ"
    /\ ~MayIgnore(Left) /\ ~MayIgnore(Right)
    /\ tryInline' = IF IsCall(Left) /\ IsCall(Right)
                    THEN [s \in Side |-> This(s).name] ELSE tryInline
    /\ Result("not_equal")
    /\ UNCHANGED <<given, fn, cur, operand, matched, sn, todo, visited, inverse, phis, rerun>>

\* All blocks are equal; what is left are the PHI instructions.
BlocksEqual ==
    /\ at = "blocks"
    /\ todo = <<>>
    /\ at' = "phis"
    /\ operand' = 1
    /\ UNCHANGED <<given, fn, cur, matched, sn, todo, visited, inverse, phis, tryInline, verdict, rerun>>

\* cmpPHIs: each incoming value on the left is compared with each on the right, and
\* has to be equal to one.  The blocks are compared too, and blocks are equal.
ComparePhis ==
    /\ at = "phis"
    /\ phis # <<>>
    /\ LET l == Head(phis).L
           r == Head(phis).R
           i == ((operand - 1) \div Len(r.to)) + 1
           j == ((operand - 1) % Len(r.to)) + 1
           v == Uncast("L", l.args[i])
           w == Uncast("R", r.args[j])
           ns == BlockNumbersAfter(l.to[i], r.to[j])
       IN  /\ sn' = NumbersAfter(ns, v, w)
           /\ matched' = ((j > 1 /\ matched) \/ SameValue(ns, v, w))
           /\ \/ /\ j < Len(r.to) \/ (matched' /\ i < Len(l.to))
                 /\ operand' = operand + 1
                 /\ UNCHANGED <<phis, at, verdict>>
              \/ /\ j = Len(r.to) /\ matched' /\ i = Len(l.to)
                 /\ operand' = 1
                 /\ phis' = Tail(phis)
                 /\ UNCHANGED <<at, verdict>>
              \/ /\ j = Len(r.to) /\ ~matched'
                 /\ Result("not_equal")
                 /\ UNCHANGED <<operand, phis>>
    /\ UNCHANGED <<given, fn, cur, todo, visited, inverse, tryInline, rerun>>

AllEqual ==
    /\ at = "phis"
    /\ phis = <<>>
    /\ Result("equal")
    /\ UNCHANGED <<given, fn, cur, operand, matched, sn, todo, visited, inverse, phis, tryInline, rerun>>

\* The call i with the called function's body in place of it.
InlineCall(s, i) ==
    LET c == i.args[Len(i.args)]
        params == given.params[s][c]
        body == Head(given.callee[s][c])
        Bind(a) == IF a \in Range(params) THEN i.args[CHOOSE k \in DOMAIN params : params[k] = a] ELSE a
    IN  [body EXCEPT !.name = i.name, !.args = [k \in DOMAIN body.args |-> Bind(body.args[k])]]

CallOf(s) == CHOOSE i \in InstrsOf(fn[s]) : i.name = tryInline[s]
Inlinable ==
    {s \in Side : tryInline[s] # None /\ given.callee[s][CallOf(s).args[Len(CallOf(s).args)]] # <<>>}

\* compareFunctions inlines what it can and compares again, with a new comparator.
Inline ==
    /\ at = "inline"
    /\ Inlinable # {}
    /\ fn' = [s \in Side |->
            IF s \notin Inlinable THEN fn[s]
            ELSE [fn[s] EXCEPT !.code = [b \in BlockNames |->
                    [n \in DOMAIN fn[s].code[b] |->
                        IF fn[s].code[b][n].name = tryInline[s] THEN InlineCall(s, fn[s].code[b][n])
                                                               ELSE fn[s].code[b][n]]]]]
    /\ tryInline' = NoCalls
    /\ verdict' = "unknown"
    /\ rerun' = TRUE
    /\ Fresh
    /\ UNCHANGED given

NothingToInline ==
    /\ at = "inline"
    /\ Inlinable = {}
    /\ tryInline' = NoCalls
    /\ at' = "end"
    /\ UNCHANGED <<given, fn, cur, operand, matched, sn, todo, visited, inverse, phis, verdict, rerun>>

Done == at = "end" /\ UNCHANGED vars

Next ==
    \/ CompareSignature \/ SignaturesDiffer
    \/ CompareBlocks
    \/ InstructionsEqual \/ BranchesInverse \/ PhisLater
    \/ ComparisonsInverse \/ InstructionsDiffer
    \/ CompareBlockOperands \/ CompareOperands
    \/ NextInstructions \/ EndBlocks \/ NextSuccessors \/ NoMoreSuccessors
    \/ Skip \/ Differ
    \/ BlocksEqual \/ ComparePhis \/ AllEqual
    \/ Inline \/ NothingToInline
    \/ Done

\* SimpLL is one thread that keeps running.
Spec == Init /\ [][Next]_vars /\ WF_vars(Next)

-----------------------------------------------------------------------------
(***************************************************************************)
(* Properties.                                                             *)
(***************************************************************************)
\* Types of the variables; the comparison is always at an instruction of both
\* functions, and what is to be inlined are calls.
TypeOK ==
    /\ fn \in [Side -> Function]
    /\ at \in Places
    /\ cur \in [Side -> [block : BlockNames, pos : Nat \ {0}]]
    /\ \A s \in Side : cur[s].pos \in DOMAIN fn[s].code[cur[s].block]
    /\ operand \in Nat \ {0}
    /\ matched \in BOOLEAN
    /\ \A s \in Side : /\ DOMAIN sn[s] \subseteq Names \cup BlockNames
                       /\ sn[s] \in [DOMAIN sn[s] -> Nat]
    /\ todo \in Seq([Side -> BlockNames])
    /\ visited \subseteq BlockNames
    /\ inverse \subseteq Names \X Names
    /\ phis \in Seq([Side -> Instr])
    /\ tryInline \in [Side -> Names \cup {None}]
    /\ \A s \in Side : tryInline[s] # None => \E i \in InstrsOf(fn[s]) : i.name = tryInline[s] /\ IsCall(i)
    /\ verdict \in {"unknown", "equal", "not_equal"}
    /\ rerun \in BOOLEAN

Ended == at = "end"

\* A serial number stands for one value: though numbers are taken back from
\* skipped instructions and from blocks, none is given twice, so two values of a
\* function are never equal to the same value of the other.
SerialsUnique ==
    \A s \in Side : /\ IsInjective(sn[s])
                   /\ Range(sn[s]) = 0 .. Size(sn[s]) - 1

\* The walk compares each block of the left function once: blocks that wait are
\* different, known as visited, and not the one being compared.
OncePerBlock ==
    /\ \A n \in DOMAIN todo : todo[n].L \in visited
    /\ \A n, k \in DOMAIN todo : todo[n].L = todo[k].L => n = k
    /\ at \in {"instructions", "operands", "successors", "differ"} =>
        /\ cur.L.block \in visited
        /\ \A n \in DOMAIN todo : todo[n].L # cur.L.block

\* The comparison comes to its end, with loops in the functions too.
Terminates == <>Ended

=============================================================================
