--------------------------- MODULE ModuleCompare ---------------------------
(***************************************************************************)
(* The comparison of two modules inside SimpLL: compareFunctions of        *)
(* ModuleComparator.cpp together with the part of the function comparator  *)
(* (DifferentialFunctionComparator.cpp) that deals with calls.  The two    *)
(* call each other recursively and share the results, the list of missing  *)
(* definitions, and the calls the next inlining is to try.                 *)
(*                                                                         *)
(* The body of a function is the sequence of its instructions; blocks and  *)
(* branches are left out, and so is what LLVM says of two instructions     *)
(* that are no calls: their data are equal or not.  Functions have one     *)
(* name on both sides; the pairs with a void variant are left out.         *)
(***************************************************************************)
EXTENDS ComparisonGraph

CONSTANTS
    Data,           \* operands that are no parameters
    MacroValues,    \* those of them that stand for __LINE__ and its like
    Abstractions,   \* functions that stand for inline assembly, indirect calls
    Families        \* sets of pairs of modules, with the functions to compare

NoFun == 0
Params == <<"p1", "p2">>

ASSUME DataAssumption == MacroValues \subseteq Data /\ Range(Params) \cap Data = {}
ASSUME NamesAssumption == Abstractions \subseteq Funs /\ NoFun \notin Funs

Operands == Data \cup Range(Params)

\* "macro" is the function-like macro the instruction was expanded from.
Instr == {i \in [kind  : {"plain", "cast", "call"},
                 fun   : Funs \cup {NoFun},
                 args  : Seq(Operands),
                 macro : Funs \cup {NoFun}] : i.kind = "call" <=> i.fun # NoFun}

\* What ends every body.
Ret == [kind |-> "ret", fun |-> NoFun, args |-> <<>>, macro |-> NoFun]

\* defined: the functions with a body, which are not in Abstractions; cached:
\* the pairs the cache lists.
Module == [main    : Funs,
           defined : [Side -> SUBSET Funs],
           arity   : [Side -> [Funs -> 0 .. Len(Params)]],
           body    : [Side -> [Funs -> Seq(Instr)]],
           cached  : SUBSET Funs]

ASSUME FamiliesAssumption ==
    \A modules \in Families : \A m \in modules :
        /\ m \in Module
        /\ \A s \in Side : m.defined[s] \cap Abstractions = {}

VARIABLES
    mods,       \* the pair of modules as read; never changes
    body,       \* the bodies, which inlining changes
    stack,      \* calls of compareFunctions in progress, the last one first
    compared,   \* ComparedFuns
    missing,    \* MissingDefs
    tryInline   \* the call to inline on each side

vars == <<mods, body, stack, compared, missing, tryInline>>

\* A call instruction is known by its function and its place there.
NoCall == [fun |-> NoFun, pos |-> 0]
CallRef == [fun : Funs, pos : Nat] \cup {NoCall}
NoCalls == [s \in Side |-> NoCall]

Places == {"enter", "compare", "scan", "differ", "equal", "unequal", "inline"}

Frame == [fun     : Funs,
          at      : Places,
          pos     : [Side -> Nat \ {0}],         \* next instructions
          inlined : [Side -> Funs \cup {NoFun}], \* what the last inlining was about
          rerun   : BOOLEAN]

NewFrame(f) == [fun     |-> f,
                at      |-> "enter",
                pos     |-> [s \in Side |-> 1],
                inlined |-> [s \in Side |-> NoFun],
                rerun   |-> FALSE]

Comparison == [kind : Verdicts, calls : [Side -> SUBSET Edge]]
NewComparison == [kind |-> "unknown", calls |-> [s \in Side |-> {}]]

-----------------------------------------------------------------------------
Top == Head(stack)
InProgress(at) == stack # <<>> /\ Top.at = at

\* The results with that of f added, or replaced.
WithResult(f, result) ==
    [g \in DOMAIN compared \cup {f} |-> IF g = f THEN result ELSE compared[g]]

\* Both functions of the pair have a body.
Bodies(f) == \A s \in Side : f \in mods.defined[s]

\* The function comparator is at these two instructions.
At(s) == LET b == body[s][Top.fun]
         IN  IF Top.pos[s] > Len(b) THEN Ret ELSE b[Top.pos[s]]

IsCall(i) == i.kind = "call"
MayInline(i) == IsCall(i) /\ i.fun \notin Abstractions

\* cmpOperations: same kind of instruction, same number of operands.
SameOperation(i, j) == i.kind = j.kind /\ Len(i.args) = Len(j.args)

DifferingArgs(i, j) == {k \in DOMAIN i.args : i.args[k] # j.args[k]}

\* The first operands that differ are equal in the C source: the comparison
\* of the operands ends there.
EqualInSource(i, j) ==
    /\ SameOperation(i, j) /\ IsCall(i)
    /\ i.fun = j.fun
    /\ \E k \in DifferingArgs(i, j) :
        /\ \A l \in DifferingArgs(i, j) : k <= l
        /\ {i.args[k], j.args[k]} \subseteq MacroValues

EqualOperandsButCallee(i, j) ==   \* mutant: the called functions are not looked at
    SameOperation(i, j) /\ DifferingArgs(i, j) = {}

\* All operands are equal, the called function, which comes last, included.
EqualOperands(i, j) == SameOperation(i, j) /\ DifferingArgs(i, j) = {} /\ i.fun = j.fun

Same(i, j) == EqualOperands(i, j) \/ EqualInSource(i, j)

Advance(sides) == [Top EXCEPT !.pos = [s \in Side |-> @[s] + (IF s \in sides THEN 1 ELSE 0)]]
Ref(s) == [fun |-> Top.fun, pos |-> Top.pos[s]]

\* A call, and something that is not one: the call may be inlined.
TryOneCall(i, j) ==
    IF MayInline(i) /\ ~IsCall(j) THEN [NoCalls EXCEPT !.L = Ref("L")]
    ELSE IF MayInline(j) /\ ~IsCall(i) THEN [NoCalls EXCEPT !.R = Ref("R")]
    ELSE tryInline

\* A function on one side is a macro on the other (findMacroFunctionDifference).
TryMacro(i, j, otherwise) ==
    IF IsCall(i) /\ i.macro # i.fun /\ j.macro = i.fun
    THEN [NoCalls EXCEPT !.L = Ref("L")]
    ELSE IF IsCall(j) /\ i.macro = j.fun /\ j.macro # j.fun
    THEN [NoCalls EXCEPT !.R = Ref("R")]
    ELSE otherwise

\* A set of calls holds one element for each name: a known one stays.
AddCall(calls, f) ==
    IF \E c \in calls : c.to = f THEN calls
    ELSE calls \cup {[to |-> f, variant |-> FALSE, weak |-> FALSE]}

CompareNewCallees(f, frame) ==   \* mutant: only calls of new functions are recorded
    IF f \in Abstractions \cup DOMAIN compared
    THEN UNCHANGED compared /\ stack' = <<frame>> \o Tail(stack)
    ELSE /\ compared' = [compared EXCEPT ![Top.fun].calls = [s \in Side |-> AddCall(@[s], f)]]
         /\ stack' = <<NewFrame(f), frame>> \o Tail(stack)

\* cmpGlobalValues on two functions of the same name records the call, and
\* compares the functions first if they are new; frame is to go on after that.
CompareCallees(f, frame) ==
    /\ compared' = [compared EXCEPT ![Top.fun].calls =
                        [s \in Side |-> IF f \in Abstractions THEN @[s] ELSE AddCall(@[s], f)]]
    /\ stack' = (IF f \in Abstractions \cup DOMAIN compared THEN <<>> ELSE <<NewFrame(f)>>)
                    \o <<frame>> \o Tail(stack)

-----------------------------------------------------------------------------
Init ==
    /\ \E modules \in Families : mods \in modules
    /\ body = mods.body
    /\ stack = <<NewFrame(mods.main)>>
    /\ compared = [f \in {} |-> NewComparison]
    /\ missing = {}
    /\ tryInline = NoCalls

\* compareFunctions: the pair is cached.
EnterCached ==
    /\ InProgress("enter")
    /\ Top.fun \in mods.cached
    /\ compared' = WithResult(Top.fun, NewComparison)
    /\ stack' = Tail(stack)
    /\ UNCHANGED <<mods, body, missing, tryInline>>

\* One of the functions is a declaration.
EnterDeclaration ==
    /\ InProgress("enter")
    /\ Top.fun \notin mods.cached
    /\ ~Bodies(Top.fun)
    /\ compared' = WithResult(Top.fun, [NewComparison EXCEPT !.kind = "assumed_equal"])
    /\ missing' = missing \cup
            {[side |-> s, fun |-> Top.fun] :
                s \in {t \in Side : /\ Top.fun \notin mods.defined[t]
                                    /\ \E o \in Side : Top.fun \in mods.defined[o]}}
    /\ stack' = Tail(stack)
    /\ UNCHANGED <<mods, body, tryInline>>

EnterBodies ==
    /\ InProgress("enter")
    /\ Top.fun \notin mods.cached
    /\ Bodies(Top.fun)
    /\ compared' = WithResult(Top.fun, NewComparison)
    /\ stack' = <<[Top EXCEPT !.at = "compare"]>> \o Tail(stack)
    /\ UNCHANGED <<mods, body, missing, tryInline>>

\* compare() looks at the signatures, then at the instructions.
Compare ==
    /\ InProgress("compare")
    /\ stack' = <<[Top EXCEPT !.at = IF mods.arity.L[Top.fun] = mods.arity.R[Top.fun]
                                     THEN "scan" ELSE "unequal"]>> \o Tail(stack)
    /\ UNCHANGED <<mods, body, compared, missing, tryInline>>

\* The instructions are equal, and are no calls whose callees are compared.
ScanEqual ==
    /\ InProgress("scan")
    /\ Same(At("L"), At("R"))
    /\ ~(IsCall(At("L")) /\ EqualOperands(At("L"), At("R")))
    /\ stack' = <<IF At("L").kind = "ret" THEN [Top EXCEPT !.at = "equal"] ELSE Advance(Side)>>
                    \o Tail(stack)
    /\ UNCHANGED <<mods, body, compared, missing, tryInline>>

\* Two equal calls: the called functions are compared.
ScanCalls ==
    /\ InProgress("scan")
    /\ IsCall(At("L")) /\ EqualOperands(At("L"), At("R"))
    /\ CompareCallees(At("L").fun, Advance(Side))
    /\ UNCHANGED <<mods, body, missing, tryInline>>

\* A cast that has no counterpart is ignored.
ScanSkip ==
    /\ InProgress("scan")
    /\ ~Same(At("L"), At("R"))
    /\ "cast" \in {At("L").kind, At("R").kind}
    /\ stack' = <<Advance({IF At("L").kind = "cast" THEN "L" ELSE "R"})>> \o Tail(stack)
    /\ tryInline' = TryOneCall(At("L"), At("R"))
    /\ UNCHANGED <<mods, body, compared, missing>>

\* The instructions differ, and one of them is no call.
ScanDiffers ==
    /\ InProgress("scan")
    /\ ~Same(At("L"), At("R"))
    /\ "cast" \notin {At("L").kind, At("R").kind}
    /\ ~(IsCall(At("L")) /\ IsCall(At("R")))
    /\ tryInline' = TryMacro(At("L"), At("R"), TryOneCall(At("L"), At("R")))
    /\ stack' = <<[Top EXCEPT !.at = "unequal"]>> \o Tail(stack)
    /\ UNCHANGED <<mods, body, compared, missing>>

\* Two calls that differ: the called functions are compared all the same if
\* they have the same name ...
ScanCallsDiffer ==
    /\ InProgress("scan")
    /\ ~Same(At("L"), At("R"))
    /\ IsCall(At("L")) /\ IsCall(At("R"))
    /\ IF At("L").fun = At("R").fun
       THEN CompareCallees(At("L").fun, [Top EXCEPT !.at = "differ"])
       ELSE /\ stack' = <<[Top EXCEPT !.at = "differ"]>> \o Tail(stack)
            /\ UNCHANGED compared
    /\ UNCHANGED <<mods, body, missing, tryInline>>

\* ... and then both calls may be inlined (processCallInstDifference).
TryCalls ==
    /\ InProgress("differ")
    /\ tryInline' = TryMacro(At("L"), At("R"),
                        IF MayInline(At("L")) /\ MayInline(At("R"))
                        THEN [s \in Side |-> Ref(s)] ELSE tryInline)
    /\ stack' = <<[Top EXCEPT !.at = "unequal"]>> \o Tail(stack)
    /\ UNCHANGED <<mods, body, compared, missing>>

\* The calls to what was inlined last become weak.
Weaken(calls, f) == {[c EXCEPT !.weak = @ \/ c.to = f] : c \in calls}

\* The functions are equal, at once or after inlining.
SetEqual ==
    /\ InProgress("equal")
    /\ compared' = [compared EXCEPT
            ![Top.fun].kind = "equal",
            ![Top.fun].calls = [s \in Side |-> Weaken(@[s], Top.inlined[s])]]
    /\ stack' = (IF Top.rerun THEN <<[Top EXCEPT !.at = "inline"]>> ELSE <<>>) \o Tail(stack)
    /\ UNCHANGED <<mods, body, missing, tryInline>>

SetUnequalLeavesUnknown ==   \* mutant: the verdict is not set
    /\ InProgress("unequal")
    /\ stack' = <<[Top EXCEPT !.at = "inline"]>> \o Tail(stack)
    /\ UNCHANGED <<mods, body, compared, missing, tryInline>>

SetUnequal ==
    /\ InProgress("unequal")
    /\ compared' = [compared EXCEPT ![Top.fun].kind = "not_equal"]
    /\ stack' = <<[Top EXCEPT !.at = "inline"]>> \o Tail(stack)
    /\ UNCHANGED <<mods, body, missing, tryInline>>

\* findCallInst finds a call in the function being compared only.
Found(s) == tryInline[s].fun = Top.fun
Called(s) == IF Found(s) THEN body[s][Top.fun][tryInline[s].pos].fun ELSE NoFun
Inlinable == {s \in Side : Found(s) /\ Called(s) \in mods.defined[s]}

\* The body b with the call at pos replaced by the body c, for its arguments.
InlineAt(b, pos, c) ==
    LET Bind(a) == IF \E k \in DOMAIN b[pos].args : Params[k] = a
                   THEN b[pos].args[CHOOSE k \in DOMAIN b[pos].args : Params[k] = a] ELSE a
        bound == [n \in DOMAIN c |-> [c[n] EXCEPT !.args = [k \in DOMAIN @ |-> Bind(@[k])]]]
    IN  SubSeq(b, 1, pos - 1) \o bound \o SubSeq(b, pos + 1, Len(b))

InlineNeverStops ==   \* mutant: goes on though nothing was inlined
    /\ InProgress("inline")
    /\ tryInline # NoCalls
    /\ body' = [s \in Side |->
                    IF s \in Inlinable
                    THEN [body[s] EXCEPT ![Top.fun] = InlineAt(@, tryInline[s].pos, body[s][Called(s)])]
                    ELSE body[s]]
    /\ tryInline' = NoCalls
    /\ stack' = <<[NewFrame(Top.fun) EXCEPT !.at = "compare", !.rerun = TRUE]>> \o Tail(stack)
    /\ UNCHANGED <<mods, compared, missing>>

\* The calls to try are inlined, or reported if their definition is missing.
\* The functions are compared again if one was inlined.
Inline ==
    /\ InProgress("inline")
    /\ tryInline # NoCalls
    /\ missing' = missing \cup
            {[side |-> s, fun |-> Called(s)] :
                s \in {t \in Side : Found(t) /\ t \notin Inlinable /\ Called(t) \notin Abstractions}}
    /\ body' = [s \in Side |->
                    IF s \in Inlinable
                    THEN [body[s] EXCEPT ![Top.fun] = InlineAt(@, tryInline[s].pos, body[s][Called(s)])]
                    ELSE body[s]]
    /\ tryInline' = NoCalls
    /\ IF Inlinable = {}
       THEN /\ stack' = Tail(stack)
            /\ UNCHANGED compared
       ELSE /\ stack' = <<[NewFrame(Top.fun) EXCEPT
                                !.at = "compare",
                                !.inlined = [s \in Side |-> Called(s)],
                                !.rerun = TRUE]>> \o Tail(stack)
            /\ compared' = [compared EXCEPT ![Top.fun].kind = "unknown"]
    /\ UNCHANGED mods

\* There is nothing to inline: compareFunctions returns.
Return ==
    /\ InProgress("inline")
    /\ tryInline = NoCalls
    /\ stack' = Tail(stack)
    /\ UNCHANGED <<mods, body, compared, missing, tryInline>>

Done == stack = <<>> /\ UNCHANGED vars

Next ==
    \/ EnterCached \/ EnterDeclaration \/ EnterBodies
    \/ Compare
    \/ ScanEqual \/ ScanCalls \/ ScanSkip \/ ScanDiffers \/ ScanCallsDiffer
    \/ TryCalls
    \/ SetEqual \/ SetUnequal
    \/ Inline \/ Return
    \/ Done

\* SimpLL is one thread that keeps running.
Spec == Init /\ [][Next]_vars /\ WF_vars(Next)

-----------------------------------------------------------------------------
(***************************************************************************)
(* Properties.                                                             *)
(***************************************************************************)
\* Types of the variables; the calls to inline are calls in the current bodies.
TypeOK ==
    /\ mods \in Module
    /\ body \in [Side -> [Funs -> Seq(Instr)]]
    /\ stack \in Seq(Frame)
    /\ DOMAIN compared \subseteq Funs
    /\ compared \in [DOMAIN compared -> Comparison]
    /\ missing \subseteq [side : Side, fun : Funs]
    /\ tryInline \in [Side -> CallRef]
    /\ \A s \in Side : tryInline[s] # NoCall =>
            LET b == body[s][tryInline[s].fun]
            IN  tryInline[s].pos \in DOMAIN b /\ IsCall(b[tryInline[s].pos])

Ended == stack = <<>>
Compared(f) == f \in DOMAIN compared /\ \A n \in DOMAIN stack : stack[n].fun # f

\* What executing f on side s does, its calls to defined functions replaced by
\* what these do; where recursion goes on, only what comes before is known.
Behaviour(s, f) ==
    LET IsDefinedCall(i) == IsCall(i) /\ i.fun \in mods.defined[s]
        InlineAll(b) ==
            FlattenSeq([n \in DOMAIN b |->
                IF IsDefinedCall(b[n]) THEN InlineAt(<<b[n]>>, 1, mods.body[s][b[n].fun]) ELSE <<b[n]>>])
        Level[n \in Nat] == IF n = 0 THEN mods.body[s][f] ELSE InlineAll(Level[n - 1])
        IsWhole(b) == \A n \in DOMAIN b : ~IsDefinedCall(b[n])
        Known(b) == CHOOSE c \in {SubSeq(b, 1, n) : n \in 0 .. Len(b)} :
                        IsWhole(c) /\ (c = b \/ IsDefinedCall(b[Len(c) + 1]))
        Effect(i) == <<i.kind, i.fun, [k \in DOMAIN i.args |->
                                            IF i.args[k] \in MacroValues THEN "macro" ELSE i.args[k]]>>
        all == Level[Cardinality(Funs)]
        known == SelectSeq(Known(all), LAMBDA i : i.kind # "cast")
    IN  [whole |-> IsWhole(all), effects |-> [n \in DOMAIN known |-> Effect(known[n])]]

SameBehaviour(f) ==
    LET l == Behaviour("L", f)
        r == Behaviour("R", f)
    IN  IF l.whole /\ r.whole THEN l = r
        ELSE IsPrefix(l.effects, r.effects) \/ IsPrefix(r.effects, l.effects)

\* The functions are equal if all functions compared are: then the main one
\* does the same in both versions, whatever was inlined where, and whatever
\* the order in which results were found.
AllEqualSound ==
    (Ended /\ missing = {} /\ \A f \in DOMAIN compared : compared[f].kind \in {"equal", "assumed_equal"})
        => SameBehaviour(mods.main)

\* A function still called by functions that are equal has been compared, and
\* the call is recorded.
CalleesCompared ==
    \A f \in DOMAIN compared : Compared(f) /\ compared[f].kind = "equal" =>
        \A s \in Side : \A n \in DOMAIN body[s][f] :
            LET i == body[s][f][n]
            IN  IsCall(i) /\ i.fun \notin Abstractions =>
                    i.fun \in DOMAIN compared /\ \E c \in compared[f].calls[s] : c.to = i.fun

\* What the session relies on (SimpLLRun): the compared pairs are those met
\* from the main one along the recorded calls, each with a final verdict, and
\* a function with a body on one side only is reported as missing.
ContractKept ==
    Ended =>
        LET Calls == UNION {{<<f, c.to>> : c \in compared[f].calls["L"]} : f \in DOMAIN compared}
        IN  /\ DOMAIN compared = Closure(mods.main, Calls)
            /\ \A f \in DOMAIN compared :
                /\ {c.to : c \in compared[f].calls["L"]} = {c.to : c \in compared[f].calls["R"]}
                /\ compared[f].kind = "unknown" <=> f \in mods.cached
                /\ f \notin mods.cached => (compared[f].kind = "assumed_equal" <=> ~Bodies(f))
                /\ \A s, t \in Side : f \in mods.defined[s] \ (mods.defined[t] \cup mods.cached)
                        => [side |-> t, fun |-> f] \in missing

\* SimpLL ends, however calls, inlining and recursion come together.  (It does not
\* when the calls of a recursive function differ: each inlining leaves such a call.)
Terminates == <>Ended

=============================================================================
