----------------------------- MODULE Preprocess -----------------------------
(***************************************************************************)
(* What SimpLL does to both modules before it compares them: the passes of *)
(* preprocessModule, on one module after the other, and those of           *)
(* simplifyModulesDiff, which look at the other module too                 *)
(* (ModuleAnalysis.cpp, passes/).  The slicers are in Slicer.              *)
(*                                                                         *)
(* A module is a list of functions.  What the passes look at is the calls  *)
(* of a function and where their results are used; bodies are sequences    *)
(* of instructions, without branches.  Functions are referred to by their  *)
(* numbers, as LLVM does by pointers, and can be renamed.                  *)
(***************************************************************************)
EXTENDS Naturals, Sequences, FiniteSets, SequencesExt, Functions

CONSTANTS
    Pairs,      \* pairs of modules
    BugTables   \* numbers of the inline assembly that contains __bug_table

Side == {"L", "R"}
Other(s) == IF s = "L" THEN "R" ELSE "L"

\* Values: <<"instr", n>>, <<"arg", n>>, <<"const", n>>, <<"fun", n>>, or <<"cast", n>>
\* for function n cast to another type.  Called values are those, or <<"asm", n>>, or an
\* intrinsic.
Null == <<"const", 0>>
NoValue == <<"none", 0>>
Intrinsics == {"memcpy", "expect", "lifetime"}
Void(params) == [ret |-> "void", params |-> params]

\* Names are sequences: "f.1.void" is <<"f", "1", "void">>.
hasSuffix(name) == Len(name) > 1
dropSuffix(name) == Front(name)
Stripped(name) == IF hasSuffix(name) THEN dropSuffix(name) ELSE name

PrintFunctions == {"_dev_info", "dev_warn", "dev_err", "sprintf", "printk"}
WarnFunctions == {"warn_slowpath_null", "warn_slowpath_fmt", "__might_sleep", "__might_fault",
                  "acpi_ut_predefined_warning"}
Asserts == {"__compiletime_assert_1", "__compiletime_assert_2"}
InlineAsm == "simpll__inlineasm"
Indirect == "simpll__indirect"
FieldAccess == "simpll__fieldaccess"

\* The prefixes end with a dot.
isSimpllAbstractionDeclaration(f) == f.name[1] \in {InlineAsm, Indirect} /\ Len(f.name) > 1
isSimpllAbstraction(f) == isSimpllAbstractionDeclaration(f) \/ f.name[1] = FieldAccess

VARIABLES
    given,  \* the modules as read; never changes
    mods,   \* the modules
    main,   \* the compared functions: config.FirstFun, SecondFun
    todo    \* the passes that are still to run: [pass, side, fun]

vars == <<given, mods, main, todo>>

Instrs(f) == Range(f.body)
FunIds(m) == {m[n].id : n \in DOMAIN m}
Fun(m, id) == m[CHOOSE n \in DOMAIN m : m[n].id = id]
Names(m) == {m[n].name : n \in DOMAIN m}
NewId(m) == Max({0} \cup FunIds(m)) + 1
\* A name that is taken gets a number.
Unique(m, name) ==
    IF name \notin Names(m) THEN name
    ELSE Append(name, ToString(CHOOSE k \in 1 .. Len(m) + 1 :
            /\ Append(name, ToString(k)) \notin Names(m)
            /\ \A j \in 1 .. k - 1 : Append(name, ToString(j)) \in Names(m)))

WithBody(f, Rewrite(_)) == [f EXCEPT !.body = [n \in DOMAIN @ |-> Rewrite(@[n])]]
InModule(m, Rewrite(_)) == [n \in DOMAIN m |-> WithBody(m[n], Rewrite)]

\* replaceAllUsesWith, in one instruction.
Replaced(i, from, to) ==
    [i EXCEPT !.callee = IF @ = from THEN to ELSE @,
              !.args = [k \in DOMAIN @ |-> IF @[k] = from THEN to ELSE @[k]]]
\* For functions, also where they are cast.
FunReplaced(i, from, to) == Replaced(Replaced(i, <<"fun", from>>, <<"fun", to>>), <<"cast", from>>, <<"cast", to>>)
Used(f, value) == \E i \in Instrs(f) : value \in Range(i.args) \/ value = i.callee
Result(i) == <<"instr", i.id>>

\* The name of the function that i calls, empty if it calls none directly.
CalledName(m, i) == IF i.op = "call" /\ i.callee[1] = "fun" THEN Fun(m, i.callee[2]).name ELSE <<"">>

-----------------------------------------------------------------------------
(***************************************************************************)
(* Passes on functions.                                                    *)
(***************************************************************************)
UnlocatedAll(i) == [i EXCEPT !.args = [k \in DOMAIN @ |-> Null]]     \* mutant: every argument goes
\* The file and the line that a call reports.
Unlocated(i) ==
    [i EXCEPT !.args = [k \in DOMAIN @ |->
        IF \/ k = 1 /\ i.sig.params[1] = "ptr"
           \/ k = 2 /\ i.sig.params[2] = "int" /\ @[2][1] = "const"
        THEN Null ELSE @[k]]]
SimplifiedCall(m, i) ==
    IF i.op = "call" /\ i.callee[1] = "asm" /\ i.callee[2] \in BugTables THEN Unlocated(i)
    ELSE IF CalledName(m, i)[1] \in PrintFunctions
    THEN [i EXCEPT !.args = <<Null, Null>>, !.sig.params = <<"ptr", "ptr">>]
    ELSE IF CalledName(m, i)[1] \in WarnFunctions THEN Unlocated(i)
    ELSE i
SimplifyKernelFunctionCalls(m, f) == WithBody(f, LAMBDA i : SimplifiedCall(m, i))

\* Calls of __memcpy become the intrinsic; what used their result gets the second
\* argument.  The fourth argument of the intrinsic is cleared.
UnifyMemcpy(m, f) ==
    LET Calls == SelectSeq(f.body, LAMBDA i : CalledName(m, i) = <<"__memcpy">>)
        Copy(i) == IF CalledName(m, i) = <<"__memcpy">>
                   THEN [i EXCEPT !.callee = <<"memcpy", 0>>, !.args = @ \o <<Null>>,
                                  !.sig = Void(@.params \o <<"int">>)]
                   ELSE IF i.callee[1] = "memcpy" /\ i.args[4] = <<"const", 1>>
                   THEN [i EXCEPT !.args[4] = Null]
                   ELSE i
    IN  FoldLeft(LAMBDA g, c : WithBody(g, LAMBDA i : Replaced(i, Result(c),
                    (CHOOSE j \in Instrs(g) : j.id = c.id).args[2])),
                 WithBody(f, Copy), Calls)

\* Without what has no effect and whose result nobody uses.
RemoveDead(f) ==
    [f EXCEPT !.body = FoldRight(LAMBDA i, rest :
        IF i.op \in {"gep", "cast"} /\ ~ Used([f EXCEPT !.body = rest], Result(i))
        THEN rest ELSE <<i>> \o rest, @, <<>>)]

\* The result of llvm.expect is its first argument.
LowerExpect(f) ==
    LET expect == SelectSeq(f.body, LAMBDA i : i.callee[1] = "expect")
        rest == [f EXCEPT !.body = SelectSeq(@, LAMBDA i : i.callee[1] # "expect")]
    IN  FoldRight(LAMBDA c, g : WithBody(g, LAMBDA i : Replaced(i, Result(c), c.args[1])), expect, rest)

\* New instructions for i have numbers of their own.
Fresh(i, k) == 10 * i.id + k
Cast(id, value) == [id |-> id, op |-> "cast", callee |-> NoValue, args |-> <<value>>,
                    sig |-> Void(<<>>), loc |-> 0]

SeparateUsed(m, i) ==       \* mutant: results that are missing are not minded
    i.op = "call" /\ i.callee[1] = "cast" /\ Len(i.args) >= Len(Fun(m, i.callee[2]).sig.params)
\* A call of a function cast to another type becomes a call of the function, with
\* casts of arguments and of the result, unless arguments or the result are missing.
Separable(m, i) ==
    /\ i.op = "call" /\ i.callee[1] = "cast"
    /\ LET sig == Fun(m, i.callee[2]).sig
       IN  Len(i.args) >= Len(sig.params) /\ (sig.ret = "void" => i.sig.ret = "void")

Separated(m, i) ==
    LET sig == Fun(m, i.callee[2]).sig
        recast == {k \in DOMAIN sig.params : k <= Len(i.args) /\ sig.params[k] # i.sig.params[k]}
        casts == [k \in 1 .. Cardinality(recast) |->
                    LET a == SetToSortSeq(recast, <)[k] IN Cast(Fresh(i, a), i.args[a])]
        direct == [i EXCEPT !.callee = <<"fun", @[2]>>,
                            !.sig = [sig EXCEPT !.params = [k \in DOMAIN i.args |->
                                        IF k <= Len(@) THEN @[k] ELSE i.sig.params[k]]],
                            !.args = [k \in DOMAIN @ |-> IF k \in recast THEN <<"instr", Fresh(i, k)>> ELSE @[k]]]
    IN  IF i.sig.ret = sig.ret \/ sig.ret = "void" THEN casts \o <<direct>>
        ELSE casts \o <<[direct EXCEPT !.id = Fresh(i, 0)], Cast(i.id, <<"instr", Fresh(i, 0)>>)>>

SeparateCallsToBitcast(m, f) ==
    [f EXCEPT !.body = FlattenSeq([n \in DOMAIN @ |-> IF Separable(m, @[n]) THEN Separated(m, @[n]) ELSE <<@[n]>>])]

-----------------------------------------------------------------------------
(***************************************************************************)
(* Passes on modules.                                                      *)
(***************************************************************************)
\* Functions whose names differ in a number are merged into the first one.
MergeInto(m, first, id) ==
    InModule(SelectSeq(m, LAMBDA f : f.id # id), LAMBDA i : FunReplaced(i, id, first))
MergeGroup(m, name) ==
    LET group == SelectSeq(m, LAMBDA f : ~ isSimpllAbstraction(f) /\ Stripped(f.name) = name)
        first == Head(group)
        same == SelectSeq(Tail(group), LAMBDA f : f.sig = first.sig)
        merged == FoldLeft(LAMBDA n, f : MergeInto(n, first.id, f.id), m, same)
    IN  IF Len(group) < 2 THEN m
        ELSE [k \in DOMAIN merged |->
                IF merged[k].id # first.id \/ merged[k].name = name THEN merged[k]
                ELSE [merged[k] EXCEPT !.name = Unique(merged, name)]]
MergeNumberedFunctions(m) ==
    FoldLeft(MergeGroup, m, SetToSeq({Stripped(name) : name \in Names(m)}))

\* Functions that carry compile-time assertions are replaced by one, or renamed to it.
SimplifyKernelGlobals(m) ==
    LET assert == <<"__compiletime_assert">>
        Simplified(n, id) ==
            IF assert \in Names(n)
            THEN InModule(n, LAMBDA i : FunReplaced(i, id, (CHOOSE f \in Range(n) : f.name = assert).id))
            ELSE [k \in DOMAIN n |-> IF n[k].id = id THEN [n[k] EXCEPT !.name = assert] ELSE n[k]]
        asserts == SelectSeq(m, LAMBDA f : f.name[1] \in Asserts)
    IN  FoldLeft(Simplified, m, [k \in DOMAIN asserts |-> asserts[k].id])

RemoveLifetimeCalls(m) ==
    [n \in DOMAIN m |-> [m[n] EXCEPT !.body = SelectSeq(@, LAMBDA i : i.callee[1] # "lifetime")]]

-----------------------------------------------------------------------------
(***************************************************************************)
(* Passes that look at the functions which the compared one may call, and  *)
(* at the other module.                                                    *)
(***************************************************************************)
\* The functions that function id calls or passes on, and those that they do.
Mentions(m, id) ==
    {v[2] : v \in {w \in UNION {{i.callee} \cup Range(i.args) : i \in Instrs(Fun(m, id))} : w[1] \in {"fun", "cast"}}}
CalledFunctions(m, id) ==
    LET reach[n \in Nat] == IF n = 0 THEN {id} ELSE reach[n - 1] \cup UNION {Mentions(m, g) : g \in reach[n - 1]}
    IN  reach[Len(m)]

\* Calls of inline assembly and of values become calls of new functions, one for each
\* assembly and type; a called value becomes the last argument.
IsAsm(i) == i.callee[1] = "asm"
Abstracted(i) == i.op = "call" /\ i.callee[1] \in {"asm", "arg", "instr"}
funHash(i) == [asm |-> IF IsAsm(i) THEN i.callee[2] ELSE 0, sig |-> i.sig]
Abstraction(id, k, i) ==
    [id |-> id, asm |-> funHash(i).asm, body |-> <<>>,
     name |-> <<IF IsAsm(i) THEN InlineAsm ELSE Indirect, ToString(k)>>,
     sig |-> IF IsAsm(i) THEN i.sig ELSE [i.sig EXCEPT !.params = Append(@, "ptr")]]

FunctionAbstractions(m, called) ==
    LET calls == SelectSeq(FlattenSeq([n \in DOMAIN m |-> IF m[n].id \in called THEN m[n].body ELSE <<>>]), Abstracted)
        new == FoldLeft(LAMBDA fs, i : IF \E k \in DOMAIN fs : funHash(fs[k]) = funHash(i) THEN fs ELSE Append(fs, i), <<>>, calls)
        id(i) == NewId(m) + (CHOOSE k \in DOMAIN new : funHash(new[k]) = funHash(i)) - 1
        Call(i) == IF ~ Abstracted(i) THEN i
                   ELSE [i EXCEPT !.callee = <<"fun", id(i)>>,
                                  !.args = IF IsAsm(i) THEN @ ELSE Append(@, i.callee),
                                  !.sig = Abstraction(0, 0, i).sig]
    IN  [n \in DOMAIN m |-> IF m[n].id \in called THEN WithBody(m[n], Call) ELSE m[n]]
            \o [k \in DOMAIN new |-> Abstraction(id(new[k]), k - 1, new[k])]

\* Calls of function id in f whose results nobody uses.
UnusedCalls(f, id) == {i \in Instrs(f) : i.op = "call" /\ i.callee = <<"fun", id>> /\ ~ Used(f, Result(i))}
Replaceable(m, other, called, id) ==
    LET f == Fun(m, id)
    IN  /\ f.sig.ret # "void"
        /\ \/ isSimpllAbstractionDeclaration(f)
           \/ /\ \E g \in Range(other) : g.name = f.name /\ g.sig.ret = "void"
              /\ id \in called
        /\ \E g \in Range(m) : UnusedCalls(g, id) # {}

\* Those calls go to a variant of the function that returns nothing, all other uses to
\* a clone; the function itself goes away.
WithVoid(m, id) ==
    LET f == Fun(m, id)
        name == Stripped(f.name)
        rest == SelectSeq(m, LAMBDA g : g.id # id)
        clone == [f EXCEPT !.id = NewId(m), !.name = Unique(rest, name)]
        void == [f EXCEPT !.id = NewId(m) + 1, !.sig.ret = "void", !.name = Unique(Append(rest, clone), Append(name, "void"))]
        Retarget(g) == WithBody(g, LAMBDA i :
            IF i \in UnusedCalls(g, id) THEN [i EXCEPT !.callee = <<"fun", void.id>>, !.sig.ret = "void"]
            ELSE FunReplaced(i, id, clone.id))
        Returning(g) == WithBody(g, LAMBDA i : IF i.op = "ret" THEN [i EXCEPT !.args = <<>>] ELSE i)
    IN  [n \in DOMAIN rest |-> Retarget(rest[n])]
            \o <<WithBody(clone, LAMBDA i : FunReplaced(i, id, clone.id)),
                 RemoveDead(Returning(Retarget([f EXCEPT !.id = void.id, !.sig = void.sig, !.name = void.name])))>>

RemoveUnusedReturnValues(m, other, called) ==
    FoldLeft(LAMBDA n, f : IF Replaceable(n, other, called, f.id) THEN WithVoid(n, f.id) ELSE n, m, m)

\* Runs of GEPs and casts with the same location, starting with a GEP.
InstStacks(f) ==
    LET Done(s) == [stack |-> <<>>, all |-> IF s.stack = <<>> THEN s.all ELSE Append(s.all, s.stack)]
        Step(s, i) ==
            IF i.op = "gep" /\ s.stack = <<>> THEN [s EXCEPT !.stack = <<i>>]
            ELSE IF i.op \notin {"gep", "cast"} \/ s.stack = <<>> THEN Done(s)
            ELSE IF Head(s.stack).loc = i.loc THEN [s EXCEPT !.stack = Append(@, i)]
            ELSE [Done(s) EXCEPT !.stack = IF i.op = "gep" THEN <<i>> ELSE <<>>]
    IN  Done(FoldLeft(Step, [stack |-> <<>>, all |-> <<>>], f.body)).all

\* Constant indices, and nothing but the last instruction is used elsewhere.
Movable(f, stack) ==
    /\ \A i \in Range(stack) : i.op = "gep" => i.args[2][1] = "const"
    /\ \A i \in Range(Front(stack)), j \in Instrs(f) :
           Result(i) \in Range(j.args) \/ Result(i) = j.callee => j \in Range(stack)

\* The stack moves into a function; a call takes the place of the last instruction.
processStack(m, id, stack) ==
    LET last == Last(stack)
        inside == {Result(i) : i \in Range(stack)}
        outside == FoldLeft(LAMBDA vs, v : IF v \in Range(vs) THEN vs ELSE Append(vs, v), <<>>,
                            SelectSeq(FlattenSeq([k \in DOMAIN stack |-> stack[k].args]),
                                      LAMBDA v : v[1] \in {"arg", "instr"} /\ v \notin inside))
        sig == [ret |-> "ptr", params |-> [k \in DOMAIN outside |-> "ptr"]]
        Arg(v) == IF v \in Range(outside) THEN <<"arg", CHOOSE k \in DOMAIN outside : outside[k] = v>> ELSE v
        ret == [last EXCEPT !.id = Fresh(last, 0), !.op = "ret", !.args = <<Result(last)>>]
        access == [id |-> NewId(m), name |-> Unique(m, <<FieldAccess>>), sig |-> sig, asm |-> 0,
                   body |-> Append([k \in DOMAIN stack |-> [stack[k] EXCEPT !.args = [a \in DOMAIN @ |-> Arg(@[a])]]], ret)]
        call == [last EXCEPT !.op = "call", !.callee = <<"fun", access.id>>, !.args = outside, !.sig = sig]
        body == SelectSeq(Fun(m, id).body, LAMBDA i : i \notin Range(Front(stack)))
    IN  IF ~ Movable(Fun(m, id), stack) THEN m
        ELSE Append([n \in DOMAIN m |->
                IF m[n].id # id THEN m[n]
                ELSE [m[n] EXCEPT !.body = [k \in DOMAIN body |-> IF body[k] = last THEN call ELSE body[k]]]], access)

FieldAccessFunctions(m, other, called) ==
    LET chosen == SelectSeq(m, LAMBDA f : f.name \in Names(other) /\ f.id \in called)
    IN  FoldLeft(LAMBDA n, f : FoldLeft(LAMBDA k, stack : processStack(k, f.id, stack), n, InstStacks(f)), m, chosen)

-----------------------------------------------------------------------------
(***************************************************************************)
(* The passes in their order.                                              *)
(***************************************************************************)
\* The passes on a function, one after the other.
FunctionPasses(m, f) ==
    SeparateCallsToBitcast(m, LowerExpect(RemoveDead(UnifyMemcpy(m, SimplifyKernelFunctionCalls(m, f)))))
ModulePasses == <<"MergeNumberedFunctions", "SimplifyKernelGlobals", "RemoveLifetimeCalls">>
DiffPasses == <<"RemoveUnusedReturnValues", "FieldAccessFunctions">>
OnModule(side, passes) == [k \in DOMAIN passes |-> [pass |-> passes[k], side |-> side, fun |-> 0]]

\* processAndCompare: preprocessModule of both modules, then simplifyModulesDiff.
preprocessModule(side, m) ==
    LET bodies == SelectSeq(m, LAMBDA f : f.body # <<>>)
    IN  [n \in DOMAIN bodies |-> [pass |-> "FunctionPasses", side |-> side, fun |-> bodies[n].id]]
            \o OnModule(side, ModulePasses)
simplifyModulesDiff ==
    OnModule("L", <<"FunctionAbstractions">>) \o OnModule("R", <<"FunctionAbstractions">>)
        \o OnModule("L", DiffPasses) \o OnModule("R", DiffPasses) \o OnModule("L", <<"refreshFunctions">>)

Init ==
    /\ given \in Pairs
    /\ mods = [s \in Side |-> given[s].funs]
    /\ main = [s \in Side |-> given[s].main]
    /\ todo = preprocessModule("L", mods["L"]) \o preprocessModule("R", mods["R"])
              \o OnModule("L", <<"refreshFunctions">>) \o simplifyModulesDiff

Runs(pass) == todo # <<>> /\ Head(todo).pass = pass /\ todo' = Tail(todo)
side == Head(todo).side
OnMod(m) == mods' = [mods EXCEPT ![side] = m] /\ UNCHANGED <<given, main>>

RunFunctionPasses ==
    /\ Runs("FunctionPasses")
    /\ LET m == mods[side]
       IN  OnMod([n \in DOMAIN m |-> IF m[n].id = Head(todo).fun THEN FunctionPasses(m, m[n]) ELSE m[n]])
RunMergeNumberedFunctions == Runs("MergeNumberedFunctions") /\ OnMod(MergeNumberedFunctions(mods[side]))
RunSimplifyKernelGlobals == Runs("SimplifyKernelGlobals") /\ OnMod(SimplifyKernelGlobals(mods[side]))
RunRemoveLifetimeCalls == Runs("RemoveLifetimeCalls") /\ OnMod(RemoveLifetimeCalls(mods[side]))

\* The compared functions are looked up by name again, in both modules.
refreshFunctions ==
    /\ Runs("refreshFunctions")
    /\ main' = [s \in Side |-> LET name == Fun(given[s].funs, given[s].main).name
                              IN  IF name \in Names(mods[s]) THEN (CHOOSE f \in Range(mods[s]) : f.name = name).id ELSE 0]
    /\ UNCHANGED <<given, mods>>

\* The compared function may have been erased; what is read of it then is anything.
CalledFuns ==
    IF main[side] \in FunIds(mods[side]) THEN {CalledFunctions(mods[side], main[side])}
    ELSE SUBSET FunIds(mods[side])
RunFunctionAbstractions ==
    /\ Runs("FunctionAbstractions")
    /\ \E called \in CalledFuns : OnMod(FunctionAbstractions(mods[side], called))
RunRemoveUnusedReturnValues ==
    /\ Runs("RemoveUnusedReturnValues")
    /\ \E called \in CalledFuns : OnMod(RemoveUnusedReturnValues(mods[side], mods[Other(side)], called))
RunFieldAccessFunctions ==
    /\ Runs("FieldAccessFunctions")
    /\ \E called \in CalledFuns : OnMod(FieldAccessFunctions(mods[side], mods[Other(side)], called))

Next ==
    \/ RunFunctionPasses
    \/ RunMergeNumberedFunctions \/ RunSimplifyKernelGlobals \/ RunRemoveLifetimeCalls
    \/ refreshFunctions
    \/ RunFunctionAbstractions \/ RunRemoveUnusedReturnValues \/ RunFieldAccessFunctions

Spec == Init /\ [][Next]_vars

-----------------------------------------------------------------------------
(***************************************************************************)
(* What a function does: its events in order, their operands as terms over *)
(* its arguments.  Casts are invisible; so are lifetimes, the arguments of *)
(* printing functions and the location that a warning reports.             *)
(***************************************************************************)
T(h, n, s) == [head |-> h, n |-> n, subs |-> s]
Base(f) == IF f.name[1] \in Asserts THEN "__compiletime_assert" ELSE f.name[1]
Term(m, env, v) ==
    CASE v[1] = "instr" -> IF v[2] \in DOMAIN env.val THEN env.val[v[2]] ELSE T("undefined", v[2], <<>>)
      [] v[1] = "arg" -> env.args[v[2]]
      [] v[1] \in {"fun", "cast"} -> T(Base(Fun(m, v[2])), 0, <<>>)
      [] OTHER -> T(v[1], v[2], <<>>)
Bind(env, i, term) == [env EXCEPT !.val = [n \in DOMAIN @ \cup {i.id} |-> IF n = i.id THEN term ELSE @[n]]]
Emit(env, i, event) == [Bind(env, i, T("result", Len(env.events) + 1, <<>>)) EXCEPT !.events = Append(@, event)]

Enter(args) == [val |-> [n \in {} |-> Null], args |-> args, events |-> <<>>]
Terms(m, env, i) == [k \in DOMAIN i.args |-> Term(m, env, i.args[k])]
Compute(m, env, i) ==
    Bind(env, i, IF i.op = "gep" THEN T("gep", 0, Terms(m, env, i)) ELSE Term(m, env, i.args[1]))
\* The value of a field access function.
Access(m, f, args) == LET env == FoldLeft(LAMBDA e, i : Compute(m, e, i), Enter(args), f.body) IN env.val[Last(f.body).id]

Rest(s) == SubSeq(s, 3, Len(s))
Call(m, env, i) ==
    LET terms == Terms(m, env, i)
        direct == i.callee[1] \in {"fun", "cast"}
        f == Fun(m, i.callee[2])
        asm == IF direct THEN f.asm ELSE IF IsAsm(i) THEN i.callee[2] ELSE 0
        base == Base(f)
    IN  CASE asm # 0 -> Emit(env, i, T("asm", asm, IF asm \in BugTables THEN Rest(terms) ELSE terms))
          [] i.callee[1] = "lifetime" -> env
          [] i.callee[1] = "expect" -> Bind(env, i, terms[1])
          [] i.callee[1] = "memcpy" \/ (direct /\ base = "__memcpy") ->
                 Bind(Emit(env, i, T("memcpy", 0, SubSeq(terms, 1, 3))), i, terms[1])
          [] i.callee[1] \in {"arg", "instr"} ->
                 Emit(env, i, T("indirect", 0, Append(terms, Term(m, env, i.callee))))
          [] direct /\ base = Indirect -> Emit(env, i, T("indirect", 0, terms))
          [] direct /\ base = FieldAccess -> Bind(env, i, Access(m, f, terms))
          [] direct /\ base \in PrintFunctions -> Emit(env, i, T(base, 0, <<>>))
          [] direct /\ base \in WarnFunctions -> Emit(env, i, T(base, 0, Rest(terms)))
          [] OTHER -> Emit(env, i, T(base, 0, terms))
Execute(m, env, i) ==
    CASE i.op = "call" -> Call(m, env, i)
      [] i.op \in {"gep", "cast"} -> Compute(m, env, i)
      [] OTHER -> Emit(env, i, T(i.op, 0, Terms(m, env, i)))
Events(m, f) ==
    FoldLeft(LAMBDA e, i : Execute(m, e, i), Enter([k \in DOMAIN f.sig.params |-> T("arg", k, <<>>)]), f.body).events
Returned(events) == SelectSeq(events, LAMBDA e : e.head = "ret")
WithoutReturn(events) == SelectSeq(events, LAMBDA e : e.head # "ret")

(***************************************************************************)
(* Properties.                                                             *)
(***************************************************************************)
\* Every function that the passes leave with a body does what a function of the same
\* name did in the module as it was read, and returns the same, unless it has become a
\* function that returns nothing: simplifications may not decide comparisons.  In the
\* end the compared function is one that does what the compared function did.
SameMeaning(m, f, n, g) ==
    /\ WithoutReturn(Events(m, f)) = WithoutReturn(Events(n, g))
    /\ f.sig.ret # "void" => Returned(Events(m, f)) = Returned(Events(n, g))
MeaningKept ==
    \A s \in Side :
        /\ \A f \in Range(mods[s]) :
               f.body # <<>> /\ Base(f) # FieldAccess =>
                   \E g \in Range(given[s].funs) :
                       Base(g) = Base(f) /\ g.body # <<>> /\ SameMeaning(mods[s], f, given[s].funs, g)
        /\ todo = <<>> =>
               /\ main[s] \in FunIds(mods[s])
               /\ SameMeaning(mods[s], Fun(mods[s], main[s]), given[s].funs, Fun(given[s].funs, given[s].main))

\* The modules stay well-formed: names are unique, operands are results of earlier
\* instructions and not of calls that return nothing, calls match what they call.
ValidOperand(m, f, n, v) ==
    CASE v[1] = "instr" -> \E k \in 1 .. n - 1 : f.body[k].id = v[2] /\ (f.body[k].op = "call" => f.body[k].sig.ret # "void")
      [] v[1] = "arg" -> v[2] \in DOMAIN f.sig.params
      [] v[1] \in {"fun", "cast"} -> v[2] \in FunIds(m)
      [] OTHER -> TRUE
ValidCall(m, i) ==
    i.callee[1] = "fun" =>
        LET sig == Fun(m, i.callee[2]).sig
        IN  i.sig.ret = sig.ret /\ IsPrefix(sig.params, i.sig.params) /\ Len(i.args) = Len(i.sig.params)
ValidFunction(m, f) ==
    \A n \in DOMAIN f.body :
        /\ \A v \in {f.body[n].callee} \cup Range(f.body[n].args) : ValidOperand(m, f, n, v)
        /\ f.body[n].op = "call" => ValidCall(m, f.body[n])
ModulesValid ==
    \A s \in Side :
        /\ IsInjective([n \in DOMAIN mods[s] |-> mods[s][n].name])
        /\ \A f \in Range(mods[s]) : ValidFunction(mods[s], f)
=============================================================================
