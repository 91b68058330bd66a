------------------------------- MODULE Slicer -------------------------------
(***************************************************************************)
(* The two passes of SimpLL that slice functions before they are compared: *)
(* passes/VarDependencySlicer.cpp keeps what depends on a global variable, *)
(* passes/ControlFlowSlicer.cpp what the control flow consists of.         *)
(*                                                                         *)
(* A function has blocks of instructions, the last of each the terminator: *)
(*   code[b]  sequence of [op, ops, from]; ops are values, and from has    *)
(*            the blocks that the values of a "phi" come from;             *)
(*   succ[b]  the successors, the one that is taken for 1 first;           *)
(*   order    the blocks that are there, the entry first;                  *)
(*   live     the instructions that are there, as <<block, place>>.        *)
(* Values are the variable (also inside of constant expressions), the      *)
(* parameter, constants, and instructions.  A function has one return, as  *)
(* UnifyFunctionExitNodes (part of LLVM) leaves it.                        *)
(***************************************************************************)
EXTENDS Naturals, Sequences, FiniteSets, SequencesExt, Functions, TLC

CONSTANTS
    Functions,   \* functions with the pass that runs on each
    NoEffects    \* functions without side effects

VARIABLES
    source,      \* the function and what is known of it
    f,           \* the function as it is now
    pc,          \* the phase, or "done"
    at,          \* the place in the phase
    DependentInstrs, IncludedInstrs, AffectedBasicBlocks, IncludedBasicBlocks, IncludedParams,
    returnsVoid  \* whether changeToVoid has been called

sets == <<DependentInstrs, IncludedInstrs, AffectedBasicBlocks, IncludedBasicBlocks, IncludedParams>>
vars == <<source, f, pc, at, sets, returnsVoid>>

Var == <<"var", 0, 0>>
Arg == <<"arg", 0, 0>>
Undef == <<"undef", 0, 0>>
Const(n) == <<"const", 0, n>>
Ref(i) == <<"instr", i[1], i[2]>>
IsInstr(v) == v[1] = "instr"
InstrOf(v) == <<v[2], v[3]>>

-----------------------------------------------------------------------------
(***************************************************************************)
(* Functions.                                                              *)
(***************************************************************************)
Blocks(g) == Range(g.order)
Instr(g, i) == g.code[i[1]][i[2]]
Ops(g, i) == Range(Instr(g, i).ops)
InstrOps(g, i) == {InstrOf(v) : v \in {v \in Ops(g, i) : IsInstr(v)}}
Term(g, b) == <<b, Len(g.code[b])>>
Succs(g, b) == Range(g.succ[b])
Preds(g, b) == {p \in Blocks(g) : b \in Succs(g, p)}
InBlock(g, b) == {i \in g.live : i[1] = b}
Phis(g, b) == {i \in InBlock(g, b) : Instr(g, i).op = "phi"}
RetBB == CHOOSE b \in Range(source.fun.order) : Instr(source.fun, Term(source.fun, b)).op = "ret"
Users(g, i) == {j \in g.live : Ref(i) \in Ops(g, j)}

\* A function as it is read: each block is there once with all its instructions, nothing
\* leads to the entry, branches have one or two successors, stores a value and a pointer,
\* and what is used is there.
Proper(g) ==
    /\ g = [code |-> g.code, succ |-> g.succ, order |-> g.order, live |-> g.live]
    /\ g.order \in Seq(DOMAIN g.code) /\ g.order # <<>>
    /\ Blocks(g) = DOMAIN g.code /\ IsInjective(g.order) /\ Preds(g, g.order[1]) = {}
    /\ g.live = UNION {{<<b, n>> : n \in DOMAIN g.code[b]} : b \in DOMAIN g.code}
    /\ g.succ \in [DOMAIN g.code -> Seq(DOMAIN g.code)]
    /\ \A b \in DOMAIN g.code :
        /\ Len(g.code[b]) \in Nat \ {0} /\ g.code[b] = [n \in 1 .. Len(g.code[b]) |-> g.code[b][n]]
        /\ Len(g.succ[b]) <= 2
        /\ Instr(g, Term(g, b)).op = "br" => g.succ[b] # <<>>
    /\ \A i \in g.live :
        /\ DOMAIN Instr(g, i) = {"op", "ops", "from", "callee"}
        /\ Instr(g, i).op = "store" => 2 \in DOMAIN Instr(g, i).ops
        /\ InstrOps(g, i) \subseteq g.live

ASSUME FunctionsAssumption ==
    \A given \in Functions : Proper(given.fun) /\ given.pass \in {"scan", "control flow"}

Position(g, b) == CHOOSE n \in DOMAIN g.order : g.order[n] = b

\* S with all that Step leads to, in at most n steps.
Closure(S, Step(_), n) == FoldLeft(LAMBDA T, k : T \cup Step(T), S, [k \in 1 .. n |-> k])

\* The blocks that can be reached from those of S: no more than have to be in a set that
\* has these and the successors of its blocks.
Reach(g, S) ==
    LET Closed == {T \in SUBSET DOMAIN g.succ : S \subseteq T /\ \A b \in T : Succs(g, b) \subseteq T}
    IN  {b \in DOMAIN g.succ : \A T \in Closed : b \in T}
isPotentiallyReachable(g, a, b) == b \in Reach(g, {a})

\* With the terminator of b replaced by a jump to s.
reachableBlocksThroughSucc(g, b, s) == Reach([g EXCEPT !.succ[b] = <<s>>], {b}) \ {b}

\* Instructions are erased, and v is used instead of them.
Erase(g, S, v) ==
    LET Replaced(ops) == [k \in DOMAIN ops |-> IF IsInstr(ops[k]) /\ InstrOf(ops[k]) \in S THEN v ELSE ops[k]]
        Without(instr) == [instr EXCEPT !.ops = Replaced(@)]
    IN  [g EXCEPT !.live = @ \ S, !.code = [b \in DOMAIN @ |-> [n \in DOMAIN @[b] |-> Without(@[b][n])]]]

\* The values that come from p are taken from the phis of blocks in S.
LosePredecessor(g, S, p) ==
    LET Kept(phi) == SelectSeq([k \in DOMAIN phi.ops |-> k], LAMBDA k : phi.from[k] # p)
        Less(phi) == [phi EXCEPT !.ops = [k \in DOMAIN Kept(phi) |-> phi.ops[Kept(phi)[k]]],
                                 !.from = [k \in DOMAIN Kept(phi) |-> phi.from[Kept(phi)[k]]]]
    IN  [g EXCEPT !.code = [b \in DOMAIN @ |-> [n \in DOMAIN @[b] |->
            IF b \in S /\ <<b, n>> \in Phis(g, b) THEN Less(@[b][n]) ELSE @[b][n]]]]

\* A phi that is left with one value is replaced by it.
FoldPhi(g, i) ==
    LET values == Ops(g, i) \ {Ref(i)}
    IN  IF i \in Phis(g, i[1]) /\ Cardinality(values) <= 1
        THEN Erase(g, {i}, IF values = {} THEN Undef ELSE CHOOSE v \in values : TRUE)
        ELSE g

\* BasicBlock::removePredecessor
RemovePredecessor(g, s, p) ==
    LET fold[n \in 0 .. Len(g.code[s])] ==
            IF n = 0 THEN LosePredecessor(g, {s}, p) ELSE FoldPhi(fold[n - 1], <<s, n>>)
    IN  fold[Len(g.code[s])]

\* A block goes with its instructions and the edges to its successors, two at most.
DeleteBlock(g, b) ==
    LET Free(h, k) == IF k \in DOMAIN g.succ[b] /\ g.succ[b][k] # b THEN RemovePredecessor(h, g.succ[b][k], b) ELSE h
        free == Free(Free(g, 1), 2)
    IN  [Erase(free, InBlock(free, b), Undef) EXCEPT !.order = RemoveAt(@, Position(g, b)), !.succ[b] = <<>>]

-----------------------------------------------------------------------------
(***************************************************************************)
(* First phase: the instructions that depend on the variable.              *)
(***************************************************************************)
NoPlace == <<0, 0>>
Init ==
    /\ source \in Functions
    /\ f = source.fun
    /\ pc = source.pass
    /\ at = NoPlace
    /\ DependentInstrs = {} /\ IncludedInstrs = {}
    /\ AffectedBasicBlocks = {} /\ IncludedBasicBlocks = {} /\ IncludedParams = {}
    /\ returnsVoid = FALSE

isDependent(i) == i \in DependentInstrs
isIncluded(i) == i \in IncludedInstrs

\* A value of a block that is included differs from that of another block: one that is
\* included too, or one that only one way from an included terminator leads to.
checkPhiDependency(i) ==
    LET phi == Instr(f, i)
        included == {k \in DOMAIN phi.ops : phi.from[k] \in IncludedBasicBlocks}
        values == {phi.ops[k] : k \in included}
    IN  \/ Cardinality(values) > 1
        \/ \E k \in DOMAIN phi.ops \ included, b \in IncludedBasicBlocks :
              /\ values # {} /\ phi.ops[k] \notin values
              /\ isIncluded(Term(f, b)) /\ Len(f.succ[b]) = 2
              /\ isPotentiallyReachable(f, f.succ[b][1], phi.from[k])
                    # isPotentiallyReachable(f, f.succ[b][2], phi.from[k])

Depends(i) ==
    \/ Var \in Ops(f, i)
    \/ InstrOps(f, i) \cap DependentInstrs # {}
    \/ Instr(f, i).op = "phi" /\ checkPhiDependency(i)

\* mutant: the blocks that a successor leads to directly
affectedSuccessors(b) == IF Len(f.succ[b]) < 2 THEN {} ELSE Succs(f, b)
\* What is reached one way only.
affectedBasicBlocks(b) ==
    IF Len(f.succ[b]) < 2 THEN {}
    ELSE LET reachable == {reachableBlocksThroughSucc(f, b, s) : s \in Succs(f, b)}
         IN  UNION reachable \ {x \in UNION reachable : \A r \in reachable : x \in r}

\* The place after i; a block that is affected by now is passed over.
StartFrom(n, affected) ==
    LET rest == {m \in n .. Len(f.order) : f.order[m] \notin affected}
    IN  IF rest = {} THEN NoPlace ELSE <<f.order[CHOOSE m \in rest : \A k \in rest : m <= k], 1>>
PlaceAfter(i, affected) ==
    IF i[2] < Len(f.code[i[1]]) THEN <<i[1], i[2] + 1>> ELSE StartFrom(Position(f, i[1]) + 1, affected)

MoveTo(place) ==
    /\ at' = place
    /\ pc' = IF place = NoPlace THEN "operands" ELSE "scan"

\* The pointer that a dependent value is stored to counts as dependent too.
Scan ==
    /\ pc = "scan"
    /\ LET i == IF at = NoPlace THEN <<f.order[1], 1>> ELSE at
           instr == Instr(f, i)
           affected == IF instr.op = "br" THEN affectedBasicBlocks(i[1]) ELSE {}
           pointer == IF instr.op = "store" /\ IsInstr(instr.ops[2]) THEN {InstrOf(instr.ops[2])} ELSE {}
           added == {i} \cup pointer
       IN  IF Depends(i)
           THEN /\ DependentInstrs' = DependentInstrs \cup added \cup UNION {InBlock(f, b) : b \in affected}
                /\ AffectedBasicBlocks' = AffectedBasicBlocks \cup affected
                /\ IncludedBasicBlocks' = IncludedBasicBlocks \cup affected \cup {j[1] : j \in added}
                /\ MoveTo(PlaceAfter(i, AffectedBasicBlocks \cup affected))
           ELSE /\ MoveTo(PlaceAfter(i, AffectedBasicBlocks))
                /\ UNCHANGED <<DependentInstrs, AffectedBasicBlocks, IncludedBasicBlocks>>
    /\ UNCHANGED <<source, f, IncludedInstrs, IncludedParams, returnsVoid>>

-----------------------------------------------------------------------------
(***************************************************************************)
(* Second phase: what these need.                                          *)
(***************************************************************************)
NextInstrs(g, i) ==
    IF i[2] < Len(g.code[i[1]]) THEN {<<i[1], i[2] + 1>>} ELSE {<<s, 1>> : s \in Succs(g, i[1])}

\* The instructions that can be executed between the allocation and its use.
Between(g, alloca, use) ==
    Closure(NextInstrs(g, alloca), LAMBDA T : UNION {NextInstrs(g, i) : i \in T} \ {alloca, use}, Cardinality(g.live))

\* What writes to an allocation, or to addresses computed from it, before the use.
addStoresToIncluded(g, alloca, use) ==
    LET Addresses(i) == {j \in Between(g, i, use) : Instr(g, j).op = "gep" /\ Instr(g, j).ops[1] = Ref(i)}
        Writes(i) == {j \in Between(g, i, use) :
                        \/ Instr(g, j).op = "store" /\ Instr(g, j).ops[2] = Ref(i)
                        \/ Instr(g, j).op = "call" /\ Ref(i) \in Ops(g, j)}
    IN  UNION {Writes(i) : i \in Closure({alloca}, LAMBDA T : UNION {Addresses(i) : i \in T}, Len(g.order))}

Needs(g, i) ==
    InstrOps(g, i) \cup UNION {addStoresToIncluded(g, a, i) : a \in {a \in InstrOps(g, i) : Instr(g, a).op = "alloca"}}

\* What the instructions of S need, and what that needs, without the dependent ones.
addAllOpsToIncluded(g, S) ==
    Closure({}, LAMBDA T : UNION {Needs(g, i) : i \in S \cup T} \ DependentInstrs, Cardinality(g.live))

\* S becomes included with what it needs.
Include(g, S, users) ==
    LET added == (S \ DependentInstrs) \cup addAllOpsToIncluded(g, users)
    IN  /\ IncludedInstrs' = IncludedInstrs \cup added
        /\ IncludedBasicBlocks' = IncludedBasicBlocks \cup {i[1] : i \in added \ IncludedInstrs}
        /\ IncludedParams' = IncludedParams \cup (UNION {Ops(g, i) : i \in users \cup added} \cap {Arg})

AddOperands ==
    /\ pc = "operands"
    /\ Include(f, {}, {i \in DependentInstrs : Instr(f, i).op # "phi"})
    /\ pc' = "branches" /\ at' = <<1, 0>>
    /\ UNCHANGED <<source, f, DependentInstrs, AffectedBasicBlocks, returnsVoid>>

firstOfSuccessors(b) == {f.succ[b][1]}                      \* mutant: any successor will do
\* The successors of b that have to be kept.
includedSuccessors(b) ==
    LET true == f.succ[b][1]
        false == f.succ[b][2]
        Reached(s) == (reachableBlocksThroughSucc(f, b, s) \cap IncludedBasicBlocks) \ {RetBB}
        some == {IF true = RetBB THEN false ELSE true}
    IN  IF Len(f.succ[b]) = 1 THEN Succs(f, b)
        ELSE IF Reached(true) # Reached(false)
        THEN IF Reached(false) \subseteq Reached(true) THEN {true}
             ELSE IF Reached(true) \subseteq Reached(false) THEN {false}
             ELSE {true, false}
        ELSE IF Reached(true) = {} THEN some
        ELSE IF ~isPotentiallyReachable(f, true, b) THEN {true}
        ELSE IF ~isPotentiallyReachable(f, false, b) THEN {false}
        ELSE some

\* The block at the place, and the step to the next one or to the next phase.
Here == f.order[at[1]]
NextBlock(g, here, next) ==
    IF at[1] < Len(f.order)
    THEN pc' = pc /\ at' = <<(IF here \in Blocks(g) THEN at[1] + 1 ELSE at[1]), 0>>
    ELSE pc' = next /\ at' = <<(IF next = "erase" THEN 2 ELSE 1), 0>>

\* A branch that does not depend on the variable keeps one successor, if this will do.
VisitBranch ==
    /\ pc = "branches"
    /\ LET b == Here
           term == Term(f, b)
           keep == includedSuccessors(b)
           new == CHOOSE s \in keep : TRUE
           free == LosePredecessor(f, Succs(f, b) \ {new}, b)
       IN  IF Instr(f, term).op # "br" \/ isDependent(term)
           THEN UNCHANGED <<f, IncludedInstrs, IncludedBasicBlocks, IncludedParams>>
           ELSE IF Cardinality(keep) = 1
           THEN /\ f' = [free EXCEPT !.succ[b] = <<new>>, !.code[b][term[2]].ops = <<>>]
                /\ IncludedInstrs' = IncludedInstrs \cup {term}
                /\ UNCHANGED <<IncludedBasicBlocks, IncludedParams>>
           ELSE Include(f, {term}, {term}) /\ UNCHANGED f
    /\ NextBlock(f, Here, "phis")
    /\ UNCHANGED <<source, DependentInstrs, AffectedBasicBlocks, returnsVoid>>

\* Dependent instructions are included, and what comes to phis.
AddPhiInputs ==
    /\ pc = "phis"
    /\ LET phis == {i \in IncludedInstrs \cup DependentInstrs : Instr(f, i).op = "phi"}
           inputs == UNION {InstrOps(f, i) : i \in phis}
           added == (inputs \cup addAllOpsToIncluded(f, inputs)) \ DependentInstrs
       IN  /\ IncludedInstrs' = IncludedInstrs \cup DependentInstrs \cup added
           /\ IncludedBasicBlocks' = IncludedBasicBlocks \cup {i[1] : i \in added \ IncludedInstrs}
           /\ IncludedParams' = IncludedParams \cup (UNION {Ops(f, i) : i \in inputs \cup added} \cap {Arg})
    /\ pc' = "debug"
    /\ UNCHANGED <<source, f, at, DependentInstrs, AffectedBasicBlocks, returnsVoid>>

\* Third phase: debug information on what is included.
AddDebugInfo ==
    /\ pc = "debug"
    /\ LET Described(i) == Instr(f, i).op = "dbg" /\ \E v \in Ops(f, i) :
                            IF IsInstr(v) THEN isIncluded(InstrOf(v)) ELSE v \in IncludedParams
           debug == {i \in f.live \ DependentInstrs : Described(i)}
       IN  /\ IncludedInstrs' = IncludedInstrs \cup debug
           /\ IncludedBasicBlocks' = IncludedBasicBlocks \cup {i[1] : i \in debug \ IncludedInstrs}
    /\ pc' = "clear"
    /\ UNCHANGED <<source, f, at, DependentInstrs, AffectedBasicBlocks, IncludedParams, returnsVoid>>

-----------------------------------------------------------------------------
(***************************************************************************)
(* Fourth phase: the rest is removed.                                      *)
(***************************************************************************)
Clear ==
    /\ pc = "clear"
    /\ LET unneeded == {i \in f.live : ~isIncluded(i) /\ i # Term(f, i[1])}
       IN  f' = Erase(f, unneeded, Undef)
    /\ pc' = IF Len(f.order) > 1 THEN "dead" ELSE "entry"
    /\ at' = <<2, 0>>
    /\ UNCHANGED <<source, sets, returnsVoid>>

Unneeded(b) == b \notin IncludedBasicBlocks
isDead(b) == Unneeded(b) /\ Preds(f, b) = {}

DeleteDeadBlocks ==
    /\ pc = "dead"
    /\ f' = IF isDead(Here) THEN DeleteBlock(f, Here) ELSE f
    /\ IF Len(f'.order) = 1 THEN pc' = "entry" /\ at' = <<1, 0>> ELSE NextBlock(f', Here, "erase")
    /\ UNCHANGED <<source, sets, returnsVoid>>

canRemoveAny(b) == Len(f.succ[b]) = 1                       \* mutant: phis not looked at
\* No phi of the successor gets different values from one block.
canRemoveBlock(b) ==
    /\ Len(f.succ[b]) = 1
    /\ \A i \in Phis(f, f.succ[b][1]) :
        LET phi == Instr(f, i)
            Values(p) == {phi.ops[k] : k \in {k \in DOMAIN phi.ops : phi.from[k] = p}}
        IN  \A p \in Preds(f, b) : (\E k \in DOMAIN phi.ops : phi.from[k] # b) =>
                                        Values(p) = {} \/ Values(p) = Values(b)

Redirected(succs, b, s) == [k \in DOMAIN succs |-> IF succs[k] = b THEN s ELSE succs[k]]

\* TryToSimplifyUncondBranchFromEmptyBlock: blocks before b are followed by its successor.
Bypass(g, b) ==
    LET s == g.succ[b][1]
        preds == SetToSeq(Preds(g, b))
        Moved(phi) ==
            LET value == phi.ops[CHOOSE k \in DOMAIN phi.ops : phi.from[k] = b]
                rest == SelectSeq([k \in DOMAIN phi.ops |-> k], LAMBDA k : phi.from[k] # b)
            IN  [phi EXCEPT !.ops = [k \in DOMAIN rest |-> phi.ops[rest[k]]] \o [k \in DOMAIN preds |-> value],
                            !.from = [k \in DOMAIN rest |-> phi.from[rest[k]]] \o preds]
    IN  [g EXCEPT !.code[s] = [n \in DOMAIN @ |-> IF <<s, n>> \in Phis(g, s) THEN Moved(@[n]) ELSE @[n]],
                  !.succ = [p \in DOMAIN @ |-> IF p = b THEN <<>> ELSE Redirected(@[p], b, s)],
                  !.order = RemoveAt(@, Position(g, b)),
                  !.live = @ \ InBlock(g, b)]

EraseBlocks ==
    /\ pc = "erase"
    /\ f' = IF Unneeded(Here) /\ canRemoveBlock(Here) /\ f.succ[Here] # <<Here>> THEN Bypass(f, Here) ELSE f
    /\ IF Len(f'.order) = 1 THEN pc' = "entry" /\ at' = <<1, 0>> ELSE NextBlock(f', Here, "entry")
    /\ UNCHANGED <<source, sets, returnsVoid>>

\* The entry can go when none of its successors is included.
canRemoveFirstBlock(b) == \A s \in Succs(f, b) : Unneeded(s) \/ Preds(f, s) = {}

EraseEntry ==
    /\ pc = "entry"
    /\ LET entry == f.order[1]
       IN  f' = IF Unneeded(entry) /\ canRemoveFirstBlock(entry) THEN DeleteBlock(f, entry) ELSE f
    /\ pc' = "unreachable"
    /\ UNCHANGED <<source, at, sets, returnsVoid>>

\* One after the other, in their order.  Of a function without blocks there is no entry:
\* what happens then is undefined.
DeleteUnreachableBlocks ==
    /\ pc = "unreachable"
    /\ LET dead == IF f.order = <<>> THEN {}
                   ELSE {n \in DOMAIN f.order : f.order[n] \notin Reach(f, {f.order[1]})}
       IN  IF dead = {} THEN pc' = "return" /\ f' = f
           ELSE /\ f' = DeleteBlock(f, f.order[CHOOSE n \in dead : \A m \in dead : n <= m])
                /\ pc' = pc
    /\ UNCHANGED <<source, at, sets, returnsVoid>>

\* A return that is not included returns nothing, unless the function is called.  When
\* the block of the return has been deleted, what is read of it is undefined.
ChangeToVoid ==
    /\ pc = "return"
    /\ IF RetBB \in Blocks(f)
       THEN returnsVoid' = (~isIncluded(Term(f, RetBB)) /\ ~source.void /\ ~source.called)
       ELSE \E void \in BOOLEAN : returnsVoid' = (void /\ ~source.void /\ ~source.called)
    /\ pc' = "done"
    /\ UNCHANGED <<source, f, at, sets>>

-----------------------------------------------------------------------------
(***************************************************************************)
(* The other pass.                                                         *)
(***************************************************************************)
\* A function that is called by its address, which is used otherwise than in the call.
hasIndirectCall(g) ==
    \E i \in g.live : LET called == Last(Instr(g, i).ops)
                      IN  /\ Instr(g, i).op = "call" /\ Instr(g, i).callee = "indirect"
                          /\ \E j \in g.live \ {i} : called \in Ops(g, j) /\ Instr(g, j).op # "dbg"

isResultOnlyStored(g, i) ==
    Users(g, i) # {} /\ \A j \in Users(g, i) : Instr(g, j).op = "store"

\* mutant: also calls with effects are left out
KeepUsed(g, i) ==
    LET op == Instr(g, i).op
    IN  \/ i = Term(g, i[1])
        \/ op \in {"call", "dbg"} /\ ~isResultOnlyStored(g, i)
        \/ op \notin {"call", "dbg"} /\ <<"fun", 0, 0>> \in Ops(g, i) /\ hasIndirectCall(g)
\* Terminators, calls, and what has a function as an operand.
KeepInstr(g, i) ==
    LET op == Instr(g, i).op
    IN  \/ i = Term(g, i[1])
        \/ op \in {"call", "dbg"} /\ ~(Instr(g, i).callee \in NoEffects /\ isResultOnlyStored(g, i))
        \/ op \notin {"call", "dbg"} /\ <<"fun", 0, 0>> \in Ops(g, i) /\ hasIndirectCall(g)

\* The cast of what has been allocated, and whatever uses it.
AllocCasts(g) ==
    {i \in g.live : /\ i[2] > 1 /\ Instr(g, i).op = "gep"
                    /\ Instr(g, <<i[1], i[2] - 1>>).op = "call"
                    /\ Instr(g, <<i[1], i[2] - 1>>).callee = "kmalloc"}

WithOperands(g, S) ==
    Closure(S, LAMBDA T : UNION {InstrOps(g, i) : i \in T}, Cardinality(g.live))

SliceControlFlow ==
    /\ pc = "control flow"
    /\ LET keep == {i \in f.live : KeepInstr(f, i)} \cup UNION {Users(f, i) : i \in AllocCasts(f)}
           dependent == WithOperands(f, keep) \cup AllocCasts(f)
       IN  f' = Erase(f, f.live \ dependent, Undef)
    /\ pc' = "done"
    /\ UNCHANGED <<source, at, sets, returnsVoid>>

Done == pc = "done" /\ UNCHANGED vars

Next ==
    \/ Scan \/ AddOperands \/ VisitBranch \/ AddPhiInputs \/ AddDebugInfo
    \/ Clear \/ DeleteDeadBlocks \/ EraseBlocks \/ EraseEntry \/ DeleteUnreachableBlocks
    \/ ChangeToVoid \/ SliceControlFlow \/ Done

Spec == Init /\ [][Next]_vars

-----------------------------------------------------------------------------
(***************************************************************************)
(* What functions without loops do: for a value of the variable and one of *)
(* the parameter, the operands that the instructions are executed on.      *)
(***************************************************************************)
Acyclic(g) == \A b \in Blocks(g) : \A s \in Succs(g, b) : Position(g, b) < Position(g, s)
HasMemory(g) == \E i \in g.live : Instr(g, i).op \in {"load", "store", "alloca"}

Execute(g, var, arg) ==
    LET Value(m, v) == CASE v = Var -> var
                         [] v = Arg -> arg
                         [] v[1] = "const" -> v[3]
                         [] IsInstr(v) /\ InstrOf(v) \in DOMAIN m.result -> m.result[InstrOf(v)]
                         [] OTHER -> 0
        Inputs(m, i) == IF Instr(g, i).op = "phi"
                        THEN <<Value(m, Instr(g, i).ops[CHOOSE k \in DOMAIN Instr(g, i).from : Instr(g, i).from[k] = m.from])>>
                        ELSE [k \in DOMAIN Instr(g, i).ops |-> Value(m, Instr(g, i).ops[k])]
        \* Any operation negates the parity of its operands; calls return 1.
        Result(m, i) == CASE Instr(g, i).op = "phi" -> Inputs(m, i)[1]
                          [] Instr(g, i).op = "call" -> 1
                          [] OTHER -> (1 + FoldLeft(+, 0, Inputs(m, i))) % 2
        Step(m, n) ==
            LET i == <<m.at, n>>
            IN  IF i \notin g.live THEN m
                ELSE [m EXCEPT !.inputs = @ @@ (i :> Inputs(m, i)),
                               !.result = @ @@ (i :> Result(m, i))]
        Block(m, b) ==
            IF m.at # b THEN m
            ELSE LET after == FoldLeft(Step, m, [n \in DOMAIN g.code[b] |-> n])
                     \* of two successors the first one is taken for 1
                     way == IF Len(g.succ[b]) = 2 THEN 2 - after.inputs[Term(g, b)][1] ELSE 1
                 IN  IF g.succ[b] = <<>> THEN after
                     ELSE [after EXCEPT !.at = g.succ[b][way], !.from = b]
        start == [at |-> g.order[1], from |-> 0, inputs |-> <<>>, result |-> <<>>]
    IN  FoldLeft(Block, start, g.order).inputs

\* i is executed on different operands, or not in both executions.
Differs(x, y, i) ==
    IF i \in DOMAIN x /\ i \in DOMAIN y THEN x[i] # y[i] ELSE i \in DOMAIN x \cup DOMAIN y

-----------------------------------------------------------------------------
(***************************************************************************)
(* Properties.                                                             *)
(***************************************************************************)
Sliced == pc = "done" /\ source.pass = "scan"

\* "Only the instructions whose value or execution is dependent on the value of the
\* variable are kept": when the variable makes a difference to an instruction, it is
\* found.
DifferenceFound ==
    pc = "operands" =>
        \A arg \in 0 .. 1 : \A i \in source.fun.live :
            Differs(Execute(source.fun, 0, arg), Execute(source.fun, 1, arg), i) => isDependent(i)

\* So it is where no branch is affected by another one, and the memory is not used.
DirectDifferenceFound ==
    /\ pc = "operands" /\ Acyclic(source.fun) /\ ~HasMemory(source.fun)
    /\ \A b \in AffectedBasicBlocks : Len(source.fun.succ[b]) < 2
    => DifferenceFound

\* The ways from blocks of S in the function, with nothing in between but blocks that are gone.
GoneWays(S) ==
    Reach([source.fun EXCEPT !.succ = [x \in DOMAIN @ |-> IF x \in Blocks(f) THEN <<>> ELSE @[x]]], S)
Entry == source.fun.order[1]
BeginsRight == f.order # <<>> => f.order[1] \in GoneWays({Entry})

\* "Additional instructions that are needed to produce a valid LLVM module are kept": without
\* loops, the slice begins where the function does, and the return block, which is read at
\* the end, is there.  When they are: no instruction but a return that is left out has lost
\* an operand, no branch has lost a target, the entry is no target, and phis have a value
\* for each way to them, and not two from one block.
ReturnKept == RetBB \in Blocks(f)
ValidSlice ==
    /\ Sliced /\ Acyclic(source.fun) => BeginsRight /\ ReturnKept
    /\ Sliced /\ BeginsRight /\ ReturnKept =>
        /\ Preds(f, f.order[1]) = {}
        /\ \A i \in f.live :
            /\ i[1] \in Blocks(f)
            /\ i = Term(f, RetBB) \/ Undef \notin Ops(f, i)
            /\ InstrOps(f, i) \subseteq f.live
            /\ Instr(f, i).op = "phi" =>
                \A p \in Blocks(f) :
                    LET entries == {k \in DOMAIN Instr(f, i).from : Instr(f, i).from[k] = p}
                    IN  /\ Cardinality(entries) = Cardinality({k \in DOMAIN f.succ[p] : f.succ[p][k] = i[1]})
                        /\ Cardinality({Instr(f, i).ops[k] : k \in entries}) <= 1
        /\ \A b \in Blocks(f) \ {RetBB} : Succs(f, b) # {}

\* What depends on the variable is still there, but for phis that have one value left, and
\* for the return block if it is gone.  (When the entry goes too, all may go with it.)
DependentsStay ==
    Sliced /\ Entry \in Blocks(f) =>
        \A i \in DependentInstrs :
            \/ i \in f.live
            \/ Instr(source.fun, i).op = "phi" /\ i[1] \in Blocks(f)
            \/ i[1] = RetBB /\ RetBB \notin Blocks(f)
            \/ i[1] \notin Reach(source.fun, {Entry})

\* The slice goes through its blocks as the function does: it goes from one only to another
\* that is there, and only if there is a way between them in the function, with nothing but
\* blocks that are gone.
SlicePaths ==
    Sliced => \A b \in Blocks(f) : Succs(f, b) \subseteq Blocks(f) \cap GoneWays(Succs(source.fun, b))

\* "Keep only those instructions that affect the control-flow": branches, calls and the
\* return are executed on the same operands without the other instructions.
SameControlFlow ==
    pc = "done" /\ source.pass = "control flow" /\ Acyclic(source.fun)
    /\ (\A i \in source.fun.live : Instr(source.fun, i).op # "load") =>
        \A var \in 0 .. 1, arg \in 0 .. 1 : \A i \in source.fun.live :
            \/ ~Differs(Execute(source.fun, var, arg), Execute(f, var, arg), i)
            \/ Instr(source.fun, i).op \notin {"call", "br", "ret"}
            \/ Instr(source.fun, i).op = "call" /\ Instr(source.fun, i).callee \in NoEffects

=============================================================================
