--------------------------- MODULE FunctionMeaning ---------------------------
(***************************************************************************)
(* What the functions that FunctionCompare compares do: the reference for  *)
(* its verdicts.  A function is executed symbolically.  Its decisions, the *)
(* truth of the conditions it meets, make a run, which shows a sequence of *)
(* effects: the instructions that are not pure, the conditions, and the    *)
(* returned value.                                                         *)
(***************************************************************************)
EXTENDS FunctionCompare, SequencesExt, TLC

CONSTANTS
    MaxDecisions,   \* conditions in a run
    MaxBlocks       \* blocks in a run

EndOf(f, b) == f.code[b][Len(f.code[b])]

\* The blocks of f that can be entered in several ways.
Joins(f) ==
    LET Entries(b) == {<<c, n>> \in BlocksOf(f) \X (1 .. 2) :
                            n <= Len(EndOf(f, c).to) /\ EndOf(f, c).to[n] = b}
    IN  {b \in BlocksOf(f) : b = f.entry \/ Cardinality(Entries(b)) > 1}

RECURSIVE Resolved(_, _)
\* The instruction i of side s; a call with a body is what the body does.
Resolved(s, i) ==
    IF i.op = "call" /\ given.callee[s][i.args[Len(i.args)]] # <<>>
    THEN Resolved(s, InlineCall(s, i)) ELSE i

\* A run: where it is, the values known, the decisions to come, the blocks it may
\* still enter, the effects so far, and whether it stops at joins.
RECURSIVE Execute(_, _, _)
Execute(s, f, r) ==
    LET i == Resolved(s, f.code[r.block][r.pos])
        Value(v) == IF v \in Consts THEN <<"const", {v} \cup {w \in Consts : {<<v, w>>, <<w, v>>} \cap SameInSource # {}}>>
                    ELSE r.env[v]
        args == [k \in DOMAIN i.args |-> Value(i.args[k])]
        Define(value, effects) ==
            Execute(s, f, [r EXCEPT !.pos = @ + 1, !.env = (i.name :> value) @@ @, !.effects = @ \o effects])
        Enter(b, ds, effects) ==
            IF r.blocks = 0 \/ (r.stops /\ b \in Joins(f)) THEN r.effects \o effects
            ELSE Execute(s, f, [r EXCEPT !.block = b, !.pos = 1, !.prev = r.block, !.decisions = ds,
                                         !.blocks = @ - 1, !.effects = @ \o effects])
        \* A comparison and its inverse are one condition, up to its truth.
        positive == CHOOSE p \in {i.kind, InversePred[i.kind]} : TRUE
        negated == args # <<>> /\ args[1][1] = "cmp" /\ args[1][4]
        shown == <<IF args # <<>> /\ args[1][1] = "cmp" THEN SubSeq(args[1], 1, 3) ELSE args>>
    IN  CASE i.op = "ret"    -> Append(r.effects, <<"ret", args>>)
          [] i.op = "phi"    -> Define(args[CHOOSE k \in DOMAIN i.to : i.to[k] = r.prev], <<>>)
          [] i.op = "cast"   -> Define(args[1], <<>>)
          [] i.op = "alloca" -> Define(<<"memory">>, <<>>)
          [] i.op = "cmp"    -> Define(<<"cmp", positive, args, positive # i.kind>>, <<>>)
          [] i.op \in {"plain", "call"} ->
                Define(<<"result", Len(r.effects)>>, <<<<i.kind, args>>>>)
          [] i.op = "br" /\ args = <<>> -> Enter(i.to[1], r.decisions, <<>>)
          [] i.op = "br" /\ args # <<>> ->
                IF r.decisions = <<>> THEN r.effects \o shown
                ELSE Enter(i.to[IF Head(r.decisions) # negated THEN 1 ELSE 2], Tail(r.decisions), shown)

Effects(s, decisions, stops) ==
    LET f == given.fn[s]
        arguments == [v \in Range(f.args) |-> <<"arg", CHOOSE n \in DOMAIN f.args : f.args[n] = v>>]
    IN  Execute(s, f, [block |-> f.entry, pos |-> 1, prev |-> f.entry, env |-> arguments,
                       decisions |-> decisions, blocks |-> MaxBlocks, effects |-> <<>>, stops |-> stops])

\* The functions do the same, or what one has done is the beginning of what the
\* other has, in all runs, or in all runs up to joins.
SameEffects(stops) ==
    \A decisions \in [1 .. MaxDecisions -> BOOLEAN] :
        LET l == Effects("L", decisions, stops)
            r == Effects("R", decisions, stops)
        IN  IsPrefix(l, r) \/ IsPrefix(r, l)

-----------------------------------------------------------------------------
\* Functions that compare as equal do the same as long as control does not enter
\* a block that can be entered in several ways: values, operands, skipped casts
\* and allocations, inverse conditions and inlined calls are all accounted for.
EqualUpToJoins == Ended /\ verdict = "equal" => SameEffects(TRUE)

\* "The comparator always fails conservatively": functions that compare as equal
\* do the same.
EqualIsSound == Ended /\ verdict = "equal" => SameEffects(FALSE)

=============================================================================
