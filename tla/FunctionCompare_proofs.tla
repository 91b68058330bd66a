----------------------- MODULE FunctionCompare_proofs -----------------------
(***************************************************************************)
(* For any pairs of functions: the comparison keeps its types, which says  *)
(* that it never leaves a block and that what it is going to inline are    *)
(* calls; it compares each block of the left function once; and functions  *)
(* that it finds equal match block by block and instruction by             *)
(* instruction.                                                            *)
(***************************************************************************)
EXTENDS FunctionCompare, FiniteSetTheorems, TLAPS

\* A call of a function with a body has the arguments of that body.
CallFits(s, i) ==
    i.op = "call" /\ given.callee[s][i.args[Len(i.args)]] # <<>> =>
        Len(given.params[s][i.args[Len(i.args)]]) < Len(i.args)

\* Exchanging successors and inlining leave functions well-formed.
FunctionsInv ==
    /\ given \in Pair
    /\ \A s \in Side : /\ WellFormed(fn[s])
                       /\ Callable(given, s)
                       /\ \A i \in InstrsOf(fn[s]) : CallFits(s, i)

SameShape(i, j) == i.op = j.op /\ Len(i.args) = Len(j.args) /\ Len(i.to) = Len(j.to)

\* Operands are compared of instructions of the same shape, and blocks that wait are
\* blocks of their functions.
WalkInv ==
    /\ at \in {"operands", "successors"} => SameShape(Left, Right)
    /\ at = "successors" => Left.op \in {"br", "ret"}
    /\ \A n \in DOMAIN todo : \A s \in Side : todo[n][s] \in BlocksOf(fn[s])

\* The instructions that wait are PHI instructions, and the next incoming value is one
\* of the left one.
PhisInv ==
    /\ \A n \in DOMAIN phis : \A s \in Side : phis[n][s].op = "phi" /\ Shaped(phis[n][s])
    /\ at = "phis" /\ phis # <<>> =>
            (operand - 1) \div Len(Head(phis).R.to) < Len(Head(phis).L.to)

IInv == TypeOK /\ FunctionsInv /\ WalkInv /\ PhisInv /\ OncePerBlock

AnyValue == Consts \cup Names \cup BlockNames

-----------------------------------------------------------------------------
(* Serial numbers. *)

Serials(map) == DOMAIN map \subseteq Names \cup BlockNames /\ map \in [DOMAIN map -> Nat]

LEMMA NumberedTyped ==
    ASSUME NEW map, Serials(map), NEW v \in Names \cup BlockNames
    PROVE  Serials(Numbered(map, v))
<1>1. IsFiniteSet(DOMAIN map)
  BY NamesAssumption, FS_Union, FS_Subset DEF Serials
<1>2. Size(map) \in Nat
  BY <1>1, FS_CardinalityType DEF Size
<1> QED
  BY <1>2 DEF Serials, Numbered

LEMMA NumbersTyped ==
    ASSUME NEW ns, \A s \in Side : Serials(ns[s]), NEW l \in AnyValue, NEW r \in AnyValue
    PROVE  \A s \in Side : Serials(NumbersAfter(ns, l, r)[s])
<1>1. CASE {l, r} \cap Consts # {}
  BY <1>1 DEF NumbersAfter
<1>2. CASE {l, r} \cap Consts = {}
  <2>1. l \in Names \cup BlockNames /\ r \in Names \cup BlockNames
    BY <1>2 DEF AnyValue
  <2>2. \A s \in Side : NumbersAfter(ns, l, r)[s] = Numbered(ns[s], IF s = "L" THEN l ELSE r)
    BY <1>2 DEF NumbersAfter
  <2> QED
    BY <2>1, <2>2, NumberedTyped
<1> QED
  BY <1>1, <1>2

LEMMA RestrictTyped ==
    ASSUME NEW map, Serials(map), NEW v
    PROVE  Serials(Restrict(map, DOMAIN map \ {v})) /\ Serials(Dropped(map, v))
  BY DEF Serials, Restrict, Dropped

LEMMA BlockNumbersTyped ==
    ASSUME \A s \in Side : Serials(sn[s]), NEW l \in AnyValue, NEW r \in AnyValue
    PROVE  \A s \in Side : Serials(BlockNumbersAfter(l, r)[s])
<1> DEFINE new == NumbersAfter(sn, l, r)
<1>1. \A s \in Side : Serials(new[s])
  BY NumbersTyped
<1>2. \A s \in Side : \/ BlockNumbersAfter(l, r)[s] = new[s]
                      \/ BlockNumbersAfter(l, r)[s] = Dropped(new[s], IF s = "L" THEN l ELSE r)
  <2> HIDE DEF new
  <2>1. BlockNumbersAfter(l, r) = IF new.L[l] # new.R[r] /\ Size(new.L) # Size(new.R)
                                  THEN [s \in Side |-> Dropped(new[s], IF s = "L" THEN l ELSE r)]
                                  ELSE new
    BY DEF BlockNumbersAfter, new
  <2> QED
    BY <2>1
<1> HIDE DEF new
<1> QED
  BY <1>1, <1>2, RestrictTyped

-----------------------------------------------------------------------------
(* Instructions and operands. *)

LEMMA InstrsTyped ==
    ASSUME NEW f \in Function, NEW i \in InstrsOf(f)
    PROVE  i \in Instr
  BY DEF Function, InstrsOf, Range

LEMMA PlaceIsInstr ==
    ASSUME NEW f \in Function, WellFormed(f), NEW b \in BlockNames, NEW n \in DOMAIN f.code[b]
    PROVE  /\ b \in BlocksOf(f)
           /\ f.code[b][n] \in Instr /\ f.code[b][n] \in InstrsOf(f)
           /\ Shaped(f.code[b][n])
           /\ Range(f.code[b][n].to) \subseteq BlocksOf(f)
           /\ f.code[b][n].op \notin {"br", "ret"} => n + 1 \in DOMAIN f.code[b]
           /\ n \in Nat \ {0}
<1>1. f.code[b] \in Seq(Instr)
  BY DEF Function
<1>2. b \in BlocksOf(f)
  BY <1>1 DEF BlocksOf
<1>3. f.code[b][n] \in Instr /\ f.code[b][n] \in InstrsOf(f)
  BY <1>1 DEF InstrsOf, Range
<1> QED
  BY <1>1, <1>2, <1>3 DEF WellFormed

LEMMA HereIsInstr ==
    ASSUME TypeOK, FunctionsInv, NEW s \in Side
    PROVE  /\ This(s) \in Instr /\ This(s) \in InstrsOf(fn[s]) /\ Shaped(This(s))
           /\ Range(This(s).to) \subseteq BlocksOf(fn[s])
           /\ cur[s].block \in BlocksOf(fn[s])
           /\ This(s).op \notin {"br", "ret"} =>
                /\ Behind(s) \in [block : BlockNames, pos : Nat \ {0}]
                /\ Behind(s).block = cur[s].block
                /\ Behind(s).pos \in DOMAIN fn[s].code[Behind(s).block]
<1>1. /\ fn[s] \in Function /\ WellFormed(fn[s])
      /\ cur[s] \in [block : BlockNames, pos : Nat \ {0}]
      /\ cur[s].block \in BlockNames /\ cur[s].pos \in DOMAIN fn[s].code[cur[s].block]
  BY DEF TypeOK, FunctionsInv
<1>2. Behind(s).block = cur[s].block /\ Behind(s).pos = cur[s].pos + 1
      /\ Behind(s) \in [block : BlockNames, pos : Nat \ {0}]
  BY <1>1 DEF Behind
<1> QED
  BY <1>1, <1>2, PlaceIsInstr DEF This

LEMMA UncastTyped ==
    ASSUME TypeOK, FunctionsInv, NEW s \in Side, NEW v \in AnyValue
    PROVE  Uncast(s, v) \in AnyValue
<1>1. CASE \E i \in InstrsOf(fn[s]) : i.name = v /\ i.op = "cast"
  <2> DEFINE c == CHOOSE i \in InstrsOf(fn[s]) : i.name = v /\ i.op = "cast"
  <2>1. c \in InstrsOf(fn[s]) /\ c.op = "cast"
    BY <1>1
  <2>2. fn[s] \in Function /\ WellFormed(fn[s])
    BY DEF TypeOK, FunctionsInv
  <2>3. PICK b \in BlockNames : c \in Range(fn[s].code[b])
    BY <2>1 DEF InstrsOf, BlocksOf
  <2>4. PICK n \in DOMAIN fn[s].code[b] : c = fn[s].code[b][n]
    BY <2>3 DEF Range
  <2>5. c \in Instr /\ Shaped(c)
    BY <2>2, <2>4, PlaceIsInstr
  <2>6. c.args[1] \in Values
    <3> HIDE DEF c
    <3> QED BY <2>1, <2>5 DEF Instr, Shaped
  <2>7. Uncast(s, v) = c.args[1]
    BY <1>1 DEF Uncast
  <2> QED
    BY <2>6, <2>7 DEF Values, AnyValue
<1>2. CASE ~\E i \in InstrsOf(fn[s]) : i.name = v /\ i.op = "cast"
  BY <1>2 DEF Uncast
<1> QED
  BY <1>1, <1>2

LEMMA NotEmpty ==
    ASSUME NEW S, NEW s \in Seq(S), s # <<>>
    PROVE  Len(s) \in Nat \ {0} /\ 1 \in DOMAIN s
  OBVIOUS

LEMMA Concatenation ==
    ASSUME NEW S, NEW a \in Seq(S), NEW b \in Seq(S)
    PROVE  a \o b \in Seq(S) /\ Len(a \o b) = Len(a) + Len(b)
  OBVIOUS

LEMMA OperandsTyped ==
    ASSUME NEW i \in Instr
    PROVE  /\ Operands(i) \in Seq(AnyValue)
           /\ Len(Operands(i)) = CASE i.op = "phi" -> Len(i.to)
                                   [] i.op = "br"  -> Len(i.args) + Len(i.to)
                                   [] OTHER        -> Len(i.args)
<1>1. i.args \in Seq(AnyValue) /\ i.to \in Seq(AnyValue)
  <2>1. i.args \in Seq(Values) /\ i.to \in Seq(BlockNames)
    BY DEF Instr
  <2> QED
    BY <2>1 DEF Values, AnyValue
<1>2. CASE i.op = "br"
  <2> DEFINE back == [n \in DOMAIN i.to |-> i.to[Len(i.to) + 1 - n]]
  <2>1. back \in Seq(AnyValue) /\ Len(back) = Len(i.to)
    BY <1>1
  <2>2. Operands(i) = i.args \o back
    BY <1>2 DEF Operands
  <2> HIDE DEF back
  <2>3. i.args \o back \in Seq(AnyValue) /\ Len(i.args \o back) = Len(i.args) + Len(back)
    BY <1>1, <2>1, Concatenation
  <2> QED
    BY <1>2, <2>1, <2>2, <2>3
<1>3. CASE i.op # "br"
  BY <1>1, <1>3 DEF Operands
<1> QED
  BY <1>2, <1>3

\* Of instructions of the same shape the operands come in pairs.
LEMMA OperandPairs ==
    ASSUME TypeOK, FunctionsInv, SameShape(Left, Right), operand <= Len(Operands(Left))
    PROVE  Operands(Left)[operand] \in AnyValue /\ Operands(Right)[operand] \in AnyValue
<1>1. Left \in Instr /\ Right \in Instr
  BY HereIsInstr DEF Left, Right, Side
<1>2. Len(Operands(Left)) = Len(Operands(Right))
  BY <1>1, OperandsTyped DEF SameShape
<1>3. Operands(Left) \in Seq(AnyValue) /\ Operands(Right) \in Seq(AnyValue)
  BY <1>1, OperandsTyped
<1> QED
  BY <1>2, <1>3 DEF TypeOK

-----------------------------------------------------------------------------
(* Changing the functions. *)

\* g is f with some instructions replaced.
Replaces(g, f) ==
    /\ g \in Function /\ g.args = f.args /\ g.entry = f.entry
    /\ \A b \in BlockNames : Len(g.code[b]) = Len(f.code[b])
    /\ \A b \in BlockNames : \A n \in DOMAIN f.code[b] :
        /\ g.code[b][n].name = f.code[b][n].name
        /\ g.code[b][n].op \in {"br", "ret"} <=> f.code[b][n].op \in {"br", "ret"}
        /\ Shaped(g.code[b][n])
        /\ Range(g.code[b][n].to) \subseteq BlocksOf(f)

LEMMA ReplacedWellFormed ==
    ASSUME NEW f \in Function, WellFormed(f), NEW g, Replaces(g, f)
    PROVE  WellFormed(g) /\ BlocksOf(g) = BlocksOf(f)
<1>1. \A b \in BlockNames : /\ f.code[b] \in Seq(Instr) /\ g.code[b] \in Seq(Instr)
                            /\ DOMAIN g.code[b] = DOMAIN f.code[b]
                            /\ Len(g.code[b]) = Len(f.code[b])
                            /\ f.code[b] = <<>> <=> g.code[b] = <<>>
  BY DEF Replaces, Function
<1>2. BlocksOf(g) = BlocksOf(f)
  BY <1>1 DEF BlocksOf
<1>3. g.entry \in BlocksOf(g)
  BY <1>2 DEF Replaces, WellFormed
<1>4. ASSUME NEW b \in BlocksOf(g), NEW n \in DOMAIN g.code[b]
      PROVE  /\ g.code[b][n].op \in {"br", "ret"} <=> n = Len(g.code[b])
             /\ Shaped(g.code[b][n])
             /\ Range(g.code[b][n].to) \subseteq BlocksOf(g)
             /\ g.code[b][n].name \notin Range(g.args)
  BY <1>1, <1>2, <1>4 DEF Replaces, WellFormed, BlocksOf
<1>5. ASSUME NEW b \in BlocksOf(g), NEW n \in DOMAIN g.code[b],
             NEW c \in BlocksOf(g), NEW k \in DOMAIN g.code[c],
             g.code[b][n].name = g.code[c][k].name
      PROVE  b = c /\ n = k
  <2>1. /\ b \in BlocksOf(f) /\ n \in DOMAIN f.code[b]
        /\ c \in BlocksOf(f) /\ k \in DOMAIN f.code[c]
        /\ f.code[b][n].name = f.code[c][k].name
    BY <1>1, <1>2, <1>5 DEF Replaces, BlocksOf
  <2> QED
    BY <2>1 DEF WellFormed
<1> QED
  BY <1>2, <1>3, <1>4, <1>5 DEF WellFormed

\* A branch on a condition has two successors.
LEMMA TwoSuccessors ==
    ASSUME NEW i \in Instr, Shaped(i), Conditional(i)
    PROVE  /\ i.op = "br" /\ i.to \in Seq(BlockNames) /\ i.args \in Seq(Values)
           /\ Len(i.args) = 1 /\ Len(i.to) = 2
           /\ i.to[1] \in Range(i.to) /\ i.to[2] \in Range(i.to)
<1>1. i.op = "br" /\ i.args # <<>> /\ Len(i.args) <= 1 /\ Len(i.to) = Len(i.args) + 1
  BY DEF Conditional, Shaped
<1>2. i.to \in Seq(BlockNames) /\ i.args \in Seq(Values)
  BY DEF Instr
<1>3. Len(i.args) = 1
  <2> DEFINE n == Len(i.args)
  <2>1. n \in Nat /\ n # 0
    BY <1>1, <1>2, NotEmpty
  <2>2. n <= 1
    BY <1>1
  <2> HIDE DEF n
  <2>3. n = 1
    BY <2>1, <2>2
  <2> QED
    BY <2>3 DEF n
<1> QED
  BY <1>1, <1>2, <1>3 DEF Range

LEMMA SwappedBranch ==
    ASSUME NEW i \in Instr, Shaped(i), Conditional(i), NEW j, j = [i EXCEPT !.to = <<@[2], @[1]>>]
    PROVE  /\ j \in Instr /\ j.name = i.name /\ Shaped(j) /\ SameShape(j, i)
           /\ j.op = "br" /\ Range(j.to) \subseteq Range(i.to)
<1>1. j.to = <<i.to[2], i.to[1]>>
  BY DEF Instr
<1>2. j.name = i.name /\ j.op = i.op /\ j.kind = i.kind /\ j.args = i.args
  BY DEF Instr
<1>3. i.to[1] \in BlockNames /\ i.to[2] \in BlockNames
  BY TwoSuccessors
<1>4. j.to \in Seq(BlockNames) /\ Len(j.to) = 2 /\ Range(j.to) = {i.to[1], i.to[2]}
  BY <1>1, <1>3 DEF Range
<1>5. j = [name |-> i.name, op |-> i.op, kind |-> i.kind, args |-> i.args, to |-> j.to]
  BY <1>1 DEF Instr
<1> QED
  BY <1>2, <1>4, <1>5, TwoSuccessors DEF Instr, Shaped, SameShape

\* A branch with its successors exchanged.
LEMMA SwappedReplaces ==
    ASSUME NEW f \in Function, WellFormed(f),
           NEW c \in [block : BlockNames, pos : Nat \ {0}], c.pos \in DOMAIN f.code[c.block],
           Conditional(f.code[c.block][c.pos])
    PROVE  /\ Replaces(Swapped(f, c), f)
           /\ SameShape(Swapped(f, c).code[c.block][c.pos], f.code[c.block][c.pos])
           /\ \A i \in InstrsOf(Swapped(f, c)) : i \in InstrsOf(f) \/ i.op = "br"
           /\ \A i \in InstrsOf(f) : i \in InstrsOf(Swapped(f, c)) \/ i.op = "br"
<1> DEFINE i == f.code[c.block][c.pos]
           g == Swapped(f, c)
           j == [i EXCEPT !.to = <<@[2], @[1]>>]
<1>1. /\ i \in Instr /\ Shaped(i) /\ Range(i.to) \subseteq BlocksOf(f)
      /\ i.op = "br" /\ i.args # <<>>
  BY PlaceIsInstr DEF Conditional
<1>2. /\ j \in Instr /\ j.name = i.name /\ Shaped(j) /\ SameShape(j, i)
      /\ j.op = "br" /\ Range(j.to) \subseteq Range(i.to)
  <2> HIDE DEF i
  <2>1. Conditional(i)
    BY <1>1 DEF Conditional
  <2> QED
    BY <1>1, <2>1, SwappedBranch
<1>3. /\ g.args = f.args /\ g.entry = f.entry
      /\ g.code = [f.code EXCEPT ![c.block] = [@ EXCEPT ![c.pos] = j]]
      /\ g \in Function
  <2> DEFINE code == [f.code EXCEPT ![c.block] = [@ EXCEPT ![c.pos] = j]]
  <2>1. g = [f EXCEPT !.code = code]
    BY DEF Swapped
  <2>2. code \in [BlockNames -> Seq(Instr)]
    <3> HIDE DEF j
    <3>1. [f.code[c.block] EXCEPT ![c.pos] = j] \in Seq(Instr)
      BY <1>2 DEF Function
    <3> QED
      BY <3>1 DEF Function
  <2> HIDE DEF code, g
  <2> QED
    BY <2>1, <2>2 DEF Function, code
<1> HIDE DEF g, i, j
<1>4. \A b \in BlockNames : /\ Len(g.code[b]) = Len(f.code[b])
                            /\ DOMAIN g.code[b] = DOMAIN f.code[b]
                            /\ \A n \in DOMAIN f.code[b] :
                                  g.code[b][n] = IF b = c.block /\ n = c.pos THEN j ELSE f.code[b][n]
  BY <1>3 DEF Function
<1>5. Replaces(g, f)
  <2>1. ASSUME NEW b \in BlockNames, NEW n \in DOMAIN f.code[b]
        PROVE  /\ g.code[b][n].name = f.code[b][n].name
               /\ g.code[b][n].op \in {"br", "ret"} <=> f.code[b][n].op \in {"br", "ret"}
               /\ Shaped(g.code[b][n])
               /\ Range(g.code[b][n].to) \subseteq BlocksOf(f)
    <3>1. CASE b = c.block /\ n = c.pos
      BY <3>1, <1>1, <1>2, <1>4 DEF i
    <3>2. CASE ~(b = c.block /\ n = c.pos)
      BY <3>2, <1>4, PlaceIsInstr
    <3> QED
      BY <3>1, <3>2
  <2> QED
    BY <1>3, <1>4, <2>1 DEF Replaces, Function
<1>6. SameShape(g.code[c.block][c.pos], f.code[c.block][c.pos])
  BY <1>2, <1>4 DEF i
<1>7. \A k \in InstrsOf(g) : k \in InstrsOf(f) \/ k.op = "br"
  <2> SUFFICES ASSUME NEW b \in BlockNames, NEW n \in DOMAIN g.code[b]
               PROVE  g.code[b][n] \in InstrsOf(f) \/ g.code[b][n].op = "br"
    BY DEF InstrsOf, Range
  <2> QED
    BY <1>2, <1>4 DEF InstrsOf, Range
<1>8. \A k \in InstrsOf(f) : k \in InstrsOf(g) \/ k.op = "br"
  <2> SUFFICES ASSUME NEW b \in BlockNames, NEW n \in DOMAIN f.code[b]
               PROVE  f.code[b][n] \in InstrsOf(g) \/ f.code[b][n].op = "br"
    BY DEF InstrsOf, Range
  <2>1. CASE b = c.block /\ n = c.pos
    BY <1>1, <2>1 DEF i
  <2>2. CASE ~(b = c.block /\ n = c.pos)
    BY <1>4, <2>2 DEF InstrsOf, Range
  <2> QED
    BY <2>1, <2>2
<1> QED
  BY <1>5, <1>6, <1>7, <1>8 DEF g

\* An instruction that is inlined takes the name of the call, and if it is a call it
\* has its arguments: the called function is none of the parameters.
LEMMA InlinedTyped ==
    ASSUME given \in Pair, NEW s \in Side, Callable(given, s),
           NEW i \in Instr, Shaped(i), i.op = "call", CallFits(s, i),
           given.callee[s][i.args[Len(i.args)]] # <<>>
    PROVE  /\ InlineCall(s, i) \in Instr
           /\ InlineCall(s, i).name = i.name
           /\ InlineCall(s, i).op \in {"plain", "call"}
           /\ InlineCall(s, i).to = <<>>
           /\ Shaped(InlineCall(s, i))
           /\ CallFits(s, InlineCall(s, i))
<1> DEFINE c == i.args[Len(i.args)]
           params == given.params[s][c]
           body == Head(given.callee[s][c])
           Bind(a) == IF a \in Range(params) THEN i.args[CHOOSE k \in DOMAIN params : params[k] = a] ELSE a
           bound == [k \in DOMAIN body.args |-> Bind(body.args[k])]
           j == [body EXCEPT !.name = i.name, !.args = bound]
<1>1. c \in Consts /\ given.callee[s][c] # <<>> /\ Len(params) < Len(i.args)
  BY DEF Shaped, CallFits
<1>2. params \in Seq(Names) /\ given.callee[s][c] \in Seq(Instr)
  <2> HIDE DEF c
  <2>1. given.params \in [Side -> [Consts -> Seq(Names)]] /\ given.callee \in [Side -> [Consts -> Seq(Instr)]]
    BY DEF Pair
  <2> QED
    BY <1>1, <2>1
<1>3. body \in Instr
  BY <1>1, <1>2
<1>4. /\ body.op \in {"plain", "call"} /\ body.to = <<>>
      /\ body.op = "call" => /\ body.args # <<>> /\ body.args[Len(body.args)] \in Consts
                             /\ CallFits(s, body)
  <2> HIDE DEF c
  <2>1. body \in {Head(given.callee[s][d]) : d \in {d \in Consts : given.callee[s][d] # <<>>}}
    BY <1>1
  <2> HIDE DEF body
  <2> QED
    BY <2>1 DEF Callable, CallFits
<1>5. InlineCall(s, i) = j
  BY DEF InlineCall
<1>6. i.args \in Seq(Values) /\ body.args \in Seq(Values) /\ i.name \in Names
  <2> HIDE DEF body
  <2> QED
    BY <1>3 DEF Instr
<1> HIDE DEF c, params, body
<1>7. \A a \in Values : Bind(a) \in Values
  <2> SUFFICES ASSUME NEW a \in Range(params)
               PROVE  i.args[CHOOSE k \in DOMAIN params : params[k] = a] \in Values
    OBVIOUS
  <2> DEFINE k == CHOOSE k \in DOMAIN params : params[k] = a
  <2>1. k \in DOMAIN params
    BY DEF Range
  <2> HIDE DEF k
  <2>2. k \in 1 .. Len(i.args)
    BY <1>1, <1>2, <1>6, <2>1
  <2>3. i.args[k] \in Values
    BY <1>6, <2>2
  <2> QED
    BY <2>3 DEF k
<1>8. \A a \in Consts : Bind(a) = a
  BY <1>2, NamesAssumption DEF Range
<1>9. bound \in Seq(Values) /\ Len(bound) = Len(body.args) /\ DOMAIN bound = DOMAIN body.args
  <2> HIDE DEF Bind
  <2> QED
    BY <1>6, <1>7
<1>10. \A k \in DOMAIN body.args : body.args[k] \in Consts => bound[k] = body.args[k]
  BY <1>8
<1> HIDE DEF Bind, bound
<1>11. /\ j.name = i.name /\ j.op = body.op /\ j.kind = body.kind /\ j.args = bound /\ j.to = body.to
       /\ j \in Instr
  BY <1>3, <1>6, <1>9 DEF Instr
<1> HIDE DEF j
<1>12. body.op = "call" =>
          /\ bound # <<>> /\ bound[Len(bound)] = body.args[Len(body.args)]
          /\ bound[Len(bound)] \in Consts
  <2> SUFFICES ASSUME body.op = "call"
               PROVE  bound # <<>> /\ bound[Len(bound)] = body.args[Len(body.args)]
    BY <1>4
  <2>1. Len(body.args) \in DOMAIN body.args
    BY <1>4, <1>6, NotEmpty
  <2> QED
    BY <1>4, <1>9, <1>10, <2>1
<1>13. Shaped(j)
  BY <1>4, <1>11, <1>12 DEF Shaped
<1>14. CallFits(s, j)
  BY <1>4, <1>9, <1>11, <1>12 DEF CallFits
<1> QED
  BY <1>4, <1>5, <1>11, <1>13, <1>14

LEMMA NamedOnce ==
    ASSUME NEW f \in Function, WellFormed(f), NEW i \in InstrsOf(f), NEW j \in InstrsOf(f), i.name = j.name
    PROVE  i = j
<1>1. PICK b \in BlockNames : i \in Range(f.code[b])
  BY DEF InstrsOf
<1>2. PICK n \in DOMAIN f.code[b] : i = f.code[b][n]
  BY <1>1 DEF Range
<1>3. PICK c \in BlockNames : j \in Range(f.code[c])
  BY DEF InstrsOf
<1>4. PICK k \in DOMAIN f.code[c] : j = f.code[c][k]
  BY <1>3 DEF Range
<1>5. b \in BlocksOf(f) /\ c \in BlocksOf(f)
  BY <1>2, <1>4, PlaceIsInstr
<1> QED
  BY <1>2, <1>4, <1>5 DEF WellFormed

-----------------------------------------------------------------------------
(* Steps that stay at the same instructions. *)

ToInline(s, calls) == calls # None => \E i \in InstrsOf(fn[s]) : i.name = calls /\ IsCall(i)

LEMMA StayInv ==
    ASSUME IInv, UNCHANGED <<given, fn, cur, todo, visited, phis, rerun>>,
           at' \in Places \ {"phis"}, operand' \in Nat \ {0}, matched' \in BOOLEAN,
           \A s \in Side : Serials(sn'[s]),
           inverse' \subseteq Names \X Names,
           tryInline' \in [Side -> Names \cup {None}],
           \A s \in Side : ToInline(s, tryInline'[s]),
           verdict' \in {"unknown", "equal", "not_equal"},
           at' \in {"operands", "successors"} => SameShape(Left, Right),
           at' = "successors" => Left.op \in {"br", "ret"},
           at' \in {"instructions", "operands", "successors", "differ"} =>
                at \in {"instructions", "operands", "successors", "differ"}
    PROVE  IInv'
<1>1. TypeOK'
  BY DEF IInv, TypeOK, Serials, ToInline
<1>2. FunctionsInv'
  BY DEF IInv, FunctionsInv, CallFits
<1>3. WalkInv'
  BY DEF IInv, WalkInv, Left, Right, This
<1>4. PhisInv'
  BY DEF IInv, PhisInv
<1>5. OncePerBlock'
  BY DEF IInv, OncePerBlock
<1> QED
  BY <1>1, <1>2, <1>3, <1>4, <1>5 DEF IInv

LEMMA SerialsOfTypeOK == TypeOK => \A s \in Side : Serials(sn[s])
  BY DEF TypeOK, Serials

LEMMA ToInlineOfTypeOK == TypeOK => \A s \in Side : ToInline(s, tryInline[s])
  BY DEF TypeOK, ToInline

\* The numbers that two instructions, or two operands, are compared by.
LEMMA ComparedTyped ==
    ASSUME IInv, NEW l \in AnyValue, NEW r \in AnyValue
    PROVE  \A s \in Side : Serials(NumbersAfter(sn, Uncast("L", l), Uncast("R", r))[s])
<1>1. Uncast("L", l) \in AnyValue /\ Uncast("R", r) \in AnyValue
  BY UncastTyped DEF IInv, Side
<1> QED
  BY <1>1, NumbersTyped, SerialsOfTypeOK DEF IInv

LEMMA InstructionsCompared ==
    ASSUME IInv, CompareInstructions
    PROVE  \A s \in Side : Serials(sn'[s])
<1>1. Left.name \in AnyValue /\ Right.name \in AnyValue
  BY HereIsInstr DEF IInv, Left, Right, Side, AnyValue, Instr
<1> QED
  BY <1>1, ComparedTyped DEF CompareInstructions

LEMMA SignaturesDifferInv == ASSUME IInv, SignaturesDiffer PROVE IInv'
  BY StayInv, SerialsOfTypeOK, ToInlineOfTypeOK
  DEF SignaturesDiffer, Result, Places, IInv, TypeOK

LEMMA InstructionsEqualInv == ASSUME IInv, InstructionsEqual PROVE IInv'
<1>1. SameShape(Left, Right)
  BY DEF InstructionsEqual, EqualInstructions, SameOperation, SameShape
<1> QED
  BY <1>1, StayInv, InstructionsCompared, ToInlineOfTypeOK
  DEF InstructionsEqual, CompareInstructions, Places, IInv, TypeOK

LEMMA ComparisonsInverseInv == ASSUME IInv, ComparisonsInverse PROVE IInv'
<1>1. /\ Left \in Instr /\ Shaped(Left) /\ Left.op = "cmp"
      /\ Right \in Instr /\ Shaped(Right) /\ Right.op = "cmp"
  BY HereIsInstr DEF IInv, Left, Right, Side, ComparisonsInverse, InverseComparisons
<1>2. SameShape(Left, Right)
  BY <1>1 DEF Shaped, SameShape
<1>3. <<Left.name, Right.name>> \in Names \X Names
  BY <1>1 DEF Instr
<1> QED
  BY <1>2, <1>3, StayInv, InstructionsCompared, ToInlineOfTypeOK
  DEF ComparisonsInverse, CompareInstructions, Places, IInv, TypeOK

\* The calls that are to be inlined are the ones being compared.
LEMMA CallsHere ==
    ASSUME IInv, NEW s \in Side, IsCall(This(s))
    PROVE  This(s).name \in Names /\ ToInline(s, This(s).name)
  BY HereIsInstr DEF IInv, ToInline, Instr

LEMMA InstructionsDifferInv == ASSUME IInv, InstructionsDiffer PROVE IInv'
<1>1. tryInline' \in [Side -> Names \cup {None}] /\ \A s \in Side : ToInline(s, tryInline'[s])
  <2>1. IsCall(Left) => Left.name \in Names /\ ToInline("L", Left.name)
    BY CallsHere DEF Left, Side
  <2>2. IsCall(Right) => Right.name \in Names /\ ToInline("R", Right.name)
    BY CallsHere DEF Right, Side
  <2>3. ToInline("L", None) /\ ToInline("R", None)
    BY DEF ToInline
  <2>4. CASE tryInline' = tryInline
    BY <2>4, ToInlineOfTypeOK DEF IInv, TypeOK
  <2>5. CASE IsCall(Left) /\ tryInline' = [NoCalls EXCEPT !.L = Left.name]
    BY <2>1, <2>3, <2>5 DEF NoCalls, Both, Side
  <2>6. CASE IsCall(Right) /\ tryInline' = [NoCalls EXCEPT !.R = Right.name]
    BY <2>2, <2>3, <2>6 DEF NoCalls, Both, Side
  <2> QED
    BY <2>4, <2>5, <2>6 DEF InstructionsDiffer
<1> QED
  BY <1>1, StayInv, InstructionsCompared
  DEF InstructionsDiffer, CompareInstructions, Places, IInv, TypeOK

LEMMA CompareBlockOperandsInv == ASSUME IInv, CompareBlockOperands PROVE IInv'
<1>1. SameShape(Left, Right)
  BY DEF IInv, WalkInv, CompareBlockOperands
<1>2. Operands(Left)[operand] \in AnyValue /\ Operands(Right)[operand] \in AnyValue
  BY <1>1, OperandPairs DEF IInv, CompareBlockOperands
<1>3. \A s \in Side : Serials(sn'[s])
  BY <1>2, BlockNumbersTyped, SerialsOfTypeOK DEF IInv, CompareBlockOperands
<1> QED
  BY <1>1, <1>3, StayInv, ToInlineOfTypeOK DEF CompareBlockOperands, Places, IInv, TypeOK

LEMMA CompareOperandsInv == ASSUME IInv, CompareOperands PROVE IInv'
<1>1. SameShape(Left, Right)
  BY DEF IInv, WalkInv, CompareOperands
<1>2. Operands(Left)[operand] \in AnyValue /\ Operands(Right)[operand] \in AnyValue
  BY <1>1, OperandPairs DEF IInv, CompareOperands
<1>3. \A s \in Side : Serials(sn'[s])
  BY <1>2, ComparedTyped DEF CompareOperands
<1>4. Len(Operands(Left)) \in Nat
  BY HereIsInstr, OperandsTyped DEF IInv, Left, Side
<1>5. operand' \in Nat \ {0}
  BY <1>4 DEF CompareOperands, IInv, TypeOK
<1> QED
  BY <1>1, <1>3, <1>5, StayInv, ToInlineOfTypeOK DEF CompareOperands, Places, IInv, TypeOK

LEMMA EndBlocksInv == ASSUME IInv, EndBlocks PROVE IInv'
<1>1. SameShape(Left, Right)
  BY DEF IInv, WalkInv, EndBlocks
<1> QED
  BY <1>1, StayInv, SerialsOfTypeOK, ToInlineOfTypeOK DEF EndBlocks, Places, IInv, TypeOK

LEMMA NoMoreSuccessorsInv == ASSUME IInv, NoMoreSuccessors PROVE IInv'
  BY StayInv, SerialsOfTypeOK, ToInlineOfTypeOK DEF NoMoreSuccessors, Places, IInv, TypeOK

LEMMA DifferInv == ASSUME IInv, Differ PROVE IInv'
<1>1. tryInline' \in [Side -> Names \cup {None}] /\ \A s \in Side : ToInline(s, tryInline'[s])
  <2>1. CASE IsCall(Left) /\ IsCall(Right)
    BY <2>1, CallsHere DEF Differ, Left, Right, Side
  <2>2. CASE ~(IsCall(Left) /\ IsCall(Right))
    BY <2>2, ToInlineOfTypeOK DEF Differ, IInv, TypeOK
  <2> QED
    BY <2>1, <2>2
<1> QED
  BY <1>1, StayInv, SerialsOfTypeOK DEF Differ, Result, Places, IInv, TypeOK

LEMMA AllEqualInv == ASSUME IInv, AllEqual PROVE IInv'
  BY StayInv, SerialsOfTypeOK, ToInlineOfTypeOK DEF AllEqual, Result, Places, IInv, TypeOK

LEMMA NothingToInlineInv == ASSUME IInv, NothingToInline PROVE IInv'
<1>1. tryInline' \in [Side -> Names \cup {None}] /\ \A s \in Side : ToInline(s, tryInline'[s])
  BY DEF NothingToInline, NoCalls, Both, ToInline
<1> QED
  BY <1>1, StayInv, SerialsOfTypeOK DEF NothingToInline, Places, IInv, TypeOK

-----------------------------------------------------------------------------
(* Steps of the walk. *)

LEMMA ArgumentsNumbered ==
    ASSUME NEW args \in Seq(Names)
    PROVE  Serials([v \in Range(args) |-> CHOOSE n \in 0 .. Len(args) - 1 : args[n + 1] = v])
<1>1. ASSUME NEW v \in Range(args)
      PROVE  (CHOOSE n \in 0 .. Len(args) - 1 : args[n + 1] = v) \in Nat
  <2>1. PICK k \in 1 .. Len(args) : args[k] = v
    BY DEF Range
  <2>2. k - 1 \in 0 .. Len(args) - 1 /\ args[(k - 1) + 1] = v
    BY <2>1
  <2>3. \E n \in 0 .. Len(args) - 1 : args[n + 1] = v
    BY <2>2
  <2>4. (CHOOSE n \in 0 .. Len(args) - 1 : args[n + 1] = v) \in 0 .. Len(args) - 1
    BY <2>3
  <2> QED
    BY <2>4
<1>2. Range(args) \subseteq Names
  BY DEF Range
<1> QED
  BY <1>1, <1>2 DEF Serials

LEMMA CompareSignatureInv == ASSUME IInv, CompareSignature PROVE IInv'
<1>1. \A s \in Side : /\ fn[s].entry \in BlockNames /\ fn[s].entry \in BlocksOf(fn[s])
                      /\ fn[s].args \in Seq(Names)
  BY DEF IInv, TypeOK, Function, FunctionsInv, WellFormed
<1>2. \A s \in Side : Serials(sn'[s])
  <2> SUFFICES ASSUME NEW s \in Side PROVE Serials(sn'[s])
    OBVIOUS
  <2>1. sn'[s] = [v \in Range(fn[s].args) |-> CHOOSE n \in 0 .. Len(fn[s].args) - 1 : fn[s].args[n + 1] = v]
    BY DEF CompareSignature
  <2> QED
    BY <1>1, <2>1, ArgumentsNumbered
<1> DEFINE entries == [s \in Side |-> fn[s].entry]
<1>3. entries \in [Side -> BlockNames] /\ todo' = <<entries>> /\ entries.L = fn.L.entry
  BY <1>1 DEF CompareSignature, Side
<1>4. todo' \in Seq([Side -> BlockNames]) /\ DOMAIN todo' = {1} /\ todo'[1] = entries
  BY <1>3
<1>5. TypeOK'
  BY <1>1, <1>2, <1>4 DEF CompareSignature, IInv, TypeOK, Places, Serials, Side
<1>6. FunctionsInv'
  BY DEF CompareSignature, IInv, FunctionsInv, CallFits
<1>7. WalkInv'
  BY <1>1, <1>4 DEF CompareSignature, WalkInv
<1>8. PhisInv'
  BY DEF CompareSignature, IInv, PhisInv
<1>9. OncePerBlock'
  BY <1>3, <1>4 DEF CompareSignature, OncePerBlock
<1> QED
  BY <1>5, <1>6, <1>7, <1>8, <1>9 DEF IInv

LEMMA LastAndRest ==
    ASSUME NEW S, NEW q \in Seq(S), q # <<>>
    PROVE  LET rest == SubSeq(q, 1, Len(q) - 1)
           IN  /\ Len(q) \in DOMAIN q /\ q[Len(q)] \in S
               /\ rest \in Seq(S)
               /\ \A n \in DOMAIN rest : n \in DOMAIN q /\ n # Len(q) /\ rest[n] = q[n]
  OBVIOUS

LEMMA CompareBlocksInv == ASSUME IInv, CompareBlocks PROVE IInv'
<1> DEFINE pair == todo[Len(todo)]
<1>1. todo \in Seq([Side -> BlockNames]) /\ todo # <<>>
  BY DEF IInv, TypeOK, CompareBlocks
<1>2. /\ Len(todo) \in DOMAIN todo /\ pair \in [Side -> BlockNames]
      /\ todo' \in Seq([Side -> BlockNames])
      /\ \A n \in DOMAIN todo' : n \in DOMAIN todo /\ n # Len(todo) /\ todo'[n] = todo[n]
  BY <1>1, LastAndRest DEF CompareBlocks
<1>3. \A s \in Side : pair[s] \in BlocksOf(fn[s]) /\ pair[s] \in BlockNames
  BY <1>2 DEF IInv, WalkInv
<1>4. \A s \in Side : 1 \in DOMAIN fn[s].code[pair[s]]
  <2> SUFFICES ASSUME NEW s \in Side PROVE 1 \in DOMAIN fn[s].code[pair[s]]
    OBVIOUS
  <2>1. fn[s].code[pair[s]] \in Seq(Instr) /\ fn[s].code[pair[s]] # <<>>
    BY <1>3 DEF IInv, TypeOK, Function, BlocksOf
  <2> QED
    BY <2>1, NotEmpty
<1>5. cur' = [s \in Side |-> [block |-> pair[s], pos |-> 1]] /\ at' = "instructions"
      /\ UNCHANGED <<given, fn, operand, visited, inverse, phis, matched, tryInline, verdict, rerun>>
  BY DEF CompareBlocks
<1>6. \A s \in Side : Serials(sn'[s])
  <2>1. pair.L \in AnyValue /\ pair.R \in AnyValue
    BY <1>2 DEF AnyValue, Side
  <2>2. sn' = BlockNumbersAfter(pair.L, pair.R)
    BY DEF CompareBlocks
  <2> QED
    BY <2>1, <2>2, BlockNumbersTyped, SerialsOfTypeOK DEF IInv
<1> HIDE DEF pair
<1>7. TypeOK'
  BY <1>2, <1>3, <1>4, <1>5, <1>6 DEF IInv, TypeOK, Places, Serials
<1>8. FunctionsInv'
  BY <1>5 DEF IInv, FunctionsInv, CallFits
<1>9. WalkInv'
  BY <1>2, <1>5 DEF IInv, WalkInv
<1>10. PhisInv'
  BY <1>5 DEF IInv, PhisInv
<1>11. OncePerBlock'
  <2>1. cur'.L.block = todo[Len(todo)].L
    BY <1>5 DEF Side, pair
  <2> QED
    BY <1>2, <1>5, <2>1 DEF IInv, OncePerBlock
<1> QED
  BY <1>7, <1>8, <1>9, <1>10, <1>11 DEF IInv

\* To the next instructions, of both functions or of one.
LEMMA MoveInv ==
    ASSUME IInv, UNCHANGED <<given, fn, todo, visited, inverse, matched, tryInline, verdict, rerun>>,
           at \in {"instructions", "operands", "differ"}, at' = "instructions",
           operand' \in Nat \ {0},
           \A s \in Side : Serials(sn'[s]),
           cur' \in [Side -> [block : BlockNames, pos : Nat \ {0}]],
           \A s \in Side : \/ cur'[s] = cur[s]
                           \/ cur'[s] = Behind(s) /\ This(s).op \notin {"br", "ret"},
           phis' \in Seq([Side -> Instr]),
           \A n \in DOMAIN phis' : \A s \in Side : phis'[n][s].op = "phi" /\ Shaped(phis'[n][s])
    PROVE  IInv'
<1>1. \A s \in Side : cur'[s].block = cur[s].block /\ cur'[s].pos \in DOMAIN fn[s].code[cur'[s].block]
  BY HereIsInstr DEF IInv, TypeOK
<1>2. TypeOK'
  BY <1>1 DEF IInv, TypeOK, Places, Serials
<1>3. FunctionsInv'
  BY DEF IInv, FunctionsInv, CallFits
<1>4. WalkInv'
  BY DEF IInv, WalkInv
<1>5. PhisInv'
  BY DEF IInv, PhisInv
<1>6. OncePerBlock'
  BY <1>1 DEF IInv, OncePerBlock, Side
<1> QED
  BY <1>2, <1>3, <1>4, <1>5, <1>6 DEF IInv

\* Both instructions have one behind them.
LEMMA BothBehind ==
    ASSUME IInv, \A s \in Side : This(s).op \notin {"br", "ret"}
    PROVE  [s \in Side |-> Behind(s)] \in [Side -> [block : BlockNames, pos : Nat \ {0}]]
  BY HereIsInstr DEF IInv

LEMMA NextInstructionsInv == ASSUME IInv, NextInstructions PROVE IInv'
<1>1. \A s \in Side : This(s).op \notin {"br", "ret"}
  BY DEF NextInstructions, IInv, WalkInv, SameShape, Left, Right, Side
<1>2. cur' = [s \in Side |-> Behind(s)]
  BY DEF NextInstructions
<1>3. cur' \in [Side -> [block : BlockNames, pos : Nat \ {0}]] /\ \A s \in Side : cur'[s] = Behind(s)
  BY <1>1, <1>2, BothBehind
<1> QED
  BY <1>1, <1>3, MoveInv, SerialsOfTypeOK DEF NextInstructions, IInv, TypeOK, PhisInv

LEMMA SkipInv == ASSUME IInv, Skip PROVE IInv'
<1>1. \A s \in Side : Serials(sn'[s])
  BY RestrictTyped, SerialsOfTypeOK DEF Skip, IInv
<1>2. cur \in [Side -> [block : BlockNames, pos : Nat \ {0}]]
  BY DEF IInv, TypeOK
<1>3. \A s \in Side : MayIgnore(This(s)) =>
          This(s).op \notin {"br", "ret"} /\ Behind(s) \in [block : BlockNames, pos : Nat \ {0}]
  BY HereIsInstr DEF MayIgnore, IInv
<1>4. /\ cur' \in [Side -> [block : BlockNames, pos : Nat \ {0}]]
      /\ \A s \in Side : \/ cur'[s] = cur[s]
                         \/ cur'[s] = Behind(s) /\ This(s).op \notin {"br", "ret"}
  <2>1. CASE MayIgnore(Left)
    <3>1. cur' = [cur EXCEPT !.L = Behind("L")]
      BY <2>1 DEF Skip, AfterSkipping
    <3> QED
      BY <1>2, <1>3, <2>1, <3>1 DEF Left, Side
  <2>2. CASE ~MayIgnore(Left)
    <3>1. cur' = [cur EXCEPT !.R = Behind("R")] /\ MayIgnore(Right)
      BY <2>2 DEF Skip, AfterSkipping
    <3> QED
      BY <1>2, <1>3, <3>1 DEF Right, Side
  <2> QED
    BY <2>1, <2>2
<1> QED
  BY <1>1, <1>4, MoveInv DEF Skip, IInv, TypeOK, PhisInv

LEMMA PhisLaterInv == ASSUME IInv, PhisLater PROVE IInv'
<1>1. \A s \in Side : This(s) \in Instr /\ Shaped(This(s)) /\ This(s).op = "phi"
  BY HereIsInstr DEF IInv, PhisLater, SamePhis, Left, Right, Side
<1> DEFINE pair == [s \in Side |-> This(s)]
<1>2. /\ phis' \in Seq([Side -> Instr])
      /\ \A n \in DOMAIN phis' : \A s \in Side : phis'[n][s].op = "phi" /\ Shaped(phis'[n][s])
  <2>1. pair \in [Side -> Instr] /\ phis \in Seq([Side -> Instr]) /\ phis' = Append(phis, pair)
    BY <1>1 DEF PhisLater, IInv, TypeOK
  <2>2. \A s \in Side : pair[s].op = "phi" /\ Shaped(pair[s])
    BY <1>1
  <2> HIDE DEF pair
  <2>3. \A n \in DOMAIN phis' : (n \in DOMAIN phis /\ phis'[n] = phis[n]) \/ phis'[n] = pair
    BY <2>1
  <2> QED
    BY <2>1, <2>2, <2>3 DEF IInv, PhisInv
<1>3. \A s \in Side : Serials(sn'[s])
  BY InstructionsCompared DEF PhisLater
<1>4. CASE EqualInstructions
  <2>1. at = "instructions" /\ at' = "operands" /\ operand' = 1
        /\ UNCHANGED <<given, fn, cur, todo, visited, inverse, matched, tryInline, verdict, rerun>>
    BY <1>4 DEF PhisLater, CompareInstructions
  <2>2. SameShape(Left, Right)
    BY <1>4 DEF EqualInstructions, SameOperation, SameShape
  <2>3. TypeOK'
    BY <1>2, <1>3, <2>1 DEF IInv, TypeOK, Places, Serials
  <2>4. FunctionsInv'
    BY <2>1 DEF IInv, FunctionsInv, CallFits
  <2>5. WalkInv'
    BY <2>1, <2>2 DEF IInv, WalkInv, Left, Right, This
  <2>6. PhisInv' /\ OncePerBlock'
    BY <1>2, <2>1 DEF IInv, PhisInv, OncePerBlock
  <2> QED
    BY <2>3, <2>4, <2>5, <2>6 DEF IInv
<1>5. CASE ~EqualInstructions
  <2>1. cur' \in [Side -> [block : BlockNames, pos : Nat \ {0}]] /\ \A s \in Side : cur'[s] = Behind(s)
    BY <1>1, <1>5, BothBehind DEF PhisLater
  <2> QED
    BY <1>1, <1>2, <1>3, <1>5, <2>1, MoveInv DEF PhisLater, CompareInstructions, IInv, TypeOK
<1> QED
  BY <1>4, <1>5

LEMMA BranchesInverseInv == ASSUME IInv, BranchesInverse PROVE IInv'
<1> DEFINE g == Swapped(fn.R, cur.R)
<1>1. /\ at = "instructions" /\ at' = "operands" /\ operand' = 1 /\ fn' = [fn EXCEPT !.R = g]
      /\ UNCHANGED <<given, cur, todo, visited, inverse, phis, matched, tryInline, verdict, rerun>>
      /\ Conditional(Left) /\ Conditional(Right)
  BY DEF BranchesInverse, CompareInstructions, InverseBranches
<1>2. /\ fn \in [Side -> Function] /\ fn.R \in Function /\ WellFormed(fn.R)
      /\ cur.R \in [block : BlockNames, pos : Nat \ {0}]
      /\ cur.R.pos \in DOMAIN fn.R.code[cur.R.block]
      /\ Right = fn.R.code[cur.R.block][cur.R.pos]
  BY DEF IInv, TypeOK, FunctionsInv, Side, Right, This
<1>3. /\ Replaces(g, fn.R)
      /\ SameShape(g.code[cur.R.block][cur.R.pos], Right)
      /\ \A i \in InstrsOf(g) : i \in InstrsOf(fn.R) \/ i.op = "br"
      /\ \A i \in InstrsOf(fn.R) : i \in InstrsOf(g) \/ i.op = "br"
  BY <1>1, <1>2, SwappedReplaces
<1> HIDE DEF g
<1>4. WellFormed(g) /\ BlocksOf(g) = BlocksOf(fn.R) /\ g \in Function
  BY <1>2, <1>3, ReplacedWellFormed DEF Replaces
<1>5. fn' \in [Side -> Function] /\ fn'.L = fn.L /\ fn'.R = g
  BY <1>1, <1>2, <1>4 DEF Side
<1>6. \A s \in Side : Serials(sn'[s])
  BY InstructionsCompared DEF BranchesInverse
<1>7. \A s \in Side : cur'[s].pos \in DOMAIN fn'[s].code[cur'[s].block]
  <2>1. g.code[cur.R.block] \in Seq(Instr) /\ fn.R.code[cur.R.block] \in Seq(Instr)
        /\ Len(g.code[cur.R.block]) = Len(fn.R.code[cur.R.block])
    BY <1>2, <1>3, <1>4 DEF Function, Replaces
  <2>2. cur.R.pos \in DOMAIN g.code[cur.R.block]
    BY <1>2, <2>1
  <2> QED
    BY <1>1, <1>5, <2>2 DEF IInv, TypeOK, Side
<1>8. \A s \in Side : tryInline[s] # None => \E i \in InstrsOf(fn'[s]) : i.name = tryInline[s] /\ IsCall(i)
  BY <1>3, <1>5 DEF IInv, TypeOK, Side, IsCall
<1>9. TypeOK'
  <2>1. /\ at' \in Places /\ operand' \in Nat \ {0} /\ matched' \in BOOLEAN
        /\ cur' \in [Side -> [block : BlockNames, pos : Nat \ {0}]]
        /\ todo' \in Seq([Side -> BlockNames]) /\ visited' \subseteq BlockNames
        /\ inverse' \subseteq Names \X Names /\ phis' \in Seq([Side -> Instr])
        /\ tryInline' \in [Side -> Names \cup {None}]
        /\ verdict' \in {"unknown", "equal", "not_equal"} /\ rerun' \in BOOLEAN
    BY <1>1 DEF IInv, TypeOK, Places
  <2>2. \A s \in Side : tryInline'[s] # None =>
              \E i \in InstrsOf(fn'[s]) : i.name = tryInline'[s] /\ IsCall(i)
    BY <1>1, <1>8
  <2> QED
    BY <2>1, <2>2, <1>5, <1>6, <1>7 DEF TypeOK, Serials
<1>10. FunctionsInv'
  <2>1. \A s \in Side : WellFormed(fn'[s]) /\ \A i \in InstrsOf(fn'[s]) : CallFits(s, i)
    BY <1>3, <1>4, <1>5 DEF IInv, FunctionsInv, Side, CallFits
  <2> QED
    BY <1>1, <2>1 DEF IInv, FunctionsInv, CallFits
<1>11. WalkInv'
  <2>1. SameShape(Left, Right)
    BY <1>1, HereIsInstr, TwoSuccessors DEF IInv, Left, Right, Side, SameShape
  <2>2. Left' = Left /\ SameShape(Right', Right)
    BY <1>1, <1>3, <1>5 DEF Left, Right, This, Side
  <2>3. SameShape(Left', Right')
    BY <2>1, <2>2 DEF SameShape
  <2> QED
    BY <1>1, <1>4, <1>5, <2>3 DEF IInv, WalkInv, Side
<1>12. PhisInv' /\ OncePerBlock'
  BY <1>1 DEF IInv, PhisInv, OncePerBlock
<1> QED
  BY <1>9, <1>10, <1>11, <1>12 DEF IInv

LEMMA Appended ==
    ASSUME NEW S, NEW q \in Seq(S), NEW x \in S
    PROVE  /\ Append(q, x) \in Seq(S)
           /\ DOMAIN Append(q, x) = DOMAIN q \cup {Len(q) + 1}
           /\ Append(q, x)[Len(q) + 1] = x /\ Len(q) + 1 \notin DOMAIN q
           /\ \A n \in DOMAIN q : Append(q, x)[n] = q[n]
  OBVIOUS

LEMMA NextSuccessorsInv == ASSUME IInv, NextSuccessors PROVE IInv'
<1> DEFINE pair == [s \in Side |-> This(s).to[operand]]
<1>1. /\ at = "successors" /\ at' = "successors" /\ operand <= Len(Left.to) /\ operand' = operand + 1
      /\ UNCHANGED <<given, fn, cur, matched, sn, inverse, phis, tryInline, verdict, rerun>>
  BY DEF NextSuccessors
<1>2. SameShape(Left, Right) /\ Left.op \in {"br", "ret"} /\ operand \in Nat \ {0}
  BY <1>1 DEF IInv, WalkInv, TypeOK
<1>3. \A s \in Side : pair[s] \in BlocksOf(fn[s]) /\ pair[s] \in BlockNames
  <2> SUFFICES ASSUME NEW s \in Side PROVE This(s).to[operand] \in BlocksOf(fn[s])
    BY DEF BlocksOf
  <2>1. This(s).to \in Seq(BlockNames) /\ Range(This(s).to) \subseteq BlocksOf(fn[s])
    BY HereIsInstr DEF IInv, Instr
  <2>2. Len(This(s).to) = Len(Left.to)
    BY <1>2 DEF SameShape, Left, Right, Side
  <2> QED
    BY <1>1, <1>2, <2>1, <2>2 DEF Range
<1>4. pair \in [Side -> BlockNames] /\ pair.L = Left.to[operand]
  BY <1>3 DEF Side, Left
<1> HIDE DEF pair
<1>5. todo \in Seq([Side -> BlockNames]) /\ visited \subseteq BlockNames
  BY DEF IInv, TypeOK
<1>6. CASE UNCHANGED <<todo, visited>>
  <2>1. TypeOK' /\ FunctionsInv'
    BY <1>1, <1>2, <1>6 DEF IInv, TypeOK, FunctionsInv, CallFits
  <2>2. WalkInv' /\ PhisInv' /\ OncePerBlock'
    BY <1>1, <1>2, <1>6 DEF IInv, WalkInv, PhisInv, OncePerBlock, Left, Right, This
  <2> QED
    BY <2>1, <2>2 DEF IInv
<1>7. CASE pair.L \notin visited /\ todo' = Append(todo, pair) /\ visited' = visited \cup {pair.L}
  <2>1. /\ todo' \in Seq([Side -> BlockNames])
        /\ DOMAIN todo' = DOMAIN todo \cup {Len(todo) + 1}
        /\ todo'[Len(todo) + 1] = pair /\ Len(todo) + 1 \notin DOMAIN todo
        /\ \A n \in DOMAIN todo : todo'[n] = todo[n]
    BY <1>4, <1>5, <1>7, Appended
  <2>2. TypeOK'
    BY <1>1, <1>2, <1>3, <1>5, <1>7, <2>1 DEF IInv, TypeOK, Side
  <2>3. FunctionsInv'
    BY <1>1 DEF IInv, FunctionsInv, CallFits
  <2>4. WalkInv'
    <3>1. \A n \in DOMAIN todo' : \A s \in Side : todo'[n][s] \in BlocksOf(fn[s])
      BY <1>3, <2>1 DEF IInv, WalkInv
    <3> QED
      BY <1>1, <1>2, <3>1 DEF WalkInv, Left, Right, This
  <2>5. PhisInv'
    BY <1>1 DEF IInv, PhisInv
  <2>6. OncePerBlock'
    <3>1. \A n \in DOMAIN todo' : todo'[n].L \in visited'
      BY <1>7, <2>1 DEF IInv, OncePerBlock
    <3>2. \A n, k \in DOMAIN todo' : todo'[n].L = todo'[k].L => n = k
      BY <1>7, <2>1 DEF IInv, OncePerBlock
    <3>3. cur.L.block \in visited' /\ \A n \in DOMAIN todo' : todo'[n].L # cur.L.block
      BY <1>1, <1>7, <2>1 DEF IInv, OncePerBlock
    <3> QED
      BY <1>1, <3>1, <3>2, <3>3 DEF OncePerBlock
  <2> QED
    BY <2>2, <2>3, <2>4, <2>5, <2>6 DEF IInv
<1> QED
  BY <1>4, <1>6, <1>7 DEF NextSuccessors, Met, pair

-----------------------------------------------------------------------------
(* The PHI instructions. *)

LEMMA WithRemainder ==
    ASSUME NEW o \in Nat, NEW m \in Nat \ {0}
    PROVE  o % m \in 0 .. m - 1 /\ o \div m \in Nat /\ o = m * (o \div m) + (o % m)
  BY SMT

LEMMA Quotient ==
    ASSUME NEW o \in Nat, NEW m \in Nat \ {0}, NEW q \in Nat, NEW r \in 0 .. m - 1, o = m * q + r
    PROVE  o \div m = q
  BY Z3

\* Counting on stays in the row or gets to the start of the next one.
LEMMA NextQuotient ==
    ASSUME NEW o \in Nat, NEW m \in Nat \ {0}
    PROVE  (o + 1) \div m = IF (o % m) + 1 < m THEN o \div m ELSE (o \div m) + 1
<1>1. o % m \in 0 .. m - 1 /\ o \div m \in Nat /\ o = m * (o \div m) + (o % m)
  BY WithRemainder
<1> DEFINE q == o \div m
           r == o % m
<1> HIDE DEF q, r
<1>2. q \in Nat /\ r \in 0 .. m - 1 /\ o = m * q + r
  BY <1>1 DEF q, r
<1>3. CASE r + 1 < m
  <2>1. r + 1 \in 0 .. m - 1 /\ o + 1 = m * q + (r + 1)
    BY <1>2, <1>3
  <2>2. (o + 1) \div m = q
    BY <1>2, <2>1, Quotient
  <2> QED
    BY <1>3, <2>2 DEF q, r
<1>4. CASE ~(r + 1 < m)
  <2>1. r = m - 1
    BY <1>2, <1>4
  <2>2. 0 \in 0 .. m - 1 /\ q + 1 \in Nat
    BY <1>2
  <2>3. o + 1 = m * (q + 1) + 0
    BY <1>2, <2>1, SMT
  <2>4. (o + 1) \div m = q + 1
    BY <2>2, <2>3, Quotient
  <2> QED
    BY <1>4, <2>4 DEF q, r
<1> QED
  BY <1>3, <1>4

LEMMA WaitingPhis ==
    ASSUME NEW q \in Seq([Side -> Instr]), q # <<>>,
           \A n \in DOMAIN q : \A s \in Side : q[n][s].op = "phi" /\ Shaped(q[n][s])
    PROVE  /\ \A s \in Side : /\ Head(q)[s].args \in Seq(Values) /\ Head(q)[s].to \in Seq(BlockNames)
                              /\ Len(Head(q)[s].to) \in Nat \ {0}
                              /\ Len(Head(q)[s].args) = Len(Head(q)[s].to)
           /\ Tail(q) \in Seq([Side -> Instr])
           /\ \A n \in DOMAIN Tail(q) : \A s \in Side : Tail(q)[n][s].op = "phi" /\ Shaped(Tail(q)[n][s])
<1>1. /\ Head(q) = q[1] /\ 1 \in DOMAIN q /\ q[1] \in [Side -> Instr]
      /\ Tail(q) \in Seq([Side -> Instr])
      /\ \A n \in DOMAIN Tail(q) : n + 1 \in DOMAIN q /\ Tail(q)[n] = q[n + 1]
  OBVIOUS
<1>2. ASSUME NEW s \in Side
      PROVE  /\ q[1][s].args \in Seq(Values) /\ q[1][s].to \in Seq(BlockNames)
             /\ Len(q[1][s].to) \in Nat \ {0} /\ Len(q[1][s].args) = Len(q[1][s].to)
  <2>1. q[1][s] \in Instr /\ q[1][s].args # <<>> /\ Len(q[1][s].to) = Len(q[1][s].args)
    BY <1>1 DEF Shaped
  <2>2. q[1][s].args \in Seq(Values) /\ q[1][s].to \in Seq(BlockNames)
    BY <2>1 DEF Instr
  <2> QED
    BY <2>1, <2>2, NotEmpty
<1> QED
  BY <1>1, <1>2

LEMMA PhiStepInv ==
    ASSUME IInv, UNCHANGED <<given, fn, cur, todo, visited, inverse, tryInline, rerun>>,
           at' \in {"phis", "inline", "end"}, operand' \in Nat \ {0}, matched' \in BOOLEAN,
           \A s \in Side : Serials(sn'[s]),
           phis' \in Seq([Side -> Instr]),
           \A n \in DOMAIN phis' : \A s \in Side : phis'[n][s].op = "phi" /\ Shaped(phis'[n][s]),
           verdict' \in {"unknown", "equal", "not_equal"},
           at' = "phis" /\ phis' # <<>> =>
                (operand' - 1) \div Len(Head(phis').R.to) < Len(Head(phis').L.to)
    PROVE  IInv'
<1>1. TypeOK'
  BY DEF IInv, TypeOK, Places, Serials
<1>2. FunctionsInv'
  BY DEF IInv, FunctionsInv, CallFits
<1>3. WalkInv' /\ OncePerBlock'
  BY DEF IInv, WalkInv, OncePerBlock
<1>4. PhisInv'
  BY DEF PhisInv
<1> QED
  BY <1>1, <1>2, <1>3, <1>4 DEF IInv

\* The first incoming values are there.
LEMMA AtStart ==
    ASSUME NEW q \in Seq([Side -> Instr]), q # <<>>,
           \A n \in DOMAIN q : \A s \in Side : q[n][s].op = "phi" /\ Shaped(q[n][s])
    PROVE  (1 - 1) \div Len(Head(q).R.to) < Len(Head(q).L.to)
<1> DEFINE l == Len(Head(q).L.to)
           m == Len(Head(q).R.to)
<1>1. l \in Nat \ {0} /\ m \in Nat \ {0}
  BY WaitingPhis DEF Side
<1> HIDE DEF l, m
<1>2. 0 \div m = 0
  BY <1>1, Quotient
<1>3. (1 - 1) \div m < l
  BY <1>1, <1>2
<1> QED
  BY <1>3 DEF l, m

LEMMA PhisOfIInv ==
    ASSUME IInv
    PROVE  /\ phis \in Seq([Side -> Instr])
           /\ \A n \in DOMAIN phis : \A s \in Side : phis[n][s].op = "phi" /\ Shaped(phis[n][s])
           /\ operand \in Nat \ {0} /\ matched \in BOOLEAN
           /\ verdict \in {"unknown", "equal", "not_equal"}
           /\ \A s \in Side : Serials(sn[s])
  BY SerialsOfTypeOK DEF IInv, TypeOK, PhisInv

LEMMA BlocksEqualInv == ASSUME IInv, BlocksEqual PROVE IInv'
<1>1. phis' # <<>> => (operand' - 1) \div Len(Head(phis').R.to) < Len(Head(phis').L.to)
  BY PhisOfIInv, AtStart DEF BlocksEqual
<1>2. /\ at' = "phis" /\ operand' = 1
      /\ UNCHANGED <<given, fn, cur, matched, sn, todo, visited, inverse, phis, tryInline, verdict, rerun>>
  BY DEF BlocksEqual
<1>3. /\ operand' \in Nat \ {0} /\ matched' \in BOOLEAN /\ at' \in {"phis", "inline", "end"}
      /\ verdict' \in {"unknown", "equal", "not_equal"}
      /\ \A s \in Side : Serials(sn'[s])
      /\ phis' \in Seq([Side -> Instr])
      /\ \A n \in DOMAIN phis' : \A s \in Side : phis'[n][s].op = "phi" /\ Shaped(phis'[n][s])
  BY <1>2, PhisOfIInv
<1> QED
  BY <1>1, <1>2, <1>3, PhiStepInv

LEMMA ComparePhisInv == ASSUME IInv, ComparePhis PROVE IInv'
<1> DEFINE l == Head(phis).L
           r == Head(phis).R
           m == Len(r.to)
           i == ((operand - 1) \div m) + 1
           j == ((operand - 1) % m) + 1
           v == Uncast("L", l.args[i])
           w == Uncast("R", r.args[j])
           ns == BlockNumbersAfter(l.to[i], r.to[j])
<1>1. /\ at = "phis" /\ phis # <<>> /\ phis \in Seq([Side -> Instr])
      /\ \A n \in DOMAIN phis : \A s \in Side : phis[n][s].op = "phi" /\ Shaped(phis[n][s])
      /\ operand \in Nat \ {0}
  BY PhisOfIInv DEF ComparePhis
<1>2. /\ l.args \in Seq(Values) /\ l.to \in Seq(BlockNames)
      /\ r.args \in Seq(Values) /\ r.to \in Seq(BlockNames)
      /\ m \in Nat \ {0} /\ Len(l.args) = Len(l.to) /\ Len(r.args) = m
  BY <1>1, WaitingPhis DEF Side
<1>3. (operand - 1) \div m < Len(l.to)
  BY <1>1 DEF IInv, PhisInv
<1>4. /\ sn' = NumbersAfter(ns, v, w)
      /\ matched' = ((j > 1 /\ matched) \/ SameValue(ns, v, w))
      /\ \/ /\ j < m \/ (matched' /\ i < Len(l.to))
            /\ operand' = operand + 1
            /\ UNCHANGED <<phis, at, verdict>>
         \/ /\ j = m /\ matched' /\ i = Len(l.to)
            /\ operand' = 1
            /\ phis' = Tail(phis)
            /\ UNCHANGED <<at, verdict>>
         \/ /\ j = m /\ ~matched'
            /\ Result("not_equal")
            /\ UNCHANGED <<operand, phis>>
      /\ UNCHANGED <<given, fn, cur, todo, visited, inverse, tryInline, rerun>>
  BY DEF ComparePhis
<1> HIDE DEF l, r, m, ns, v, w
<1>5. /\ operand - 1 \in Nat /\ (operand - 1) \div m \in Nat /\ (operand - 1) % m \in 0 .. m - 1
      /\ i \in 1 .. Len(l.to) /\ j \in 1 .. m
  <2> DEFINE q == (operand - 1) \div m
             k == (operand - 1) % m
  <2>1. operand - 1 \in Nat
    BY <1>1
  <2>2. q \in Nat /\ k \in 0 .. m - 1
    BY <1>2, <2>1, WithRemainder
  <2>3. q < Len(l.to)
    BY <1>3 DEF l, m
  <2> HIDE DEF q, k
  <2>4. q + 1 \in 1 .. Len(l.to) /\ k + 1 \in 1 .. m
    BY <1>2, <2>2, <2>3
  <2> QED
    BY <2>1, <2>2, <2>4 DEF q, k
<1>6. \A s \in Side : Serials(sn'[s])
  <2> HIDE DEF i, j
  <2>1. l.args[i] \in AnyValue /\ l.to[i] \in AnyValue /\ r.args[j] \in AnyValue /\ r.to[j] \in AnyValue
    <3>1. /\ DOMAIN l.args = 1 .. Len(l.args) /\ DOMAIN l.to = 1 .. Len(l.to)
          /\ DOMAIN r.args = 1 .. Len(r.args) /\ DOMAIN r.to = 1 .. m
      BY <1>2 DEF m
    <3>2. l.args[i] \in Values /\ l.to[i] \in BlockNames /\ r.args[j] \in Values /\ r.to[j] \in BlockNames
      BY <1>2, <1>5, <3>1
    <3> QED
      BY <3>2 DEF AnyValue, Values
  <2>2. v \in AnyValue /\ w \in AnyValue
    BY <2>1, UncastTyped DEF v, w, IInv, Side
  <2>3. \A s \in Side : Serials(ns[s])
    BY <2>1, BlockNumbersTyped, SerialsOfTypeOK DEF ns, IInv
  <2> QED
    BY <1>4, <2>2, <2>3, NumbersTyped
<1>7. matched' \in BOOLEAN
  BY <1>4
<1>8. CASE /\ j < m \/ (matched' /\ i < Len(l.to))
           /\ operand' = operand + 1
           /\ UNCHANGED <<phis, at, verdict>>
  <2>1. operand' - 1 = (operand - 1) + 1
    BY <1>1, <1>8
  <2>2. (operand' - 1) \div m = IF j < m THEN (operand - 1) \div m ELSE ((operand - 1) \div m) + 1
    BY <1>2, <1>5, <2>1, NextQuotient
  <2>3. (operand' - 1) \div m < Len(l.to)
    <3> DEFINE q == (operand - 1) \div m
               p == (operand' - 1) \div m
    <3>1. p = (IF j < m THEN q ELSE q + 1) /\ q < Len(l.to) /\ (~(j < m) => q + 1 < Len(l.to))
      BY <1>3, <1>8, <2>2 DEF l, m
    <3> HIDE DEF p, q, j
    <3>2. p < Len(l.to)
      BY <3>1
    <3> QED
      BY <3>2 DEF p
  <2>4. operand' \in Nat \ {0}
    BY <1>1, <1>8
  <2> HIDE DEF i, j
  <2> QED
    BY <1>1, <1>4, <1>6, <1>7, <1>8, <2>3, <2>4, PhiStepInv, PhisOfIInv DEF l, m, r
<1>9. CASE /\ operand' = 1 /\ phis' = Tail(phis)
           /\ UNCHANGED <<at, verdict>>
  <2>1. /\ phis' \in Seq([Side -> Instr])
        /\ \A n \in DOMAIN phis' : \A s \in Side : phis'[n][s].op = "phi" /\ Shaped(phis'[n][s])
    BY <1>1, <1>9, WaitingPhis
  <2>2. phis' # <<>> => (operand' - 1) \div Len(Head(phis').R.to) < Len(Head(phis').L.to)
    BY <1>9, <2>1, AtStart
  <2>3. operand' \in Nat \ {0} /\ at' = "phis" /\ verdict' \in {"unknown", "equal", "not_equal"}
    BY <1>1, <1>9, PhisOfIInv
  <2> HIDE DEF i, j
  <2> QED
    BY <1>4, <1>6, <1>7, <2>1, <2>2, <2>3, PhiStepInv
<1>10. CASE Result("not_equal") /\ UNCHANGED <<operand, phis>>
  <2>1. at' \in {"inline", "end"} /\ verdict' = "not_equal"
    BY <1>10 DEF Result
  <2> HIDE DEF i, j
  <2> QED
    BY <1>1, <1>4, <1>6, <1>7, <1>10, <2>1, PhiStepInv
<1> QED
  BY <1>4, <1>8, <1>9, <1>10

-----------------------------------------------------------------------------
(* Inlining. *)

LEMMA InstrPlaces ==
    ASSUME NEW f, NEW i \in InstrsOf(f)
    PROVE  \E b \in BlockNames : \E n \in DOMAIN f.code[b] : i = f.code[b][n]
  BY DEF InstrsOf, Range

LEMMA Mapped ==
    ASSUME NEW S, NEW q \in Seq(S), NEW r, r = [n \in DOMAIN q |-> r[n]], \A n \in DOMAIN q : r[n] \in S
    PROVE  r \in Seq(S) /\ Len(r) = Len(q)
  OBVIOUS

\* The call that is inlined is the only instruction of its name.
LEMMA InlinedCall ==
    ASSUME IInv, NEW s \in Inlinable
    PROVE  /\ CallOf(s) \in Instr /\ Shaped(CallOf(s)) /\ CallOf(s).op = "call"
           /\ CallFits(s, CallOf(s)) /\ CallOf(s).name = tryInline[s]
           /\ given.callee[s][CallOf(s).args[Len(CallOf(s).args)]] # <<>>
           /\ \A i \in InstrsOf(fn[s]) : i.name = tryInline[s] => i = CallOf(s)
<1>1. s \in Side /\ tryInline[s] # None /\ given.callee[s][CallOf(s).args[Len(CallOf(s).args)]] # <<>>
  BY DEF Inlinable
<1>2. fn[s] \in Function /\ WellFormed(fn[s]) /\ \A i \in InstrsOf(fn[s]) : CallFits(s, i)
  BY <1>1 DEF IInv, TypeOK, FunctionsInv
<1>3. PICK i \in InstrsOf(fn[s]) : i.name = tryInline[s] /\ IsCall(i)
  BY <1>1 DEF IInv, TypeOK
<1>4. CallOf(s) \in InstrsOf(fn[s]) /\ CallOf(s).name = tryInline[s]
  BY <1>3 DEF CallOf
<1>5. CallOf(s) = i
  BY <1>2, <1>3, <1>4, NamedOnce
<1>6. \A j \in InstrsOf(fn[s]) : j.name = tryInline[s] => j = CallOf(s)
  BY <1>2, <1>4, NamedOnce
<1>7. PICK b \in BlockNames : CallOf(s) \in Range(fn[s].code[b])
  BY <1>4 DEF InstrsOf
<1>8. PICK n \in DOMAIN fn[s].code[b] : CallOf(s) = fn[s].code[b][n]
  BY <1>7 DEF Range
<1>9. CallOf(s) \in Instr /\ Shaped(CallOf(s))
  BY <1>2, <1>8, PlaceIsInstr
<1> QED
  BY <1>1, <1>2, <1>3, <1>4, <1>5, <1>6, <1>9 DEF IsCall

LEMMA InlinedReplaces ==
    ASSUME IInv, NEW s \in Inlinable, NEW g,
           g = [fn[s] EXCEPT !.code = [b \in BlockNames |->
                    [n \in DOMAIN fn[s].code[b] |->
                        IF fn[s].code[b][n].name = tryInline[s] THEN InlineCall(s, fn[s].code[b][n])
                                                               ELSE fn[s].code[b][n]]]]
    PROVE  Replaces(g, fn[s]) /\ \A i \in InstrsOf(g) : CallFits(s, i)
<1> DEFINE f == fn[s]
           c == CallOf(s)
           j == InlineCall(s, c)
           code == [b \in BlockNames |-> [n \in DOMAIN f.code[b] |->
                        IF f.code[b][n].name = tryInline[s] THEN InlineCall(s, f.code[b][n]) ELSE f.code[b][n]]]
<1>1. s \in Side /\ f \in Function /\ WellFormed(f) /\ \A i \in InstrsOf(f) : CallFits(s, i)
  BY DEF Inlinable, IInv, TypeOK, FunctionsInv
<1>2. /\ c.name = tryInline[s] /\ c.op = "call"
      /\ \A i \in InstrsOf(f) : i.name = tryInline[s] => i = c
  BY InlinedCall
<1>3. /\ j \in Instr /\ j.name = tryInline[s] /\ j.op \in {"plain", "call"} /\ j.to = <<>>
      /\ Shaped(j) /\ CallFits(s, j)
  <2>1. given \in Pair /\ Callable(given, s)
    BY <1>1 DEF IInv, FunctionsInv
  <2> QED
    BY <1>1, <2>1, InlinedCall, InlinedTyped
<1>4. g = [f EXCEPT !.code = code]
  OBVIOUS
<1>5. \A b \in BlockNames : f.code[b] \in Seq(Instr)
  BY <1>1 DEF Function
<1>6. ASSUME NEW b \in BlockNames, NEW n \in DOMAIN f.code[b]
      PROVE  /\ code[b][n] = (IF f.code[b][n].name = tryInline[s] THEN j ELSE f.code[b][n])
             /\ f.code[b][n] \in Instr /\ f.code[b][n] \in InstrsOf(f)
             /\ Shaped(f.code[b][n]) /\ Range(f.code[b][n].to) \subseteq BlocksOf(f)
             /\ f.code[b][n].name = tryInline[s] => f.code[b][n].op = "call"
  <2>1. /\ f.code[b][n] \in Instr /\ f.code[b][n] \in InstrsOf(f)
        /\ Shaped(f.code[b][n]) /\ Range(f.code[b][n].to) \subseteq BlocksOf(f)
    BY <1>1, PlaceIsInstr
  <2> QED
    BY <1>2, <2>1
<1> HIDE DEF f, c, j
<1>7. code \in [BlockNames -> Seq(Instr)] /\ \A b \in BlockNames : Len(code[b]) = Len(f.code[b])
  <2> SUFFICES ASSUME NEW b \in BlockNames
               PROVE  code[b] \in Seq(Instr) /\ Len(code[b]) = Len(f.code[b])
    OBVIOUS
  <2>1. code[b] = [n \in DOMAIN f.code[b] |-> code[b][n]]
    OBVIOUS
  <2>2. \A n \in DOMAIN f.code[b] : code[b][n] \in Instr
    BY <1>3, <1>6
  <2> HIDE DEF code
  <2> QED
    BY <1>5, <2>1, <2>2, Mapped
<1> HIDE DEF code
<1>8. g \in Function /\ g.args = f.args /\ g.entry = f.entry /\ g.code = code
  BY <1>1, <1>4, <1>7 DEF Function
<1>9. Replaces(g, f)
  <2>1. ASSUME NEW b \in BlockNames, NEW n \in DOMAIN f.code[b]
        PROVE  /\ g.code[b][n].name = f.code[b][n].name
               /\ g.code[b][n].op \in {"br", "ret"} <=> f.code[b][n].op \in {"br", "ret"}
               /\ Shaped(g.code[b][n])
               /\ Range(g.code[b][n].to) \subseteq BlocksOf(f)
    <3>1. CASE f.code[b][n].name = tryInline[s]
      <4>1. g.code[b][n] = j
        BY <1>6, <1>8, <3>1
      <4>2. Range(j.to) = {}
        BY <1>3 DEF Range
      <4> QED
        BY <1>3, <1>6, <3>1, <4>1, <4>2
    <3>2. CASE f.code[b][n].name # tryInline[s]
      BY <1>6, <1>8, <3>2
    <3> QED
      BY <3>1, <3>2
  <2> QED
    BY <1>7, <1>8, <2>1 DEF Replaces
<1>10. \A i \in InstrsOf(g) : CallFits(s, i)
  <2> SUFFICES ASSUME NEW i \in InstrsOf(g) PROVE CallFits(s, i)
    OBVIOUS
  <2>1. PICK b \in BlockNames : \E n \in DOMAIN g.code[b] : i = g.code[b][n]
    BY InstrPlaces
  <2>2. PICK n \in DOMAIN g.code[b] : i = g.code[b][n]
    BY <2>1
  <2>3. n \in DOMAIN f.code[b]
    BY <1>5, <1>7, <1>8
  <2> QED
    BY <1>1, <1>3, <1>6, <1>8, <2>2, <2>3
<1> QED
  BY <1>9, <1>10 DEF f

\* A comparison that starts.
LEMMA FreshInv ==
    ASSUME FunctionsInv', Fresh, fn' \in [Side -> Function], tryInline' = NoCalls,
           verdict' = "unknown", rerun' \in BOOLEAN
    PROVE  IInv'
<1>1. \A s \in Side : /\ fn'[s].entry \in BlockNames
                      /\ 1 \in DOMAIN fn'[s].code[fn'[s].entry]
  <2> SUFFICES ASSUME NEW s \in Side
               PROVE  fn'[s].entry \in BlockNames /\ 1 \in DOMAIN fn'[s].code[fn'[s].entry]
    OBVIOUS
  <2>1. /\ fn'[s].entry \in BlockNames
        /\ fn'[s].code[fn'[s].entry] \in Seq(Instr) /\ fn'[s].code[fn'[s].entry] # <<>>
    BY DEF FunctionsInv, WellFormed, BlocksOf, Function
  <2> QED
    BY <2>1, NotEmpty
<1>2. cur' = [s \in Side |-> [block |-> fn'[s].entry, pos |-> 1]] /\ at' = "start"
      /\ operand' = 1 /\ matched' = FALSE /\ sn' = Both(<<>>)
      /\ todo' = <<>> /\ visited' = {} /\ inverse' = {} /\ phis' = <<>>
  BY DEF Fresh
<1>3. \A s \in Side : Serials(sn'[s])
  BY <1>2 DEF Both, Serials
<1>4. cur' \in [Side -> [block : BlockNames, pos : Nat \ {0}]]
      /\ \A s \in Side : cur'[s].pos \in DOMAIN fn'[s].code[cur'[s].block]
  BY <1>1, <1>2
<1>5. tryInline' \in [Side -> Names \cup {None}] /\ \A s \in Side : tryInline'[s] = None
  BY DEF NoCalls, Both
<1>6. TypeOK'
  <2>1. /\ at' \in Places /\ operand' \in Nat \ {0} /\ matched' \in BOOLEAN
        /\ visited' \subseteq BlockNames /\ inverse' \subseteq Names \X Names
    <3>1. at' \in Places
      BY <1>2 DEF Places
    <3>2. operand' \in Nat \ {0}
      BY <1>2
    <3>3. matched' \in BOOLEAN
      BY <1>2
    <3>4. visited' = {} /\ inverse' = {}
      BY <1>2
    <3> QED
      BY <3>1, <3>2, <3>3, <3>4
  <2>2. todo' \in Seq([Side -> BlockNames]) /\ phis' \in Seq([Side -> Instr])
    BY <1>2
  <2>3. \A s \in Side : tryInline'[s] # None =>
              \E i \in InstrsOf(fn'[s]) : i.name = tryInline'[s] /\ IsCall(i)
    BY <1>5
  <2>4. verdict' \in {"unknown", "equal", "not_equal"} /\ rerun' \in BOOLEAN
    OBVIOUS
  <2> QED
    BY <2>1, <2>2, <2>3, <2>4, <1>3, <1>4, <1>5 DEF TypeOK, Serials
<1>7. WalkInv' /\ PhisInv' /\ OncePerBlock'
  BY <1>2 DEF WalkInv, PhisInv, OncePerBlock
<1> QED
  BY <1>6, <1>7 DEF IInv

LEMMA InlineInv == ASSUME IInv, Inline PROVE IInv'
<1>1. \A s \in Side : /\ fn'[s] \in Function /\ WellFormed(fn'[s])
                      /\ \A i \in InstrsOf(fn'[s]) : CallFits(s, i)
  <2> SUFFICES ASSUME NEW s \in Side
               PROVE  /\ fn'[s] \in Function /\ WellFormed(fn'[s])
                      /\ \A i \in InstrsOf(fn'[s]) : CallFits(s, i)
    OBVIOUS
  <2>1. fn[s] \in Function /\ WellFormed(fn[s]) /\ \A i \in InstrsOf(fn[s]) : CallFits(s, i)
    BY DEF IInv, TypeOK, FunctionsInv
  <2>2. CASE s \notin Inlinable
    BY <2>1, <2>2 DEF Inline
  <2>3. CASE s \in Inlinable
    <3>1. Replaces(fn'[s], fn[s]) /\ \A i \in InstrsOf(fn'[s]) : CallFits(s, i)
      BY <2>3, InlinedReplaces DEF Inline
    <3> QED
      BY <2>1, <3>1, ReplacedWellFormed DEF Replaces
  <2> QED
    BY <2>2, <2>3
<1>2. fn' \in [Side -> Function]
  BY <1>1 DEF Inline
<1>3. given' = given /\ tryInline' = NoCalls /\ verdict' = "unknown" /\ rerun' = TRUE /\ Fresh
  BY DEF Inline
<1>4. FunctionsInv'
  BY <1>1, <1>3 DEF IInv, FunctionsInv, CallFits
<1> QED
  BY <1>2, <1>3, <1>4, FreshInv

-----------------------------------------------------------------------------
(* The comparison. *)

LEMMA InitInv == ASSUME Init PROVE IInv
<1>1. PICK pairs \in PairFamilies : given \in pairs
  BY DEF Init
<1>2. /\ given \in Pair
      /\ \A s \in Side : WellFormed(given.fn[s]) /\ Callable(given, s)
  BY <1>1, FamiliesAssumption
<1>3. fn = given.fn /\ fn \in [Side -> Function]
  BY <1>2 DEF Init, Pair
<1>4. FunctionsInv
  BY <1>2, <1>3 DEF FunctionsInv, Callable, CallFits
<1>5. \A s \in Side : fn[s].entry \in BlockNames /\ 1 \in DOMAIN fn[s].code[fn[s].entry]
  <2> SUFFICES ASSUME NEW s \in Side
               PROVE  fn[s].entry \in BlockNames /\ 1 \in DOMAIN fn[s].code[fn[s].entry]
    OBVIOUS
  <2>1. /\ fn[s].entry \in BlockNames
        /\ fn[s].code[fn[s].entry] \in Seq(Instr) /\ fn[s].code[fn[s].entry] # <<>>
    BY <1>3, <1>4 DEF FunctionsInv, WellFormed, BlocksOf, Function
  <2> QED
    BY <2>1, NotEmpty
<1>6. /\ cur = [s \in Side |-> [block |-> fn[s].entry, pos |-> 1]] /\ at = "start"
      /\ operand = 1 /\ matched = FALSE /\ sn = Both(<<>>)
      /\ todo = <<>> /\ visited = {} /\ inverse = {} /\ phis = <<>>
      /\ tryInline = NoCalls /\ verdict = "unknown" /\ rerun = FALSE
  BY DEF Init
<1>7. \A s \in Side : Serials(sn[s])
  BY <1>6 DEF Both, Serials
<1>8. cur \in [Side -> [block : BlockNames, pos : Nat \ {0}]]
      /\ \A s \in Side : cur[s].pos \in DOMAIN fn[s].code[cur[s].block]
  BY <1>5, <1>6
<1>9. tryInline \in [Side -> Names \cup {None}] /\ \A s \in Side : tryInline[s] = None
  BY <1>6 DEF NoCalls, Both
<1>10. TypeOK
  <2>1. /\ at \in Places /\ operand \in Nat \ {0} /\ matched \in BOOLEAN
        /\ visited \subseteq BlockNames /\ inverse \subseteq Names \X Names
    <3>1. at \in Places
      BY <1>6 DEF Places
    <3>2. operand \in Nat \ {0}
      BY <1>6
    <3>3. matched \in BOOLEAN
      BY <1>6
    <3>4. visited = {} /\ inverse = {}
      BY <1>6
    <3> QED
      BY <3>1, <3>2, <3>3, <3>4
  <2>2. todo \in Seq([Side -> BlockNames]) /\ phis \in Seq([Side -> Instr])
    BY <1>6
  <2>3. \A s \in Side : tryInline[s] # None =>
              \E i \in InstrsOf(fn[s]) : i.name = tryInline[s] /\ IsCall(i)
    BY <1>9
  <2>4. verdict \in {"unknown", "equal", "not_equal"} /\ rerun \in BOOLEAN
    BY <1>6
  <2> QED
    BY <2>1, <2>2, <2>3, <2>4, <1>3, <1>7, <1>8, <1>9 DEF TypeOK, Serials
<1>11. WalkInv /\ PhisInv /\ OncePerBlock
  BY <1>6 DEF WalkInv, PhisInv, OncePerBlock
<1> QED
  BY <1>4, <1>10, <1>11 DEF IInv

LEMMA UnchangedInv == ASSUME IInv, UNCHANGED vars PROVE IInv'
<1>1. UNCHANGED <<given, fn, cur, todo, visited, phis, rerun, at, operand, matched, sn, inverse, tryInline, verdict>>
  BY DEF vars
<1>2. TypeOK' /\ FunctionsInv'
  BY <1>1 DEF IInv, TypeOK, FunctionsInv, CallFits
<1>3. WalkInv' /\ PhisInv' /\ OncePerBlock'
  BY <1>1 DEF IInv, WalkInv, PhisInv, OncePerBlock, Left, Right, This
<1> QED
  BY <1>2, <1>3 DEF IInv

LEMMA NextInv == ASSUME IInv, [Next]_vars PROVE IInv'
<1>1. CASE CompareSignature   BY <1>1, CompareSignatureInv
<1>2. CASE SignaturesDiffer   BY <1>2, SignaturesDifferInv
<1>3. CASE CompareBlocks      BY <1>3, CompareBlocksInv
<1>4. CASE InstructionsEqual  BY <1>4, InstructionsEqualInv
<1>5. CASE BranchesInverse    BY <1>5, BranchesInverseInv
<1>6. CASE PhisLater          BY <1>6, PhisLaterInv
<1>7. CASE ComparisonsInverse BY <1>7, ComparisonsInverseInv
<1>8. CASE InstructionsDiffer BY <1>8, InstructionsDifferInv
<1>9. CASE CompareBlockOperands BY <1>9, CompareBlockOperandsInv
<1>10. CASE CompareOperands   BY <1>10, CompareOperandsInv
<1>11. CASE NextInstructions  BY <1>11, NextInstructionsInv
<1>12. CASE EndBlocks         BY <1>12, EndBlocksInv
<1>13. CASE NextSuccessors    BY <1>13, NextSuccessorsInv
<1>14. CASE NoMoreSuccessors  BY <1>14, NoMoreSuccessorsInv
<1>15. CASE Skip              BY <1>15, SkipInv
<1>16. CASE Differ            BY <1>16, DifferInv
<1>17. CASE BlocksEqual       BY <1>17, BlocksEqualInv
<1>18. CASE ComparePhis       BY <1>18, ComparePhisInv
<1>19. CASE AllEqual          BY <1>19, AllEqualInv
<1>20. CASE Inline            BY <1>20, InlineInv
<1>21. CASE NothingToInline   BY <1>21, NothingToInlineInv
<1>22. CASE UNCHANGED vars    BY <1>22, UnchangedInv
<1>23. CASE Done              BY <1>23, UnchangedInv DEF Done
<1> QED
  BY <1>1, <1>2, <1>3, <1>4, <1>5, <1>6, <1>7, <1>8, <1>9, <1>10, <1>11, <1>12, <1>13, <1>14,
     <1>15, <1>16, <1>17, <1>18, <1>19, <1>20, <1>21, <1>22, <1>23 DEF Next

\* For any functions, the comparison of them (DifferentialFunctionComparator over
\* LLVM's FunctionComparator) keeps its types: it never runs behind the end of a block,
\* also after one of two instructions was skipped, never reads an operand or an
\* incoming value that is not there, and whatever compareFunctions inlines is a call.
THEOREM FunctionsTyped == Spec => []TypeOK
<1>1. Init => IInv
  BY InitInv
<1>2. IInv /\ [Next]_vars => IInv'
  BY NextInv
<1>3. IInv => TypeOK
  BY DEF IInv
<1> QED
  BY <1>1, <1>2, <1>3, PTL DEF Spec

\* For any functions, FunctionComparator::compare takes each block of the left function
\* at most once: blocks that wait are different ones, the walk has met them all, and
\* the block being compared does not wait again.
THEOREM BlocksComparedOnce == Spec => []OncePerBlock
<1>1. Init => IInv
  BY InitInv
<1>2. IInv /\ [Next]_vars => IInv'
  BY NextInv
<1>3. IInv => OncePerBlock
  BY DEF IInv
<1> QED
  BY <1>1, <1>2, <1>3, PTL DEF Spec

-----------------------------------------------------------------------------
(* What functions that are found equal have in common. *)

\* Two operands are taken for the same: constants, called functions among them, are.
Agree(v, w) ==
    {Uncast("L", v), Uncast("R", w)} \cap Consts # {} => Uncast("L", v) = Uncast("R", w)

\* Of the first n - 1 operands this is known; or of those before an argument of a call that
\* is the same in the C source.
OperandsAgree(i, j, n) ==
    \/ \A k \in DOMAIN i.args : k < n => Agree(i.args[k], j.args[k])
    \/ /\ i.op = "call"
       /\ \E m \in DOMAIN i.args : /\ <<i.args[m], j.args[m]>> \in SameInSource
                                   /\ \A k \in DOMAIN i.args : k < m => Agree(i.args[k], j.args[k])

\* Each value that comes to the one comes to the other.
IncomingAgree(i, j) ==
    \A k \in DOMAIN i.args : \E m \in DOMAIN j.args : Agree(i.args[k], j.args[m])

\* Branches on comparisons with inverse predicates.
DecidedInversely(i, j) ==
    /\ Conditional(i) /\ Conditional(j)
    /\ \E x \in InstrsOf(fn.L), y \in InstrsOf(fn.R) :
        x.name = i.args[1] /\ y.name = j.args[1] /\ InverseComparisons(x, y)

Alike(i, j) ==
    /\ SameShape(i, j)
    /\ i.kind = j.kind \/ i.op = "phi" \/ InverseComparisons(i, j) \/ DecidedInversely(i, j)

\* The instructions are the same for the comparator; PHI instructions are, or wait.
SameInstrs(i, j, waiting) ==
    /\ Alike(i, j)
    /\ i.op # "phi" => OperandsAgree(i, j, Len(i.args) + 1)
    /\ i.op = "phi" => IncomingAgree(i, j) \/ <<i, j>> \in waiting

\* The first p - 1 instructions of l and the first q - 1 of r match: in their order, each
\* but for those that may be ignored is the same as one of the other's.
Matched(l, r, p, q, waiting) ==
    \E pairs \in SUBSET ((DOMAIN l) \X (DOMAIN r)) :
        /\ \A x \in pairs : x[1] < p /\ x[2] < q /\ SameInstrs(l[x[1]], r[x[2]], waiting)
        /\ \A x, y \in pairs : x[1] < y[1] <=> x[2] < y[2]
        /\ \A n \in DOMAIN l : n < p /\ ~MayIgnore(l[n]) => \E x \in pairs : x[1] = n
        /\ \A n \in DOMAIN r : n < q /\ ~MayIgnore(r[n]) => \E x \in pairs : x[2] = n

SameBlocks(b, c, waiting) ==
    Matched(fn.L.code[b], fn.R.code[c], Len(fn.L.code[b]) + 1, Len(fn.R.code[c]) + 1, waiting)

SuccsOf(s, b) == Range(fn[s].code[b][Len(fn[s].code[b])].to)

\* A block of S follows one of S, as its counterpart does.
Follows(partner, S, b) ==
    \E p \in S : b \in SuccsOf("L", p) /\ partner[b] \in SuccsOf("R", partner[p])

\* Functions found equal: the entry has its counterpart, and so has each block that is
\* reached; blocks and their counterparts match, and follow matching ones.
EqualBlocksMatch ==
    verdict = "equal" =>
        /\ Len(fn.L.args) = Len(fn.R.args)
        /\ \E S \in SUBSET BlocksOf(fn.L) : \E partner \in [S -> BlocksOf(fn.R)] :
            /\ fn.L.entry \in S /\ partner[fn.L.entry] = fn.R.entry
            /\ \A b \in S : SameBlocks(b, partner[b], {}) /\ SuccsOf("L", b) \subseteq S
            /\ \A b \in S \ {fn.L.entry} : Follows(partner, S, b)

Waiting == {<<phis[n].L, phis[n].R>> : n \in DOMAIN phis}
InBlock == {"instructions", "operands", "successors", "differ"}
Walking == {"blocks", "phis"} \cup InBlock

\* The blocks that the walk has met have counterparts; it has compared them, or is going to.
PartnersInv(partner) ==
    /\ visited \subseteq BlocksOf(fn.L) /\ partner \in [visited -> BlocksOf(fn.R)]
    /\ fn.L.entry \in visited /\ partner[fn.L.entry] = fn.R.entry
    /\ \A n \in DOMAIN todo : partner[todo[n].L] = todo[n].R
    /\ at \in InBlock => partner[cur.L.block] = cur.R.block
    /\ \A b \in visited \ {fn.L.entry} : Follows(partner, visited, b)
    /\ \A b \in visited : \/ \E n \in DOMAIN todo : todo[n].L = b
                          \/ at \in InBlock /\ b = cur.L.block
                          \/ SameBlocks(b, partner[b], Waiting) /\ SuccsOf("L", b) \subseteq visited

\* How far it is in the blocks being compared.
BlockInv ==
    /\ at \in {"instructions", "operands", "differ"} =>
        Matched(fn.L.code[cur.L.block], fn.R.code[cur.R.block], cur.L.pos, cur.R.pos, Waiting)
    /\ at = "operands" =>
        /\ Alike(Left, Right)
        /\ Left.op # "phi" => OperandsAgree(Left, Right, operand)
        /\ Left.op = "phi" => <<Left, Right>> \in Waiting
    /\ at = "successors" =>
        /\ SameBlocks(cur.L.block, cur.R.block, Waiting)
        /\ \A k \in DOMAIN Left.to : k < operand => Left.to[k] \in visited
    /\ \A x \in inverse : \E i \in InstrsOf(fn.L), j \in InstrsOf(fn.R) :
        x = <<i.name, j.name>> /\ InverseComparisons(i, j)

\* And with the incoming values of the PHI instructions that wait.
IncomingInv ==
    at = "phis" =>
        /\ todo = <<>>
        /\ phis # <<>> =>
            LET l == Head(phis).L
                r == Head(phis).R
                i == ((operand - 1) \div Len(r.to)) + 1
                j == ((operand - 1) % Len(r.to)) + 1
            IN  /\ \A k \in DOMAIN l.args : k < i => \E m \in DOMAIN r.args : Agree(l.args[k], r.args[m])
                /\ j > 1 /\ matched => \E m \in DOMAIN r.args : Agree(l.args[i], r.args[m])

EqualInv ==
    /\ at = "start" => inverse = {}
    /\ at \in Walking =>
        /\ Len(fn.L.args) = Len(fn.R.args)
        /\ \E partner \in [visited -> BlocksOf(fn.R)] : PartnersInv(partner)
        /\ BlockInv /\ IncomingInv
    /\ verdict = "equal" => at \in {"inline", "end"}
    /\ EqualBlocksMatch

-----------------------------------------------------------------------------
(* Instruction by instruction. *)

LEMMA MatchedNone ==
    ASSUME NEW l \in Seq(Instr), NEW r \in Seq(Instr), NEW w
    PROVE  Matched(l, r, 1, 1, w)
<1>1. (\A n \in DOMAIN l : ~(n < 1)) /\ (\A n \in DOMAIN r : ~(n < 1))
  OBVIOUS
<1>2. {} \in SUBSET ((DOMAIN l) \X (DOMAIN r))
  OBVIOUS
<1> QED
  BY <1>1, <1>2 DEF Matched

\* The next two instructions are the same.
LEMMA MatchedPair ==
    ASSUME NEW l \in Seq(Instr), NEW r \in Seq(Instr), NEW p \in DOMAIN l, NEW q \in DOMAIN r, NEW w,
           Matched(l, r, p, q, w), SameInstrs(l[p], r[q], w)
    PROVE  Matched(l, r, p + 1, q + 1, w)
<1>1. PICK pairs \in SUBSET ((DOMAIN l) \X (DOMAIN r)) :
        /\ \A x \in pairs : x[1] < p /\ x[2] < q /\ SameInstrs(l[x[1]], r[x[2]], w)
        /\ \A x, y \in pairs : x[1] < y[1] <=> x[2] < y[2]
        /\ \A n \in DOMAIN l : n < p /\ ~MayIgnore(l[n]) => \E x \in pairs : x[1] = n
        /\ \A n \in DOMAIN r : n < q /\ ~MayIgnore(r[n]) => \E x \in pairs : x[2] = n
  BY DEF Matched
<1> DEFINE more == pairs \cup {<<p, q>>}
<1>2. DOMAIN l \subseteq Nat /\ DOMAIN r \subseteq Nat
  OBVIOUS
<1>3. more \in SUBSET ((DOMAIN l) \X (DOMAIN r))
  OBVIOUS
<1>4. \A x \in pairs : x[1] \in Nat /\ x[2] \in Nat /\ x[1] < p /\ x[2] < q
  BY <1>1, <1>2
<1>5. \A x \in more : x[1] < p + 1 /\ x[2] < q + 1 /\ SameInstrs(l[x[1]], r[x[2]], w)
  BY <1>1, <1>2, <1>4
<1>6. ASSUME NEW x \in more, NEW y \in more
      PROVE  x[1] < y[1] <=> x[2] < y[2]
  <2>1. CASE x \in pairs /\ y \in pairs
    BY <1>1, <2>1
  <2>2. CASE x \in pairs /\ y = <<p, q>>
    BY <1>4, <2>2
  <2>3. CASE x = <<p, q>> /\ y \in pairs
    BY <1>2, <1>4, <2>3
  <2>4. CASE x = <<p, q>> /\ y = <<p, q>>
    BY <1>2, <2>4
  <2> QED
    BY <2>1, <2>2, <2>3, <2>4
<1>7. <<p, q>> \in more /\ <<p, q>>[1] = p /\ <<p, q>>[2] = q
  OBVIOUS
<1>8. ASSUME NEW n \in DOMAIN l, n < p + 1, ~MayIgnore(l[n])
      PROVE  \E x \in more : x[1] = n
  <2>1. n = p \/ n < p
    BY <1>2, <1>8
  <2> QED
    BY <1>1, <1>7, <1>8, <2>1
<1>9. ASSUME NEW n \in DOMAIN r, n < q + 1, ~MayIgnore(r[n])
      PROVE  \E x \in more : x[2] = n
  <2>1. n = q \/ n < q
    BY <1>2, <1>9
  <2> QED
    BY <1>1, <1>7, <1>9, <2>1
<1> HIDE DEF more
<1> QED
  BY <1>3, <1>5, <1>6, <1>8, <1>9 DEF Matched

\* An instruction of one side is skipped.
LEMMA MatchedSkip ==
    ASSUME NEW l \in Seq(Instr), NEW r \in Seq(Instr), NEW p \in Nat, NEW q \in Nat, NEW w,
           NEW u \in Nat, NEW v \in Nat, Matched(l, r, p, q, w),
           u = p \/ (u = p + 1 /\ (p \in DOMAIN l => MayIgnore(l[p]))),
           v = q \/ (v = q + 1 /\ (q \in DOMAIN r => MayIgnore(r[q])))
    PROVE  Matched(l, r, u, v, w)
<1>1. PICK pairs \in SUBSET ((DOMAIN l) \X (DOMAIN r)) :
        /\ \A x \in pairs : x[1] < p /\ x[2] < q /\ SameInstrs(l[x[1]], r[x[2]], w)
        /\ \A x, y \in pairs : x[1] < y[1] <=> x[2] < y[2]
        /\ \A n \in DOMAIN l : n < p /\ ~MayIgnore(l[n]) => \E x \in pairs : x[1] = n
        /\ \A n \in DOMAIN r : n < q /\ ~MayIgnore(r[n]) => \E x \in pairs : x[2] = n
  BY DEF Matched
<1>2. DOMAIN l \subseteq Nat /\ DOMAIN r \subseteq Nat
  OBVIOUS
<1>3. \A x \in pairs : x[1] \in Nat /\ x[2] \in Nat
  BY <1>2
<1>4. \A x \in pairs : x[1] < u /\ x[2] < v /\ SameInstrs(l[x[1]], r[x[2]], w)
  BY <1>1, <1>3
<1>5. \A n \in DOMAIN l : n < u /\ ~MayIgnore(l[n]) => n < p
  BY <1>2
<1>6. \A n \in DOMAIN r : n < v /\ ~MayIgnore(r[n]) => n < q
  BY <1>2
<1> QED
  BY <1>1, <1>4, <1>5, <1>6 DEF Matched

-----------------------------------------------------------------------------
(* What stays. *)

\* What is known of instructions while the functions stay as they are, or the successors
\* of a branch are exchanged.
MeaningKept ==
    /\ \A s \in Side : \A v : Uncast(s, v)' = Uncast(s, v)
    /\ \A i, j : InverseComparisons(i, j) => InverseComparisons(i, j)'
    /\ \A i, j : DecidedInversely(i, j) => DecidedInversely(i, j)'

LEMMA UnchangedMeaning ==
    ASSUME UNCHANGED fn
    PROVE  MeaningKept
  BY DEF MeaningKept, Uncast, InverseComparisons, UsersOf, DecidedInversely

LEMMA AgreeKept ==
    ASSUME MeaningKept
    PROVE  \A v, w : Agree(v, w)' <=> Agree(v, w)
  BY DEF MeaningKept, Agree, Side

LEMMA AlikeKept ==
    ASSUME MeaningKept, NEW i, NEW j, Alike(i, j)
    PROVE  Alike(i, j)'
  BY DEF MeaningKept, Alike

LEMMA OperandsKept ==
    ASSUME MeaningKept, NEW i, NEW j, NEW n, OperandsAgree(i, j, n)
    PROVE  OperandsAgree(i, j, n)'
  BY AgreeKept DEF OperandsAgree

LEMMA IncomingKept ==
    ASSUME MeaningKept, NEW i, NEW j, IncomingAgree(i, j)
    PROVE  IncomingAgree(i, j)'
  BY AgreeKept DEF IncomingAgree

\* More may wait, or have come to agree.
LEMMA SameInstrsKept ==
    ASSUME MeaningKept, NEW w, NEW x, NEW i, NEW j, SameInstrs(i, j, w),
           <<i, j>> \in w => <<i, j>> \in x \/ IncomingAgree(i, j)
    PROVE  SameInstrs(i, j, x)'
  BY AlikeKept, OperandsKept, IncomingKept DEF SameInstrs

LEMMA MatchedKept ==
    ASSUME MeaningKept, NEW l, NEW r, NEW p, NEW q, NEW w, NEW x, Matched(l, r, p, q, w),
           \A i, j : <<i, j>> \in w => <<i, j>> \in x \/ IncomingAgree(i, j)
    PROVE  Matched(l, r, p, q, x)'
<1>1. \A i, j : SameInstrs(i, j, w) => SameInstrs(i, j, x)'
  BY SameInstrsKept
<1> QED
  BY <1>1 DEF Matched, MayIgnore

-----------------------------------------------------------------------------
(* Steps in a block. *)

LEMMA HerePair ==
    ASSUME IInv
    PROVE  /\ Left = fn.L.code[cur.L.block][cur.L.pos] /\ Right = fn.R.code[cur.R.block][cur.R.pos]
           /\ fn.L.code[cur.L.block] \in Seq(Instr) /\ fn.R.code[cur.R.block] \in Seq(Instr)
           /\ cur.L.pos \in DOMAIN fn.L.code[cur.L.block] /\ cur.R.pos \in DOMAIN fn.R.code[cur.R.block]
           /\ cur.L.pos \in Nat /\ cur.R.pos \in Nat
           /\ Left \in Instr /\ Right \in Instr /\ Shaped(Left) /\ Shaped(Right)
           /\ Left \in InstrsOf(fn.L) /\ Right \in InstrsOf(fn.R)
           /\ Behind("L").pos = cur.L.pos + 1 /\ Behind("R").pos = cur.R.pos + 1
           /\ Behind("L").block = cur.L.block /\ Behind("R").block = cur.R.block
           /\ operand \in Nat \ {0}
<1>1. /\ fn \in [Side -> Function] /\ cur \in [Side -> [block : BlockNames, pos : Nat \ {0}]]
      /\ \A s \in Side : cur[s].pos \in DOMAIN fn[s].code[cur[s].block]
      /\ operand \in Nat \ {0}
  BY DEF IInv, TypeOK
<1>2. \A s \in Side : This(s) \in Instr /\ Shaped(This(s)) /\ This(s) \in InstrsOf(fn[s])
  BY HereIsInstr DEF IInv
<1> QED
  BY <1>1, <1>2 DEF Left, Right, This, Behind, Side, Function

LEMMA InBlockEqual ==
    ASSUME EqualInv, UNCHANGED <<fn, todo, visited, verdict>>, at \in InBlock, at' \in InBlock,
           cur'.L.block = cur.L.block, cur'.R.block = cur.R.block,
           Waiting \subseteq Waiting', BlockInv'
    PROVE  EqualInv'
<1>1. at # "phis" /\ at' \notin {"phis", "start"} /\ at \in Walking /\ at' \in Walking /\ at \notin {"inline", "end"}
  BY DEF InBlock, Walking
<1>2. PICK partner \in [visited -> BlocksOf(fn.R)] : PartnersInv(partner)
  BY <1>1 DEF EqualInv
<1>3. \A b : SameBlocks(b, partner[b], Waiting) => SameBlocks(b, partner[b], Waiting)'
  BY UnchangedMeaning, MatchedKept DEF SameBlocks
<1>4. PartnersInv(partner)'
  BY <1>1, <1>2, <1>3 DEF PartnersInv, Follows, SuccsOf, BlocksOf
<1>5. verdict' # "equal"
  BY <1>1 DEF EqualInv
<1>6. partner \in [visited' -> BlocksOf(fn'.R)]
  BY <1>2
<1> QED
  BY <1>1, <1>4, <1>5, <1>6 DEF EqualInv, IncomingInv, EqualBlocksMatch

\* What the steps in a block have to begin with.
LEMMA BlockFacts ==
    ASSUME EqualInv, at \in InBlock
    PROVE  BlockInv
  BY DEF EqualInv, InBlock, Walking

\* What is known of comparisons stays.
Inverted(set) ==
    \A x \in set : \E i \in InstrsOf(fn.L), j \in InstrsOf(fn.R) :
        x = <<i.name, j.name>> /\ InverseComparisons(i, j)

LEMMA InvertedStay ==
    ASSUME UNCHANGED fn, NEW set, Inverted(set)
    PROVE  Inverted(set)'
  BY UnchangedMeaning DEF Inverted, MeaningKept

LEMMA ToOperands ==
    ASSUME IInv, EqualInv, UNCHANGED <<fn, todo, visited, verdict, cur>>, at = "instructions",
           at' = "operands", operand' = 1, Waiting \subseteq Waiting', Inverted(inverse'), Alike(Left, Right),
           Left.op = "phi" => <<Left, Right>> \in Waiting'
    PROVE  EqualInv'
<1>1. BlockInv /\ at \in InBlock /\ at' \in InBlock
  BY BlockFacts DEF InBlock
<1>2. Left' = Left /\ Right' = Right
  BY DEF Left, Right, This
<1>3. Alike(Left, Right)'
  BY <1>2, UnchangedMeaning, AlikeKept
<1>4. OperandsAgree(Left, Right, 1)'
  <2>1. \A k \in DOMAIN Left.args : ~(k < 1)
    BY HerePair DEF Instr
  <2> QED
    BY <1>2, <2>1 DEF OperandsAgree
<1>5. Matched(fn.L.code[cur.L.block], fn.R.code[cur.R.block], cur.L.pos, cur.R.pos, Waiting)'
  BY <1>1, UnchangedMeaning, MatchedKept DEF BlockInv
<1>6. Inverted(inverse)'
  BY InvertedStay DEF Inverted
<1>7. BlockInv'
  BY <1>2, <1>3, <1>4, <1>5, <1>6 DEF BlockInv, Inverted
<1> QED
  BY <1>1, <1>7, InBlockEqual

LEMMA InstructionsEqualMatch == ASSUME IInv, EqualInv, InstructionsEqual PROVE EqualInv'
<1>1. Alike(Left, Right)
  BY DEF InstructionsEqual, EqualInstructions, SameOperation, SameShape, Alike
<1>2. Inverted(inverse)
  BY BlockFacts DEF BlockInv, Inverted, InstructionsEqual, CompareInstructions, InBlock
<1> QED
  BY <1>1, <1>2, ToOperands DEF InstructionsEqual, CompareInstructions, Waiting

LEMMA ComparisonsInverseMatch == ASSUME IInv, EqualInv, ComparisonsInverse PROVE EqualInv'
<1>1. SameShape(Left, Right) /\ Left.op = "cmp"
  BY HerePair DEF ComparisonsInverse, InverseComparisons, Shaped, SameShape
<1>2. Inverted(inverse)
  BY BlockFacts DEF BlockInv, Inverted, ComparisonsInverse, CompareInstructions, InBlock
<1>3. Inverted(inverse \cup {<<Left.name, Right.name>>})
  BY <1>2, HerePair DEF Inverted, ComparisonsInverse
<1>4. Alike(Left, Right)
  BY <1>1 DEF ComparisonsInverse, Alike
<1> QED
  BY <1>1, <1>3, <1>4, ToOperands DEF ComparisonsInverse, CompareInstructions, Waiting

\* Steps that leave the place.
LEMMA StayInBlock ==
    ASSUME IInv, EqualInv, UNCHANGED <<fn, todo, visited, verdict, cur, phis, inverse>>,
           at \in {"instructions", "operands", "differ"}, at' \in {"operands", "differ"},
           at' = "operands" => /\ at = "operands"
                               /\ Left.op # "phi" => OperandsAgree(Left, Right, operand')
    PROVE  EqualInv'
<1>1. BlockInv /\ at \in InBlock /\ at' \in InBlock
  BY BlockFacts DEF InBlock
<1>2. Left' = Left /\ Right' = Right /\ Waiting' = Waiting
  BY DEF Left, Right, This, Waiting
<1>3. at' = "operands" => Alike(Left, Right)'
  BY <1>1, <1>2, UnchangedMeaning, AlikeKept DEF BlockInv
<1>4. at' = "operands" /\ Left.op # "phi" => OperandsAgree(Left, Right, operand)'
  BY <1>2, UnchangedMeaning, OperandsKept
<1>5. Matched(fn.L.code[cur.L.block], fn.R.code[cur.R.block], cur.L.pos, cur.R.pos, Waiting)'
  BY <1>1, <1>2, UnchangedMeaning, MatchedKept DEF BlockInv
<1>6. Inverted(inverse)'
  BY <1>1, InvertedStay DEF Inverted, BlockInv
<1>7. BlockInv'
  BY <1>1, <1>2, <1>3, <1>4, <1>5, <1>6 DEF BlockInv, Inverted
<1> QED
  BY <1>1, <1>2, <1>7, InBlockEqual

LEMMA InstructionsDifferMatch == ASSUME IInv, EqualInv, InstructionsDiffer PROVE EqualInv'
  BY StayInBlock DEF InstructionsDiffer, CompareInstructions

\* The first operands are the arguments.
LEMMA ArgsFirst ==
    ASSUME NEW i \in Instr, i.op # "phi"
    PROVE  \A k \in DOMAIN i.args : Operands(i)[k] = i.args[k] /\ i.args[k] \in Values
<1>1. i.args \in Seq(Values) /\ i.to \in Seq(BlockNames)
  BY DEF Instr
<1>2. CASE i.op = "br"
  <2> DEFINE back == [n \in DOMAIN i.to |-> i.to[Len(i.to) + 1 - n]]
  <2>1. back \in Seq(BlockNames)
    BY <1>1
  <2>2. Operands(i) = i.args \o back
    BY <1>2 DEF Operands
  <2> HIDE DEF back
  <2> QED
    BY <1>1, <2>1, <2>2
<1>3. CASE i.op # "br"
  BY <1>1, <1>3 DEF Operands
<1> QED
  BY <1>2, <1>3

LEMMA NextAgrees ==
    ASSUME IInv, OperandsAgree(Left, Right, operand),
           operand \in DOMAIN Left.args => Agree(Left.args[operand], Right.args[operand])
    PROVE  OperandsAgree(Left, Right, operand + 1)
<1>1. operand \in Nat /\ DOMAIN Left.args \subseteq Nat
  <2>1. operand \in Nat /\ Left.args \in Seq(Values)
    BY HerePair DEF Instr
  <2> QED
    BY <2>1
<1>2. \A k \in DOMAIN Left.args : k < operand + 1 => k < operand \/ k = operand
  BY <1>1
<1> QED
  BY <1>2 DEF OperandsAgree

LEMMA CompareBlockOperandsMatch == ASSUME IInv, EqualInv, CompareBlockOperands PROVE EqualInv'
<1>1. ASSUME Left.op # "phi"
      PROVE  OperandsAgree(Left, Right, operand + 1)
  <2>1. operand \notin DOMAIN Left.args
    BY <1>1, ArgsFirst, HerePair, NamesAssumption DEF CompareBlockOperands, Values
  <2>2. OperandsAgree(Left, Right, operand)
    BY <1>1, BlockFacts DEF CompareBlockOperands, BlockInv, InBlock
  <2> QED
    BY <2>1, <2>2, NextAgrees
<1> QED
  BY <1>1, StayInBlock DEF CompareBlockOperands

LEMMA CompareOperandsMatch == ASSUME IInv, EqualInv, CompareOperands PROVE EqualInv'
<1> DEFINE l == Operands(Left)[operand]
           r == Operands(Right)[operand]
<1>0. at = "operands" /\ SameShape(Left, Right) /\ operand <= Len(Operands(Left)) /\ Len(Operands(Left)) \in Nat
  BY HerePair, OperandsTyped DEF CompareOperands, IInv, WalkInv
<1>1. ASSUME Left.op # "phi"
      PROVE  /\ OperandsAgree(Left, Right, operand)
             /\ \A k \in DOMAIN Left.args : Operands(Left)[k] = Left.args[k] /\ Operands(Right)[k] = Right.args[k]
  <2>1. DOMAIN Left.args = DOMAIN Right.args /\ Right.op # "phi"
    BY <1>0, <1>1, HerePair DEF SameShape, Instr
  <2>2. BlockInv
    BY <1>0, BlockFacts DEF InBlock
  <2> QED
    BY <1>0, <1>1, <2>1, <2>2, ArgsFirst, HerePair DEF BlockInv
<1>2. CASE SameValue(sn, Uncast("L", l), Uncast("R", r)) /\ operand' = operand + 1 /\ at' = at
  <2>1. Agree(l, r)
    BY <1>2 DEF SameValue, Agree
  <2>2. Left.op # "phi" => OperandsAgree(Left, Right, operand')
    BY <1>1, <1>2, <2>1, NextAgrees
  <2> QED
    BY <1>0, <1>2, <2>2, StayInBlock DEF CompareOperands
<1>3. CASE IsCall(Left) /\ <<l, r>> \in SameInSource /\ operand' = Len(Operands(Left)) + 1 /\ at' = at
  <2>1. Left.op = "call" /\ operand \in DOMAIN Left.args
    <3>1. Left.op = "call"
      BY <1>3 DEF IsCall
    <3>2. Len(Operands(Left)) = Len(Left.args) /\ Left.args \in Seq(Values)
      BY <3>1, HerePair, OperandsTyped DEF Instr
    <3> QED
      BY <1>0, <3>1, <3>2, HerePair
  <2>2. <<Left.args[operand], Right.args[operand]>> \in SameInSource /\ OperandsAgree(Left, Right, operand)
    BY <1>1, <1>3, <2>1
  <2>3. OperandsAgree(Left, Right, operand')
    BY <2>1, <2>2 DEF OperandsAgree
  <2> QED
    BY <1>0, <1>3, <2>3, StayInBlock DEF CompareOperands
<1>4. CASE at' = "differ"
  BY <1>0, <1>4, StayInBlock DEF CompareOperands
<1> QED
  BY <1>2, <1>3, <1>4 DEF CompareOperands

LEMMA SumAtLeast ==
    ASSUME NEW a \in Nat, NEW b \in Nat
    PROVE  a + b \in Nat /\ a + b >= a /\ a >= a
  OBVIOUS

\* The instructions being compared are the same.
LEMMA HereSame ==
    ASSUME IInv, EqualInv, at = "operands", operand > Len(Operands(Left))
    PROVE  SameInstrs(Left, Right, Waiting)
<1>1. BlockInv
  BY BlockFacts DEF InBlock
<1>2. ASSUME Left.op # "phi", OperandsAgree(Left, Right, operand)
      PROVE  OperandsAgree(Left, Right, Len(Left.args) + 1)
  <2>1. /\ Left.args \in Seq(Values) /\ Left.to \in Seq(BlockNames)
        /\ Len(Operands(Left)) \in Nat /\ Len(Operands(Left)) >= Len(Left.args)
    <3>1. Left.args \in Seq(Values) /\ Left.to \in Seq(BlockNames)
      BY HerePair DEF Instr
    <3>2. Len(Operands(Left)) = IF Left.op = "br" THEN Len(Left.args) + Len(Left.to) ELSE Len(Left.args)
      BY <1>2, HerePair, OperandsTyped
    <3>3. Len(Left.args) \in Nat /\ Len(Left.to) \in Nat
      BY <3>1
    <3> QED
      BY <3>1, <3>2, <3>3, SumAtLeast
  <2>2. \A k \in DOMAIN Left.args : k < operand
    BY <2>1, HerePair
  <2> QED
    BY <1>2, <2>2 DEF OperandsAgree
<1> QED
  BY <1>1, <1>2 DEF BlockInv, SameInstrs

\* To the next instructions.
LEMMA ToInstructions ==
    ASSUME IInv, EqualInv, UNCHANGED <<fn, todo, visited, verdict, inverse>>,
           at \in {"instructions", "operands", "differ"}, at' = "instructions", Waiting \subseteq Waiting',
           cur'.L.block = cur.L.block, cur'.R.block = cur.R.block,
           Matched(fn.L.code[cur.L.block], fn.R.code[cur.R.block], cur.L.pos, cur.R.pos, Waiting)'
    PROVE  EqualInv'
<1>1. BlockInv /\ at \in InBlock /\ at' \in InBlock
  BY BlockFacts DEF InBlock
<1>2. Inverted(inverse)'
  BY <1>1, InvertedStay DEF Inverted, BlockInv
<1>3. BlockInv'
  BY <1>2 DEF BlockInv, Inverted
<1> QED
  BY <1>1, <1>3, InBlockEqual

LEMMA NextInstructionsMatch == ASSUME IInv, EqualInv, NextInstructions PROVE EqualInv'
<1>1. BlockInv /\ SameInstrs(Left, Right, Waiting)
  BY BlockFacts, HereSame DEF NextInstructions, InBlock
<1>2. Matched(fn.L.code[cur.L.block], fn.R.code[cur.R.block], cur.L.pos + 1, cur.R.pos + 1, Waiting)
  BY <1>1, HerePair, MatchedPair DEF BlockInv, NextInstructions
<1>3. /\ cur'.L = Behind("L") /\ cur'.R = Behind("R")
      /\ UNCHANGED <<fn, todo, visited, verdict, inverse, phis>> /\ at = "operands" /\ at' = "instructions"
  BY DEF NextInstructions, Side
<1>4. Waiting' = Waiting
  BY <1>3 DEF Waiting
<1>5. /\ cur'.L.block = cur.L.block /\ cur'.R.block = cur.R.block
      /\ cur'.L.pos = cur.L.pos + 1 /\ cur'.R.pos = cur.R.pos + 1
  BY <1>3, HerePair
<1>6. Matched(fn.L.code[cur.L.block], fn.R.code[cur.R.block], cur.L.pos, cur.R.pos, Waiting)'
  BY <1>2, <1>3, <1>4, <1>5, UnchangedMeaning, MatchedKept
<1> QED
  BY <1>3, <1>4, <1>5, <1>6, ToInstructions

LEMMA SkipMatch == ASSUME IInv, EqualInv, Skip PROVE EqualInv'
<1>1. BlockInv
  BY BlockFacts DEF Skip, InBlock
<1>2. /\ UNCHANGED <<fn, todo, visited, verdict, inverse, phis>> /\ at = "differ" /\ at' = "instructions"
      /\ cur' = AfterSkipping /\ (MayIgnore(Left) \/ MayIgnore(Right))
  BY DEF Skip
<1>3. Waiting' = Waiting
  BY <1>2 DEF Waiting
<1>4. /\ cur'.L.block = cur.L.block /\ cur'.R.block = cur.R.block
      /\ cur'.L.pos = cur.L.pos \/ (cur'.L.pos = cur.L.pos + 1 /\ MayIgnore(Left))
      /\ cur'.R.pos = cur.R.pos \/ (cur'.R.pos = cur.R.pos + 1 /\ MayIgnore(Right))
      /\ cur'.L.pos \in Nat /\ cur'.R.pos \in Nat
  <2>1. cur \in [Side -> [block : BlockNames, pos : Nat \ {0}]]
    BY DEF IInv, TypeOK
  <2>2. CASE MayIgnore(Left)
    <3>1. cur'.L = Behind("L") /\ cur'.R = cur.R
      BY <1>2, <2>1, <2>2 DEF AfterSkipping, Side
    <3> QED
      BY <2>2, <3>1, HerePair
  <2>3. CASE ~MayIgnore(Left)
    <3>1. cur'.L = cur.L /\ cur'.R = Behind("R")
      BY <1>2, <2>1, <2>3 DEF AfterSkipping, Side
    <3> QED
      BY <1>2, <2>3, <3>1, HerePair
  <2> QED
    BY <2>2, <2>3
<1>5. Matched(fn.L.code[cur.L.block], fn.R.code[cur.R.block], cur'.L.pos, cur'.R.pos, Waiting)
  <2>1. Matched(fn.L.code[cur.L.block], fn.R.code[cur.R.block], cur.L.pos, cur.R.pos, Waiting)
    BY <1>1, <1>2 DEF BlockInv
  <2>2. /\ fn.L.code[cur.L.block] \in Seq(Instr) /\ fn.R.code[cur.R.block] \in Seq(Instr)
        /\ cur.L.pos \in Nat /\ cur.R.pos \in Nat
        /\ fn.L.code[cur.L.block][cur.L.pos] = Left /\ fn.R.code[cur.R.block][cur.R.pos] = Right
    BY HerePair
  <2> DEFINE l == fn.L.code[cur.L.block]
             r == fn.R.code[cur.R.block]
             p == cur.L.pos
             q == cur.R.pos
             u == cur'.L.pos
             v == cur'.R.pos
  <2>3. /\ l \in Seq(Instr) /\ r \in Seq(Instr) /\ p \in Nat /\ q \in Nat /\ u \in Nat /\ v \in Nat
        /\ u = p \/ (u = p + 1 /\ (p \in DOMAIN l => MayIgnore(l[p])))
        /\ v = q \/ (v = q + 1 /\ (q \in DOMAIN r => MayIgnore(r[q])))
        /\ Matched(l, r, p, q, Waiting)
    BY <1>4, <2>1, <2>2
  <2> HIDE DEF l, r, p, q, u, v
  <2>4. Matched(l, r, u, v, Waiting)
    BY <2>3, MatchedSkip
  <2> QED
    BY <2>4 DEF l, r, u, v
<1>6. Matched(fn.L.code[cur.L.block], fn.R.code[cur.R.block], cur.L.pos, cur.R.pos, Waiting)'
  BY <1>2, <1>3, <1>4, <1>5, UnchangedMeaning, MatchedKept
<1> QED
  BY <1>2, <1>3, <1>4, <1>6, ToInstructions

LEMMA PhisLaterMatch == ASSUME IInv, EqualInv, PhisLater PROVE EqualInv'
<1> DEFINE pair == [s \in Side |-> This(s)]
<1>1. BlockInv /\ Inverted(inverse)
  BY BlockFacts DEF PhisLater, CompareInstructions, InBlock, BlockInv, Inverted
<1>2. /\ UNCHANGED <<fn, todo, visited, verdict, inverse>> /\ at = "instructions"
      /\ phis' = Append(phis, pair)
  BY DEF PhisLater, CompareInstructions
<1>3. /\ Waiting \subseteq Waiting' /\ <<Left, Right>> \in Waiting'
  <2>1. phis \in Seq([Side -> Instr]) /\ pair \in [Side -> Instr] /\ pair.L = Left /\ pair.R = Right
    BY HereIsInstr DEF IInv, TypeOK, Left, Right, Side
  <2> HIDE DEF pair
  <2>2. /\ DOMAIN phis \subseteq DOMAIN phis' /\ \A n \in DOMAIN phis : phis'[n] = phis[n]
        /\ \E n \in DOMAIN phis' : phis'[n] = pair
    BY <1>2, <2>1, Appended
  <2> QED
    BY <2>1, <2>2 DEF Waiting
<1>4. Left.op = "phi" /\ Right.op = "phi" /\ Alike(Left, Right)
  BY HerePair DEF PhisLater, SamePhis, Shaped, SameShape, Alike
<1>5. CASE EqualInstructions
  BY <1>1, <1>2, <1>3, <1>4, <1>5, ToOperands DEF PhisLater
<1>6. CASE ~EqualInstructions
  <2>1. cur'.L = Behind("L") /\ cur'.R = Behind("R") /\ at' = "instructions"
    BY <1>2, <1>6 DEF PhisLater, Side
  <2>2. /\ cur'.L.block = cur.L.block /\ cur'.R.block = cur.R.block
        /\ cur'.L.pos = cur.L.pos + 1 /\ cur'.R.pos = cur.R.pos + 1
    BY <2>1, HerePair
  <2>3. Matched(fn.L.code[cur.L.block], fn.R.code[cur.R.block], cur.L.pos, cur.R.pos, Waiting)
    BY <1>1, <1>2 DEF BlockInv
  <2>4. SameInstrs(Left, Right, Waiting \cup {<<Left, Right>>})
    BY <1>4 DEF SameInstrs
  <2>5. Matched(fn.L.code[cur.L.block], fn.R.code[cur.R.block], cur.L.pos, cur.R.pos, Waiting \cup {<<Left, Right>>})
    <3>1. \A i, j : SameInstrs(i, j, Waiting) => SameInstrs(i, j, Waiting \cup {<<Left, Right>>})
      BY DEF SameInstrs
    <3> QED
      BY <2>3, <3>1 DEF Matched
  <2>6. Matched(fn.L.code[cur.L.block], fn.R.code[cur.R.block], cur.L.pos + 1, cur.R.pos + 1, Waiting \cup {<<Left, Right>>})
    BY <2>4, <2>5, HerePair, MatchedPair
  <2>7. Matched(fn.L.code[cur.L.block], fn.R.code[cur.R.block], cur.L.pos, cur.R.pos, Waiting)'
    <3>1. \A i, j : <<i, j>> \in Waiting \cup {<<Left, Right>>} => <<i, j>> \in Waiting'
      BY <1>3
    <3> HIDE DEF Waiting
    <3> QED
      BY <1>2, <2>2, <2>6, <3>1, UnchangedMeaning, MatchedKept
  <2> QED
    BY <1>2, <1>3, <2>1, <2>2, <2>7, ToInstructions
<1> QED
  BY <1>5, <1>6

-----------------------------------------------------------------------------
(* From block to block. *)

LEMMA LastOfBlock ==
    ASSUME IInv, NEW s \in Side, This(s).op \in {"br", "ret"}
    PROVE  cur[s].pos = Len(fn[s].code[cur[s].block])
<1>1. cur[s].block \in BlocksOf(fn[s]) /\ cur[s].pos \in DOMAIN fn[s].code[cur[s].block] /\ WellFormed(fn[s])
  BY HereIsInstr DEF IInv, FunctionsInv, TypeOK
<1>2. \A b \in BlocksOf(fn[s]) : \A n \in DOMAIN fn[s].code[b] :
        fn[s].code[b][n].op \in {"br", "ret"} <=> n = Len(fn[s].code[b])
  BY <1>1 DEF WellFormed
<1> QED
  BY <1>1, <1>2 DEF This

LEMMA EndBlocksMatch == ASSUME IInv, EqualInv, EndBlocks PROVE EqualInv'
<1>1. BlockInv /\ SameInstrs(Left, Right, Waiting)
  BY BlockFacts, HereSame DEF EndBlocks, InBlock
<1>2. /\ UNCHANGED <<fn, todo, visited, verdict, inverse, phis, cur>> /\ at = "operands" /\ at' = "successors"
      /\ operand' = 1 /\ Left.op \in {"br", "ret"}
  BY DEF EndBlocks
<1>3. Waiting' = Waiting /\ Left' = Left
  BY <1>2 DEF Waiting, Left, This
<1>4. Matched(fn.L.code[cur.L.block], fn.R.code[cur.R.block], cur.L.pos + 1, cur.R.pos + 1, Waiting)
  BY <1>1, <1>2, HerePair, MatchedPair DEF BlockInv
<1>5. cur.L.pos = Len(fn.L.code[cur.L.block]) /\ cur.R.pos = Len(fn.R.code[cur.R.block])
  <2>1. Left.op = Right.op
    BY <1>1 DEF SameInstrs, Alike, SameShape
  <2> QED
    BY <1>2, <2>1, LastOfBlock DEF Left, Right, Side
<1>6. SameBlocks(cur.L.block, cur.R.block, Waiting)'
  BY <1>2, <1>3, <1>4, <1>5, UnchangedMeaning, MatchedKept DEF SameBlocks
<1>7. Inverted(inverse)'
  BY <1>1, <1>2, InvertedStay DEF Inverted, BlockInv
<1>8. \A k \in DOMAIN Left'.to : ~(k < 1)
  BY <1>3, HerePair DEF Instr
<1>9. BlockInv'
  BY <1>2, <1>6, <1>7, <1>8 DEF BlockInv, Inverted
<1> QED
  BY <1>2, <1>3, <1>9, InBlockEqual DEF InBlock

\* The last instruction of a block has its successors.
LEMMA SuccessorsHere ==
    ASSUME IInv, at = "successors"
    PROVE  /\ SuccsOf("L", cur.L.block) = Range(Left.to) /\ SuccsOf("R", cur.R.block) = Range(Right.to)
           /\ Left.to \in Seq(BlockNames) /\ Right.to \in Seq(BlockNames) /\ Len(Left.to) = Len(Right.to)
           /\ Range(Left.to) \subseteq BlocksOf(fn.L) /\ Range(Right.to) \subseteq BlocksOf(fn.R)
<1>1. Left.op \in {"br", "ret"} /\ SameShape(Left, Right)
  BY DEF IInv, WalkInv
<1>3. cur.L.pos = Len(fn.L.code[cur.L.block]) /\ cur.R.pos = Len(fn.R.code[cur.R.block])
  BY <1>1, LastOfBlock DEF SameShape, Left, Right, Side
<1>4. /\ Left.to \in Seq(BlockNames) /\ Right.to \in Seq(BlockNames)
      /\ Range(Left.to) \subseteq BlocksOf(fn.L) /\ Range(Right.to) \subseteq BlocksOf(fn.R)
  BY HereIsInstr, HerePair DEF IInv, Instr, Left, Right, Side
<1> QED
  BY <1>1, <1>3, <1>4, HerePair DEF SuccsOf, SameShape

\* The walk leaves the block.
LEMMA NoMoreSuccessorsMatch == ASSUME IInv, EqualInv, NoMoreSuccessors PROVE EqualInv'
<1>1. /\ UNCHANGED <<fn, todo, visited, verdict, inverse, phis, cur>> /\ at = "successors" /\ at' = "blocks"
      /\ operand > Len(Left.to)
  BY DEF NoMoreSuccessors
<1>2. BlockInv /\ Waiting' = Waiting
  BY <1>1, BlockFacts DEF InBlock, Waiting
<1>3. SameBlocks(cur.L.block, cur.R.block, Waiting) /\ SuccsOf("L", cur.L.block) \subseteq visited
  <2>1. \A k \in DOMAIN Left.to : k < operand
    BY <1>1, SuccessorsHere, HerePair
  <2> QED
    BY <1>1, <1>2, <2>1, SuccessorsHere DEF BlockInv, Range
<1>4. PICK partner \in [visited -> BlocksOf(fn.R)] : PartnersInv(partner)
  BY <1>1 DEF EqualInv, Walking, InBlock
<1>5. \A b : SameBlocks(b, partner[b], Waiting) => SameBlocks(b, partner[b], Waiting)'
  BY <1>1, <1>2, UnchangedMeaning, MatchedKept DEF SameBlocks
<1>6. \A b \in visited : \/ \E n \in DOMAIN todo : todo[n].L = b
                         \/ SameBlocks(b, partner[b], Waiting) /\ SuccsOf("L", b) \subseteq visited
  BY <1>1, <1>3, <1>4 DEF PartnersInv, InBlock
<1>7. PartnersInv(partner)'
  BY <1>1, <1>4, <1>5, <1>6 DEF PartnersInv, Follows, SuccsOf, BlocksOf, InBlock
<1>8. Inverted(inverse)'
  BY <1>1, <1>2, InvertedStay DEF Inverted, BlockInv
<1>9. BlockInv' /\ IncomingInv'
  BY <1>1, <1>8 DEF BlockInv, Inverted, IncomingInv
<1> QED
  BY <1>1, <1>4, <1>7, <1>9 DEF EqualInv, Walking, InBlock, EqualBlocksMatch

LEMMA CompareBlocksMatch == ASSUME IInv, EqualInv, CompareBlocks PROVE EqualInv'
<1> DEFINE pair == todo[Len(todo)]
<1>1. /\ UNCHANGED <<fn, visited, verdict, inverse, phis>> /\ at = "blocks" /\ at' = "instructions"
      /\ todo # <<>> /\ todo' = SubSeq(todo, 1, Len(todo) - 1)
      /\ cur' = [s \in Side |-> [block |-> pair[s], pos |-> 1]]
  BY DEF CompareBlocks
<1>2. todo \in Seq([Side -> BlockNames]) /\ Len(todo) \in DOMAIN todo
  BY <1>1, LastAndRest DEF IInv, TypeOK
<1>3. /\ \A n \in DOMAIN todo' : n \in DOMAIN todo /\ todo'[n] = todo[n]
      /\ \A n \in DOMAIN todo : n # Len(todo) => n \in DOMAIN todo' /\ todo'[n] = todo[n]
  BY <1>1, <1>2
<1>4. cur'.L.block = pair.L /\ cur'.R.block = pair.R /\ cur'.L.pos = 1 /\ cur'.R.pos = 1
  BY <1>1 DEF Side
<1> HIDE DEF pair
<1>5. BlockInv /\ Waiting' = Waiting /\ at \in Walking
  BY <1>1 DEF EqualInv, Waiting, Walking
<1>6. PICK partner \in [visited -> BlocksOf(fn.R)] : PartnersInv(partner)
  BY <1>5 DEF EqualInv
<1>7. \A b : SameBlocks(b, partner[b], Waiting) => SameBlocks(b, partner[b], Waiting)'
  BY <1>1, <1>5, UnchangedMeaning, MatchedKept DEF SameBlocks
<1>8. partner[pair.L] = pair.R
  BY <1>2, <1>6 DEF PartnersInv, pair
<1>9. ASSUME NEW b \in visited
      PROVE  \/ \E n \in DOMAIN todo' : todo'[n].L = b
             \/ b = cur'.L.block
             \/ SameBlocks(b, partner[b], Waiting)' /\ SuccsOf("L", b) \subseteq visited
  <2>1. CASE \E n \in DOMAIN todo : todo[n].L = b
    BY <1>3, <1>4, <2>1 DEF pair
  <2>2. CASE ~\E n \in DOMAIN todo : todo[n].L = b
    BY <1>1, <1>6, <1>7, <2>2 DEF PartnersInv, InBlock
  <2> QED
    BY <2>1, <2>2
<1>10. PartnersInv(partner)'
  <2>1. partner[cur'.L.block] = cur'.R.block
    BY <1>4, <1>8
  <2>2. \A n \in DOMAIN todo' : partner[todo'[n].L] = todo'[n].R
    BY <1>3, <1>6 DEF PartnersInv
  <2>3. \A b : SuccsOf("L", b)' = SuccsOf("L", b) /\ SuccsOf("R", b)' = SuccsOf("R", b)
    BY <1>1 DEF SuccsOf
  <2> QED
    BY <1>1, <1>6, <1>9, <2>1, <2>2, <2>3 DEF PartnersInv, Follows, BlocksOf, InBlock
<1>11. Matched(fn.L.code[cur.L.block], fn.R.code[cur.R.block], cur.L.pos, cur.R.pos, Waiting)'
  <2>1. fn.L.code[pair.L] \in Seq(Instr) /\ fn.R.code[pair.R] \in Seq(Instr)
    <3>1. pair \in [Side -> BlockNames] /\ fn \in [Side -> Function]
      BY <1>2 DEF IInv, TypeOK, pair
    <3> QED
      BY <3>1 DEF Function, Side
  <2>2. Matched(fn.L.code[pair.L], fn.R.code[pair.R], 1, 1, Waiting)
    BY <2>1, MatchedNone
  <2> QED
    BY <1>1, <1>4, <1>5, <2>2, UnchangedMeaning, MatchedKept
<1>12. Inverted(inverse)'
  BY <1>1, <1>5, InvertedStay DEF Inverted, BlockInv
<1>13. BlockInv' /\ IncomingInv'
  BY <1>1, <1>11, <1>12 DEF BlockInv, Inverted, IncomingInv
<1> QED
  BY <1>1, <1>5, <1>6, <1>10, <1>13 DEF EqualInv, Walking, InBlock, EqualBlocksMatch

LEMMA NextSuccessorsMatch == ASSUME IInv, EqualInv, NextSuccessors PROVE EqualInv'
<1> DEFINE b == Left.to[operand]
           c == Right.to[operand]
<1>1. /\ UNCHANGED <<fn, verdict, inverse, phis, cur>> /\ at = "successors" /\ at' = "successors"
      /\ operand <= Len(Left.to) /\ operand' = operand + 1
  BY DEF NextSuccessors
<1>2. BlockInv /\ Waiting' = Waiting /\ Left' = Left /\ at \in InBlock
  BY <1>1, BlockFacts DEF InBlock, Waiting, Left, This
<1>3. /\ b \in SuccsOf("L", cur.L.block) /\ c \in SuccsOf("R", cur.R.block)
      /\ b \in BlocksOf(fn.L) /\ c \in BlocksOf(fn.R)
  <2>1. operand \in DOMAIN Left.to /\ operand \in DOMAIN Right.to
    BY <1>1, SuccessorsHere, HerePair
  <2> QED
    BY <1>1, <2>1, SuccessorsHere DEF Range
<1>4. visited' = visited \cup {b}
  BY DEF NextSuccessors, Met
<1>5. BlockInv'
  <2>1. \A k \in DOMAIN Left.to : k < operand + 1 => k < operand \/ k = operand
    BY <1>1, SuccessorsHere, HerePair
  <2>2. \A k \in DOMAIN Left.to : k < operand + 1 => Left.to[k] \in visited'
    BY <1>1, <1>2, <1>4, <2>1 DEF BlockInv
  <2>3. SameBlocks(cur.L.block, cur.R.block, Waiting)'
    BY <1>1, <1>2, UnchangedMeaning, MatchedKept DEF SameBlocks, BlockInv
  <2>4. Inverted(inverse)'
    BY <1>1, <1>2, InvertedStay DEF Inverted, BlockInv
  <2> QED
    BY <1>1, <1>2, <2>2, <2>3, <2>4 DEF BlockInv, Inverted
<1>6. PICK old \in [visited -> BlocksOf(fn.R)] : PartnersInv(old)
  BY <1>2 DEF EqualInv, Walking
<1>7. CASE b \in visited /\ UNCHANGED <<todo, visited>>
  BY <1>1, <1>2, <1>5, <1>7, InBlockEqual
<1>8. CASE b \notin visited /\ todo' = Append(todo, [s \in Side |-> This(s).to[operand]])
  <2> DEFINE pair == [s \in Side |-> This(s).to[operand]]
  <2>1. PICK partner \in [visited' -> BlocksOf(fn'.R)] :
          partner[b] = c /\ \A x \in visited : partner[x] = old[x]
    <3> DEFINE new == [x \in visited' |-> IF x = b THEN c ELSE old[x]]
    <3>1. new \in [visited' -> BlocksOf(fn'.R)] /\ new[b] = c /\ \A x \in visited : new[x] = old[x]
      BY <1>1, <1>3, <1>4, <1>8
    <3> QED
      BY <3>1
  <2>2. pair \in [Side -> BlockNames] /\ pair.L = b /\ pair.R = c
    BY <1>3 DEF Side, Left, Right, BlocksOf
  <2> HIDE DEF pair, b, c
  <2>3. /\ DOMAIN todo' = DOMAIN todo \cup {Len(todo) + 1}
        /\ todo'[Len(todo) + 1] = pair
        /\ \A n \in DOMAIN todo : todo'[n] = todo[n]
    <3>1. todo \in Seq([Side -> BlockNames]) /\ todo' = Append(todo, pair)
      BY <1>8 DEF IInv, TypeOK, pair
    <3> QED
      BY <2>2, <3>1, Appended
  <2>4. cur.L.block \in visited /\ \A n \in DOMAIN todo : todo[n].L \in visited
    BY <1>1 DEF IInv, OncePerBlock
  <2>5. \A x : SuccsOf("L", x)' = SuccsOf("L", x) /\ SuccsOf("R", x)' = SuccsOf("R", x)
    BY <1>1 DEF SuccsOf
  <2>6. visited \subseteq BlocksOf(fn.L) /\ old[cur.L.block] = cur.R.block
    BY <1>2, <1>6 DEF PartnersInv
  <2>7. \A n \in DOMAIN todo' : partner[todo'[n].L] = todo'[n].R
    BY <1>6, <2>1, <2>2, <2>3, <2>4 DEF PartnersInv
  <2>8. ASSUME NEW x \in visited' \ {fn.L.entry}
        PROVE  Follows(partner, visited, x)'
    <3>1. CASE x = b
      BY <1>3, <1>4, <2>1, <2>4, <2>5, <2>6, <3>1 DEF Follows
    <3>2. CASE x # b
      <4>1. x \in visited /\ Follows(old, visited, x)
        BY <1>4, <1>6, <2>8, <3>2 DEF PartnersInv
      <4> QED
        BY <1>4, <2>1, <2>5, <4>1 DEF Follows
    <3> QED
      BY <3>1, <3>2
  <2>9. ASSUME NEW x \in visited'
        PROVE  \/ \E n \in DOMAIN todo' : todo'[n].L = x
               \/ x = cur.L.block
               \/ SameBlocks(x, partner[x], Waiting)' /\ SuccsOf("L", x)' \subseteq visited'
    <3>1. CASE x = b
      BY <2>2, <2>3, <3>1
    <3>2. CASE x # b
      <4>1. x \in visited /\ partner[x] = old[x]
        BY <1>4, <2>1, <3>2
      <4>2. \/ \E n \in DOMAIN todo : todo[n].L = x
            \/ x = cur.L.block
            \/ SameBlocks(x, old[x], Waiting) /\ SuccsOf("L", x) \subseteq visited
        BY <1>6, <4>1 DEF PartnersInv
      <4>3. SameBlocks(x, old[x], Waiting) => SameBlocks(x, old[x], Waiting)'
        BY <1>1, <1>2, UnchangedMeaning, MatchedKept DEF SameBlocks
      <4> QED
        BY <1>4, <2>3, <2>5, <4>1, <4>2, <4>3
    <3> QED
      BY <3>1, <3>2
  <2>10. PartnersInv(partner)'
    <3>1. visited' \subseteq BlocksOf(fn.L) /\ fn.L.entry \in visited' /\ partner[fn.L.entry] = fn.R.entry
      BY <1>3, <1>4, <1>6, <2>1, <2>6 DEF PartnersInv
    <3>2. partner[cur.L.block] = cur.R.block
      BY <2>1, <2>4, <2>6
    <3> QED
      BY <1>1, <1>2, <2>1, <2>7, <2>8, <2>9, <3>1, <3>2 DEF PartnersInv
  <2> QED
    BY <1>1, <1>5, <2>1, <2>10 DEF EqualInv, Walking, InBlock, EqualBlocksMatch, IncomingInv
<1> QED
  BY <1>7, <1>8 DEF NextSuccessors

\* A function but for the order of successors.
SameButOrder(j, i) ==
    \/ j = i
    \/ /\ i.op = "br" /\ j.op = "br" /\ j.name = i.name /\ j.kind = i.kind /\ j.args = i.args
       /\ Len(j.to) = Len(i.to) /\ Range(j.to) = Range(i.to)

LEMMA SwappedOrder ==
    ASSUME NEW f \in Function, WellFormed(f),
           NEW c \in [block : BlockNames, pos : Nat \ {0}], c.pos \in DOMAIN f.code[c.block],
           Conditional(f.code[c.block][c.pos])
    PROVE  \A b \in BlockNames :
              /\ Len(Swapped(f, c).code[b]) = Len(f.code[b]) /\ DOMAIN Swapped(f, c).code[b] = DOMAIN f.code[b]
              /\ \A n \in DOMAIN f.code[b] : SameButOrder(Swapped(f, c).code[b][n], f.code[b][n])
<1> DEFINE i == f.code[c.block][c.pos]
           g == Swapped(f, c)
           j == [i EXCEPT !.to = <<@[2], @[1]>>]
<1>1. i \in Instr /\ Shaped(i) /\ Conditional(i)
  BY PlaceIsInstr
<1>2. SameButOrder(j, i) /\ j \in Instr
  <2> HIDE DEF i
  <2>1. j.name = i.name /\ j.op = i.op /\ j.kind = i.kind /\ j.args = i.args /\ j.to = <<i.to[2], i.to[1]>>
    BY <1>1 DEF Instr
  <2>2. i.op = "br" /\ Len(i.to) = 2 /\ i.to \in Seq(BlockNames)
    BY <1>1, TwoSuccessors
  <2>3. Range(i.to) = {i.to[1], i.to[2]} /\ Range(j.to) = {i.to[1], i.to[2]} /\ Len(j.to) = 2
    BY <2>1, <2>2 DEF Range
  <2>4. j \in Instr
    BY <1>1, SwappedBranch
  <2> QED
    BY <2>1, <2>2, <2>3, <2>4 DEF SameButOrder
<1>3. g.code = [f.code EXCEPT ![c.block] = [@ EXCEPT ![c.pos] = j]]
  <2> DEFINE code == [f.code EXCEPT ![c.block] = [@ EXCEPT ![c.pos] = j]]
  <2>1. g = [f EXCEPT !.code = code]
    BY DEF Swapped
  <2> HIDE DEF code, g
  <2> QED
    BY <2>1 DEF Function, code
<1> HIDE DEF g, i, j
<1>4. \A b \in BlockNames : /\ Len(g.code[b]) = Len(f.code[b]) /\ DOMAIN g.code[b] = DOMAIN f.code[b]
                            /\ \A n \in DOMAIN f.code[b] :
                                  g.code[b][n] = IF b = c.block /\ n = c.pos THEN j ELSE f.code[b][n]
  BY <1>2, <1>3 DEF Function
<1> QED
  BY <1>2, <1>4 DEF SameButOrder, g, i

\* Exchanging successors changes nothing else.
LEMMA SwappedMeaning ==
    ASSUME IInv, BranchesInverse
    PROVE  /\ MeaningKept
           /\ fn'.L = fn.L /\ fn'.R.args = fn.R.args /\ fn'.R.entry = fn.R.entry /\ BlocksOf(fn'.R) = BlocksOf(fn.R)
           /\ \A y \in InstrsOf(fn.R) : y \in InstrsOf(fn'.R) \/ y.op = "br"
           /\ \A c \in BlockNames :
                /\ Len(fn'.R.code[c]) = Len(fn.R.code[c]) /\ DOMAIN fn'.R.code[c] = DOMAIN fn.R.code[c]
                /\ \A n \in DOMAIN fn.R.code[c] : SameButOrder(fn'.R.code[c][n], fn.R.code[c][n])
<1> DEFINE g == Swapped(fn.R, cur.R)
<1>1. /\ fn.R \in Function /\ WellFormed(fn.R)
      /\ cur.R \in [block : BlockNames, pos : Nat \ {0}] /\ cur.R.pos \in DOMAIN fn.R.code[cur.R.block]
      /\ Conditional(fn.R.code[cur.R.block][cur.R.pos])
  BY HerePair DEF IInv, TypeOK, FunctionsInv, Side, BranchesInverse, InverseBranches
<1>2. fn'.L = fn.L /\ fn'.R = g
  BY DEF BranchesInverse, IInv, TypeOK, Side
<1>3. /\ Replaces(g, fn.R)
      /\ \A i \in InstrsOf(g) : i \in InstrsOf(fn.R) \/ i.op = "br"
      /\ \A i \in InstrsOf(fn.R) : i \in InstrsOf(g) \/ i.op = "br"
  BY <1>1, SwappedReplaces
<1>4. \A c \in BlockNames :
        /\ Len(g.code[c]) = Len(fn.R.code[c]) /\ DOMAIN g.code[c] = DOMAIN fn.R.code[c]
        /\ \A n \in DOMAIN fn.R.code[c] : SameButOrder(g.code[c][n], fn.R.code[c][n])
  BY <1>1, SwappedOrder
<1> HIDE DEF g
<1>5. BlocksOf(g) = BlocksOf(fn.R) /\ g.args = fn.R.args /\ g.entry = fn.R.entry
  BY <1>1, <1>3, ReplacedWellFormed DEF Replaces
<1>6. ASSUME NEW v
      PROVE  Uncast("R", v)' = Uncast("R", v)
  <2> DEFINE Is(i) == i.name = v /\ i.op = "cast"
  <2>1. (\E i \in InstrsOf(g) : Is(i)) <=> (\E i \in InstrsOf(fn.R) : Is(i))
    BY <1>3
  <2>2. CASE \E i \in InstrsOf(fn.R) : Is(i)
    <3> DEFINE x == CHOOSE i \in InstrsOf(fn.R) : Is(i)
               y == CHOOSE i \in InstrsOf(g) : Is(i)
    <3>1. x \in InstrsOf(fn.R) /\ Is(x)
      BY <2>2
    <3>2. y \in InstrsOf(g) /\ Is(y)
      BY <2>1, <2>2
    <3>3. Uncast("R", v) = x.args[1] /\ Uncast("R", v)' = y.args[1]
      BY <1>2, <2>1, <2>2 DEF Uncast
    <3> HIDE DEF x, y
    <3>4. y \in InstrsOf(fn.R)
      BY <1>3, <3>2
    <3>5. x = y
      BY <1>1, <3>1, <3>2, <3>4, NamedOnce
    <3> QED
      BY <3>3, <3>5
  <2>3. CASE ~\E i \in InstrsOf(fn.R) : Is(i)
    BY <1>2, <2>1, <2>3 DEF Uncast
  <2> QED
    BY <2>2, <2>3
<1>7. \A v : Uncast("L", v)' = Uncast("L", v)
  BY <1>2 DEF Uncast
<1>8. ASSUME NEW i, NEW j, InverseComparisons(i, j)
      PROVE  InverseComparisons(i, j)'
  <2>1. \A u \in UsersOf("L", i.name)' : u.op = "br"
    BY <1>2, <1>8 DEF UsersOf, InverseComparisons, Side
  <2>2. \A u \in UsersOf("R", j.name)' : u.op = "br"
    BY <1>2, <1>3, <1>8 DEF UsersOf, InverseComparisons, Side
  <2> QED
    BY <1>8, <2>1, <2>2 DEF InverseComparisons, Side
<1>9. ASSUME NEW i, NEW j, DecidedInversely(i, j)
      PROVE  DecidedInversely(i, j)'
  <2>1. PICK x \in InstrsOf(fn.L), y \in InstrsOf(fn.R) :
          x.name = i.args[1] /\ y.name = j.args[1] /\ InverseComparisons(x, y)
    BY <1>9 DEF DecidedInversely
  <2>2. y \in InstrsOf(fn'.R) /\ x \in InstrsOf(fn'.L)
    BY <1>2, <1>3, <2>1 DEF InverseComparisons
  <2> QED
    BY <1>8, <1>9, <2>1, <2>2 DEF DecidedInversely
<1>10. MeaningKept
  BY <1>6, <1>7, <1>8, <1>9 DEF MeaningKept, Side
<1> QED
  BY <1>2, <1>3, <1>4, <1>5, <1>10

\* The order of successors does not matter.
LEMMA OrderIgnored ==
    ASSUME NEW i, NEW j, NEW k, NEW w, SameInstrs(i, j, w), SameButOrder(k, j)
    PROVE  SameInstrs(i, k, w)
<1>1. CASE k = j
  BY <1>1
<1>2. CASE /\ j.op = "br" /\ k.op = "br" /\ k.name = j.name /\ k.kind = j.kind /\ k.args = j.args
           /\ Len(k.to) = Len(j.to)
  <2>1. i.op = "br" /\ SameShape(i, k)
    BY <1>2 DEF SameInstrs, Alike, SameShape
  <2>2. Alike(i, k)
    BY <1>2, <2>1 DEF SameInstrs, Alike, InverseComparisons, DecidedInversely, Conditional
  <2>3. OperandsAgree(i, k, Len(i.args) + 1)
    BY <1>2, <2>1 DEF SameInstrs, OperandsAgree
  <2> QED
    BY <2>1, <2>2, <2>3 DEF SameInstrs
<1> QED
  BY <1>1, <1>2 DEF SameButOrder

LEMMA MatchedOrder ==
    ASSUME NEW l, NEW r, NEW p, NEW q, NEW w, Matched(l, r, p, q, w),
           NEW x, DOMAIN x = DOMAIN r, \A n \in DOMAIN r : SameButOrder(x[n], r[n])
    PROVE  Matched(l, x, p, q, w)
<1>1. PICK pairs \in SUBSET ((DOMAIN l) \X (DOMAIN r)) :
        /\ \A y \in pairs : y[1] < p /\ y[2] < q /\ SameInstrs(l[y[1]], r[y[2]], w)
        /\ \A y, z \in pairs : y[1] < z[1] <=> y[2] < z[2]
        /\ \A n \in DOMAIN l : n < p /\ ~MayIgnore(l[n]) => \E y \in pairs : y[1] = n
        /\ \A n \in DOMAIN r : n < q /\ ~MayIgnore(r[n]) => \E y \in pairs : y[2] = n
  BY DEF Matched
<1>2. \A y \in pairs : y[2] \in DOMAIN r
  BY <1>1
<1>3. \A y \in pairs : SameInstrs(l[y[1]], x[y[2]], w)
  BY <1>1, <1>2, OrderIgnored
<1>4. \A n \in DOMAIN r : MayIgnore(x[n]) <=> MayIgnore(r[n])
  BY DEF SameButOrder, MayIgnore
<1> QED
  BY <1>1, <1>3, <1>4 DEF Matched

LEMMA BranchesInverseMatch == ASSUME IInv, EqualInv, BranchesInverse PROVE EqualInv'
<1>1. /\ at = "instructions" /\ at' = "operands" /\ operand' = 1
      /\ UNCHANGED <<cur, todo, visited, inverse, phis, verdict>>
      /\ InverseBranches(Left, Right)
  BY DEF BranchesInverse, CompareInstructions
<1>2. /\ MeaningKept
      /\ fn'.L = fn.L /\ fn'.R.args = fn.R.args /\ fn'.R.entry = fn.R.entry /\ BlocksOf(fn'.R) = BlocksOf(fn.R)
      /\ \A y \in InstrsOf(fn.R) : y \in InstrsOf(fn'.R) \/ y.op = "br"
      /\ \A c \in BlockNames :
           /\ Len(fn'.R.code[c]) = Len(fn.R.code[c]) /\ DOMAIN fn'.R.code[c] = DOMAIN fn.R.code[c]
           /\ \A n \in DOMAIN fn.R.code[c] : SameButOrder(fn'.R.code[c][n], fn.R.code[c][n])
  BY SwappedMeaning
<1>3. BlockInv /\ Waiting' = Waiting /\ at \in Walking
  BY <1>1, BlockFacts DEF InBlock, Waiting, Walking
<1>4. ASSUME NEW c \in BlockNames, NEW l, NEW p, NEW q, Matched(l, fn.R.code[c], p, q, Waiting)
      PROVE  Matched(l, fn'.R.code[c], p, q, Waiting)
  BY <1>2, <1>4, MatchedOrder
<1>5. PICK partner \in [visited -> BlocksOf(fn.R)] : PartnersInv(partner)
  BY <1>3 DEF EqualInv
<1>6. \A b \in visited : SameBlocks(b, partner[b], Waiting) => SameBlocks(b, partner[b], Waiting)'
  <2> SUFFICES ASSUME NEW b \in visited, SameBlocks(b, partner[b], Waiting)
               PROVE  SameBlocks(b, partner[b], Waiting)'
    OBVIOUS
  <2>1. partner[b] \in BlockNames
    BY <1>5 DEF BlocksOf
  <2>2. Matched(fn'.L.code[b], fn'.R.code[partner[b]], Len(fn'.L.code[b]) + 1, Len(fn'.R.code[partner[b]]) + 1, Waiting)
    BY <1>2, <1>4, <2>1 DEF SameBlocks
  <2> QED
    BY <1>2, <1>3, <2>2, MatchedKept DEF SameBlocks
<1>7. \A b : SuccsOf("L", b)' = SuccsOf("L", b)
  BY <1>2 DEF SuccsOf
<1>8. \A c \in BlocksOf(fn.R) : SuccsOf("R", c)' = SuccsOf("R", c)
  <2> SUFFICES ASSUME NEW c \in BlocksOf(fn.R)
               PROVE  Range(fn'.R.code[c][Len(fn'.R.code[c])].to) = Range(fn.R.code[c][Len(fn.R.code[c])].to)
    BY DEF SuccsOf
  <2>1. c \in BlockNames /\ fn.R.code[c] \in Seq(Instr) /\ fn.R.code[c] # <<>>
    BY DEF IInv, TypeOK, Side, Function, BlocksOf
  <2>2. Len(fn.R.code[c]) \in DOMAIN fn.R.code[c]
    BY <2>1
  <2>3. SameButOrder(fn'.R.code[c][Len(fn.R.code[c])], fn.R.code[c][Len(fn.R.code[c])])
    BY <1>2, <2>1, <2>2
  <2> QED
    BY <1>2, <2>1, <2>3 DEF SameButOrder
<1>9. PartnersInv(partner)'
  <2>1. \A b \in visited \ {fn.L.entry} : Follows(partner, visited, b)'
    BY <1>1, <1>5, <1>7, <1>8 DEF PartnersInv, Follows
  <2>2. BlocksOf(fn'.L) = BlocksOf(fn.L)
    BY <1>2
  <2> QED
    BY <1>1, <1>2, <1>5, <1>6, <1>7, <2>1, <2>2 DEF PartnersInv, InBlock
<1>10. Left' = Left /\ SameButOrder(Right', Right)
  <2>1. cur.R.block \in BlockNames /\ cur.R.pos \in DOMAIN fn.R.code[cur.R.block]
    BY HerePair DEF IInv, TypeOK, Side
  <2> QED
    BY <1>1, <1>2, <2>1 DEF Left, Right, This
<1>11. Alike(Left, Right)' /\ Left.op = "br" /\ DOMAIN Left.args \subseteq Nat \ {0}
  <2>1. /\ Conditional(Left) /\ Conditional(Right) /\ SameShape(Left, Right) /\ Left.op = "br"
        /\ Left.args \in Seq(Values) /\ <<Left.args[1], Right.args[1]>> \in inverse
    BY <1>1, HerePair, TwoSuccessors DEF InverseBranches, SameShape
  <2>2. DecidedInversely(Left, Right)
    BY <1>3, <2>1 DEF BlockInv, DecidedInversely
  <2>3. Alike(Left, Right')
    BY <1>10, <2>1, <2>2 DEF Alike, SameShape, SameButOrder, DecidedInversely, Conditional
  <2> QED
    BY <1>2, <1>10, <2>1, <2>3, AlikeKept
<1>12. BlockInv'
  <2>1. Matched(fn.L.code[cur.L.block], fn'.R.code[cur.R.block], cur.L.pos, cur.R.pos, Waiting)
    BY <1>1, <1>3, <1>4 DEF BlockInv, IInv, TypeOK, Side
  <2>2. Matched(fn.L.code[cur.L.block], fn.R.code[cur.R.block], cur.L.pos, cur.R.pos, Waiting)'
    BY <1>1, <1>2, <1>3, <2>1, MatchedKept
  <2>3. OperandsAgree(Left, Right, operand)'
    BY <1>1, <1>10, <1>11 DEF OperandsAgree
  <2>4. Inverted(inverse)'
    <3>1. ASSUME NEW x \in inverse
          PROVE  \E i \in InstrsOf(fn'.L), j \in InstrsOf(fn'.R) : x = <<i.name, j.name>> /\ InverseComparisons(i, j)'
      <4>1. PICK i \in InstrsOf(fn.L), j \in InstrsOf(fn.R) : x = <<i.name, j.name>> /\ InverseComparisons(i, j)
        BY <1>3 DEF BlockInv
      <4>2. i \in InstrsOf(fn'.L) /\ j \in InstrsOf(fn'.R)
        BY <1>2, <4>1 DEF InverseComparisons
      <4> QED
        BY <1>2, <4>1, <4>2 DEF MeaningKept
    <3> QED
      BY <1>1, <3>1 DEF Inverted
  <2> QED
    BY <1>1, <1>10, <1>11, <2>2, <2>3, <2>4 DEF BlockInv, Inverted
<1> QED
  BY <1>1, <1>2, <1>3, <1>5, <1>9, <1>12 DEF EqualInv, Walking, IncomingInv, EqualBlocksMatch

-----------------------------------------------------------------------------
(* The beginning and the end. *)

\* The comparison has not found the functions equal, or not yet.
LEMMA NotFoundEqual ==
    ASSUME at' \notin Walking, verdict' # "equal", at' = "start" => inverse' = {}
    PROVE  EqualInv'
  BY DEF EqualInv, EqualBlocksMatch

LEMMA DifferMatch == ASSUME IInv, EqualInv, SignaturesDiffer \/ Differ PROVE EqualInv'
  BY NotFoundEqual DEF SignaturesDiffer, Differ, Result, Walking, InBlock

LEMMA InlineMatch == ASSUME IInv, EqualInv, Inline PROVE EqualInv'
  BY NotFoundEqual DEF Inline, Fresh, Walking, InBlock

LEMMA FoundEqualStays ==
    ASSUME EqualBlocksMatch, UNCHANGED <<fn, verdict>>
    PROVE  EqualBlocksMatch'
<1>1. \A l, r, p, q : Matched(l, r, p, q, {}) => Matched(l, r, p, q, {})'
  BY UnchangedMeaning, MatchedKept
<1>2. \A b, c : SameBlocks(b, c, {}) => SameBlocks(b, c, {})'
  BY <1>1 DEF SameBlocks
<1>3. \A x, S, b : Follows(x, S, b) => Follows(x, S, b)'
  BY DEF Follows, SuccsOf
<1>4. \A b : SuccsOf("L", b)' = SuccsOf("L", b)
  BY DEF SuccsOf
<1>5. CASE verdict = "equal"
  <2>1. PICK S \in SUBSET BlocksOf(fn.L) : \E partner \in [S -> BlocksOf(fn.R)] :
            /\ fn.L.entry \in S /\ partner[fn.L.entry] = fn.R.entry
            /\ \A b \in S : SameBlocks(b, partner[b], {}) /\ SuccsOf("L", b) \subseteq S
            /\ \A b \in S \ {fn.L.entry} : Follows(partner, S, b)
    BY <1>5 DEF EqualBlocksMatch
  <2>2. PICK partner \in [S -> BlocksOf(fn.R)] :
            /\ fn.L.entry \in S /\ partner[fn.L.entry] = fn.R.entry
            /\ \A b \in S : SameBlocks(b, partner[b], {}) /\ SuccsOf("L", b) \subseteq S
            /\ \A b \in S \ {fn.L.entry} : Follows(partner, S, b)
    BY <2>1
  <2>3. S \in SUBSET BlocksOf(fn'.L) /\ partner \in [S -> BlocksOf(fn'.R)] /\ Len(fn'.L.args) = Len(fn'.R.args)
    BY <1>5, <2>1, <2>2 DEF EqualBlocksMatch
  <2>4. /\ fn'.L.entry \in S /\ partner[fn'.L.entry] = fn'.R.entry
        /\ \A b \in S : SameBlocks(b, partner[b], {})' /\ SuccsOf("L", b)' \subseteq S
        /\ \A b \in S \ {fn'.L.entry} : Follows(partner, S, b)'
    BY <1>2, <1>3, <1>4, <2>2
  <2> QED
    BY <2>3, <2>4 DEF EqualBlocksMatch
<1>6. CASE verdict # "equal"
  BY <1>6 DEF EqualBlocksMatch
<1> QED
  BY <1>5, <1>6

LEMMA NothingToInlineMatch == ASSUME IInv, EqualInv, NothingToInline PROVE EqualInv'
  BY FoundEqualStays DEF NothingToInline, EqualInv, Walking, InBlock

LEMMA UnchangedMatch == ASSUME EqualInv, UNCHANGED vars PROVE EqualInv'
<1>1. UNCHANGED <<fn, cur, todo, visited, phis, at, operand, matched, inverse, verdict>>
  BY DEF vars
<1>2. EqualBlocksMatch'
  BY <1>1, FoundEqualStays DEF EqualInv
<1>3. CASE at \in Walking
  <2>1. Waiting' = Waiting
    BY <1>1 DEF Waiting
  <2>2. PICK partner \in [visited -> BlocksOf(fn.R)] : PartnersInv(partner)
    BY <1>3 DEF EqualInv
  <2>3. \A l, r, p, q : Matched(l, r, p, q, Waiting) => Matched(l, r, p, q, Waiting)'
    BY <1>1, <2>1, UnchangedMeaning, MatchedKept
  <2>4. \A b, c : SameBlocks(b, c, Waiting) => SameBlocks(b, c, Waiting)'
    BY <1>1, <2>1, <2>3 DEF SameBlocks
  <2>5. PartnersInv(partner)'
    BY <1>1, <2>1, <2>2, <2>4 DEF PartnersInv, Follows, SuccsOf, BlocksOf
  <2>6. BlockInv'
    <3>1. BlockInv /\ Left' = Left /\ Right' = Right
      BY <1>1, <1>3 DEF EqualInv, Left, Right, This
    <3>2. at = "operands" => Alike(Left, Right)' /\ (Left.op # "phi" => OperandsAgree(Left, Right, operand)')
      BY <1>1, <3>1, UnchangedMeaning, AlikeKept, OperandsKept DEF BlockInv
    <3>3. Inverted(inverse)'
      BY <1>1, <3>1, InvertedStay DEF Inverted, BlockInv
    <3> QED
      BY <1>1, <2>1, <2>3, <2>4, <3>1, <3>2, <3>3 DEF BlockInv, Inverted
  <2>7. IncomingInv'
    BY <1>1, <1>3, UnchangedMeaning, AgreeKept DEF EqualInv, IncomingInv
  <2> QED
    BY <1>1, <1>2, <1>3, <2>2, <2>5, <2>6, <2>7 DEF EqualInv
<1>4. CASE at \notin Walking
  BY <1>1, <1>2, <1>4 DEF EqualInv
<1> QED
  BY <1>3, <1>4

LEMMA CompareSignatureMatch == ASSUME IInv, EqualInv, CompareSignature PROVE EqualInv'
<1> DEFINE pair == [s \in Side |-> fn[s].entry]
<1>1. /\ at = "start" /\ at' = "blocks" /\ Len(fn.L.args) = Len(fn.R.args) /\ todo' = <<pair>>
      /\ visited' = {fn.L.entry} /\ UNCHANGED <<fn, inverse, verdict>>
  BY DEF CompareSignature
<1>2. inverse' = {} /\ verdict' # "equal"
  BY <1>1 DEF EqualInv
<1>3. fn.L.entry \in BlocksOf(fn.L) /\ fn.R.entry \in BlocksOf(fn.R)
  BY DEF IInv, FunctionsInv, WellFormed, Side
<1>4. PICK partner \in [visited' -> BlocksOf(fn'.R)] : partner[fn.L.entry] = fn.R.entry
  <2> DEFINE new == [b \in visited' |-> fn.R.entry]
  <2>1. new \in [visited' -> BlocksOf(fn'.R)] /\ new[fn.L.entry] = fn.R.entry
    BY <1>1, <1>3
  <2> QED
    BY <2>1
<1>5. pair.L = fn.L.entry /\ pair.R = fn.R.entry
  BY DEF Side
<1> HIDE DEF pair
<1>6. DOMAIN todo' = {1} /\ todo'[1] = pair
  BY <1>1
<1>7. PartnersInv(partner)'
  BY <1>1, <1>3, <1>4, <1>5, <1>6 DEF PartnersInv, InBlock
<1> QED
  BY <1>1, <1>2, <1>4, <1>7 DEF EqualInv, Walking, InBlock, BlockInv, IncomingInv, EqualBlocksMatch

-----------------------------------------------------------------------------
(* PHI instructions at the end. *)

\* Nothing has been compared of the first ones.
LEMMA IncomingAtStart ==
    ASSUME operand' = 1, todo' = <<>>, phis' \in Seq([Side -> Instr]),
           \A n \in DOMAIN phis' : \A s \in Side : phis'[n][s].op = "phi" /\ Shaped(phis'[n][s])
    PROVE  IncomingInv'
<1> SUFFICES ASSUME phis' # <<>>
             PROVE  /\ \A k \in DOMAIN Head(phis').L.args : ~(k < ((1 - 1) \div Len(Head(phis').R.to)) + 1)
                    /\ ~(((1 - 1) % Len(Head(phis').R.to)) + 1 > 1)
  BY DEF IncomingInv
<1> DEFINE m == Len(Head(phis').R.to)
           args == Head(phis').L.args
<1>1. m \in Nat \ {0} /\ args \in Seq(Values)
  BY WaitingPhis DEF Side
<1> HIDE DEF m, args
<1>2. 0 \div m = 0 /\ 0 % m = 0
  BY <1>1, SMT
<1>3. \A k \in DOMAIN args : ~(k < ((1 - 1) \div m) + 1)
  BY <1>1, <1>2
<1>4. ~(((1 - 1) % m) + 1 > 1)
  BY <1>2
<1> QED
  BY <1>3, <1>4 DEF m, args

\* Partners stay what they are while PHI instructions are compared.
LEMMA PartnersAtEnd ==
    ASSUME UNCHANGED <<fn, todo, visited>>, at \notin InBlock, at' \notin InBlock,
           \A i, j : <<i, j>> \in Waiting => <<i, j>> \in Waiting' \/ IncomingAgree(i, j),
           NEW partner, PartnersInv(partner)
    PROVE  PartnersInv(partner)'
<1>1. \A l, r, p, q : Matched(l, r, p, q, Waiting) => Matched(l, r, p, q, Waiting)'
  <2> HIDE DEF Waiting
  <2> QED
    BY UnchangedMeaning, MatchedKept
<1>2. \A b, c : SameBlocks(b, c, Waiting) => SameBlocks(b, c, Waiting)'
  BY <1>1 DEF SameBlocks
<1> QED
  BY <1>2 DEF PartnersInv, Follows, SuccsOf, BlocksOf

LEMMA BlocksEqualMatch == ASSUME IInv, EqualInv, BlocksEqual PROVE EqualInv'
<1>1. /\ UNCHANGED <<fn, todo, visited, verdict, inverse, phis, cur>> /\ at = "blocks" /\ at' = "phis"
      /\ operand' = 1 /\ todo = <<>>
  BY DEF BlocksEqual
<1>2. Waiting' = Waiting /\ BlockInv
  BY <1>1 DEF Waiting, EqualInv, Walking
<1>3. PICK partner \in [visited -> BlocksOf(fn.R)] : PartnersInv(partner)
  BY <1>1 DEF EqualInv, Walking
<1>4. PartnersInv(partner)'
  BY <1>1, <1>2, <1>3, PartnersAtEnd DEF InBlock
<1>5. IncomingInv'
  BY <1>1, IncomingAtStart, PhisOfIInv
<1>6. Inverted(inverse)'
  BY <1>1, <1>2, InvertedStay DEF Inverted, BlockInv
<1>7. BlockInv'
  BY <1>1, <1>6 DEF BlockInv, Inverted
<1> QED
  BY <1>1, <1>3, <1>4, <1>5, <1>7 DEF EqualInv, Walking, EqualBlocksMatch

LEMMA AllEqualMatch == ASSUME IInv, EqualInv, AllEqual PROVE EqualInv'
<1>1. /\ UNCHANGED <<fn, todo, visited>> /\ at = "phis" /\ at' \in {"inline", "end"} /\ phis = <<>>
  BY DEF AllEqual, Result
<1>2. Waiting = {} /\ todo = <<>> /\ Len(fn.L.args) = Len(fn.R.args)
  BY <1>1 DEF Waiting, EqualInv, Walking, IncomingInv
<1>3. PICK partner \in [visited -> BlocksOf(fn.R)] : PartnersInv(partner)
  BY <1>1 DEF EqualInv, Walking
<1>4. /\ visited \in SUBSET BlocksOf(fn.L)
      /\ fn.L.entry \in visited /\ partner[fn.L.entry] = fn.R.entry
      /\ \A b \in visited : SameBlocks(b, partner[b], {}) /\ SuccsOf("L", b) \subseteq visited
      /\ \A b \in visited \ {fn.L.entry} : Follows(partner, visited, b)
  BY <1>1, <1>2, <1>3 DEF PartnersInv, InBlock
<1>5. \A l, r, p, q : Matched(l, r, p, q, {}) => Matched(l, r, p, q, {})'
  BY <1>1, UnchangedMeaning, MatchedKept
<1>6. \A b, c : SameBlocks(b, c, {}) => SameBlocks(b, c, {})'
  BY <1>1, <1>5 DEF SameBlocks
<1>7. \A b : SuccsOf("L", b)' = SuccsOf("L", b) /\ SuccsOf("R", b)' = SuccsOf("R", b)
  BY <1>1 DEF SuccsOf
<1>8. \A b : Follows(partner, visited, b) => Follows(partner, visited, b)'
  BY <1>1, <1>7 DEF Follows
<1>9. /\ visited \in SUBSET BlocksOf(fn'.L) /\ partner \in [visited -> BlocksOf(fn'.R)]
      /\ Len(fn'.L.args) = Len(fn'.R.args)
      /\ fn'.L.entry \in visited /\ partner[fn'.L.entry] = fn'.R.entry
  BY <1>1, <1>2, <1>3, <1>4
<1>10. /\ \A b \in visited : SameBlocks(b, partner[b], {})' /\ SuccsOf("L", b)' \subseteq visited
       /\ \A b \in visited \ {fn'.L.entry} : Follows(partner, visited, b)'
  BY <1>1, <1>4, <1>6, <1>7, <1>8
<1>11. EqualBlocksMatch'
  BY <1>1, <1>9, <1>10 DEF EqualBlocksMatch
<1> QED
  BY <1>1, <1>11 DEF EqualInv, Walking, InBlock

LEMMA NextRemainder ==
    ASSUME NEW o \in Nat, NEW m \in Nat \ {0}
    PROVE  (o + 1) % m = IF (o % m) + 1 < m THEN (o % m) + 1 ELSE 0
<1> DEFINE q == o \div m
           r == o % m
           p == (o + 1) \div m
           s == (o + 1) % m
<1>1. q \in Nat /\ r \in 0 .. m - 1 /\ o = m * q + r
  BY WithRemainder
<1>2. p \in Nat /\ s \in 0 .. m - 1 /\ o + 1 = m * p + s
  <2>1. o + 1 \in Nat
    OBVIOUS
  <2> QED
    BY <2>1, WithRemainder
<1>3. p = IF r + 1 < m THEN q ELSE q + 1
  BY NextQuotient
<1> HIDE DEF p, q, r, s
<1>4. CASE r + 1 < m
  <2>1. s = r + 1
    BY <1>1, <1>2, <1>3, <1>4, SMT
  <2> QED
    BY <1>4, <2>1 DEF r, s
<1>5. CASE ~(r + 1 < m)
  <2>1. r + 1 = m /\ p = q + 1
    BY <1>1, <1>3, <1>5
  <2>2. m * p = m * q + m
    BY <1>1, <2>1, SMT
  <2>3. s = 0
    BY <1>1, <1>2, <2>1, <2>2
  <2> QED
    BY <1>5, <2>3 DEF r, s
<1> QED
  BY <1>4, <1>5 DEF r, s

LEMMA ComparePhisMatch == ASSUME IInv, EqualInv, ComparePhis PROVE EqualInv'
<1> DEFINE l == Head(phis).L
           r == Head(phis).R
           m == Len(r.to)
           i == ((operand - 1) \div m) + 1
           j == ((operand - 1) % m) + 1
           v == Uncast("L", l.args[i])
           w == Uncast("R", r.args[j])
           ns == BlockNumbersAfter(l.to[i], r.to[j])
<1>1. /\ at = "phis" /\ phis # <<>> /\ phis \in Seq([Side -> Instr])
      /\ \A n \in DOMAIN phis : \A s \in Side : phis[n][s].op = "phi" /\ Shaped(phis[n][s])
      /\ operand \in Nat \ {0}
  BY PhisOfIInv DEF ComparePhis
<1>2. /\ l.args \in Seq(Values) /\ r.args \in Seq(Values)
      /\ m \in Nat \ {0} /\ Len(l.args) = Len(l.to) /\ Len(r.args) = m
  BY <1>1, WaitingPhis DEF Side
<1>3. UNCHANGED <<fn, todo, visited, cur, inverse>>
  BY DEF ComparePhis
<1>4. /\ matched' = ((j > 1 /\ matched) \/ SameValue(ns, v, w))
      /\ \/ /\ j < m \/ (matched' /\ i < Len(l.to))
            /\ operand' = operand + 1
            /\ UNCHANGED <<phis, at, verdict>>
         \/ /\ j = m /\ matched' /\ i = Len(l.to)
            /\ operand' = 1
            /\ phis' = Tail(phis)
            /\ UNCHANGED <<at, verdict>>
         \/ Result("not_equal")
  BY DEF ComparePhis
<1>5. /\ todo = <<>>
      /\ \A k \in DOMAIN l.args : k < i => \E n \in DOMAIN r.args : Agree(l.args[k], r.args[n])
      /\ j > 1 /\ matched => \E n \in DOMAIN r.args : Agree(l.args[i], r.args[n])
  BY <1>1 DEF EqualInv, Walking, IncomingInv
<1>6. BlockInv
  BY <1>1 DEF EqualInv, Walking
<1>7. PICK partner \in [visited -> BlocksOf(fn.R)] : PartnersInv(partner)
  BY <1>1 DEF EqualInv, Walking
<1>8. Len(fn.L.args) = Len(fn.R.args) /\ verdict # "equal"
  BY <1>1 DEF EqualInv, Walking
<1> HIDE DEF l, r, m, ns
<1>9. operand - 1 \in Nat /\ (operand - 1) \div m \in Nat /\ (operand - 1) % m \in 0 .. m - 1
  <2>1. operand - 1 \in Nat
    BY <1>1
  <2> QED
    BY <1>2, <2>1, WithRemainder
<1>10. i \in Nat \ {0} /\ j \in 1 .. m
  <2> DEFINE q == (operand - 1) \div m
             k == (operand - 1) % m
  <2>1. q \in Nat /\ k \in 0 .. m - 1
    BY <1>9
  <2> HIDE DEF q, k
  <2>2. q + 1 \in Nat \ {0} /\ k + 1 \in 1 .. m
    BY <1>2, <2>1
  <2> QED
    BY <2>2 DEF q, k
<1>11. DOMAIN r.args = 1 .. m /\ DOMAIN l.args = 1 .. Len(l.args) /\ Len(l.args) \in Nat
  BY <1>2
\* The incoming value has come to the other one.
<1>12. matched' => \E n \in DOMAIN r.args : Agree(l.args[i], r.args[n])
  <2> HIDE DEF i, j, v, w
  <2>1. ASSUME SameValue(ns, v, w)
        PROVE  Agree(l.args[i], r.args[j])
    BY <2>1 DEF SameValue, Agree, v, w
  <2> QED
    BY <1>4, <1>5, <1>10, <1>11, <2>1
<1>13. Inverted(inverse)'
  BY <1>3, <1>6, InvertedStay DEF Inverted, BlockInv
<1>14. CASE /\ j < m \/ (matched' /\ i < Len(l.to))
            /\ operand' = operand + 1
            /\ UNCHANGED <<phis, at, verdict>>
  <2>1. operand' - 1 = (operand - 1) + 1
    BY <1>1, <1>14
  <2> DEFINE q == (operand' - 1) \div m
             k == (operand' - 1) % m
  <2>2. /\ q + 1 = IF j < m THEN i ELSE i + 1
        /\ k + 1 = IF j < m THEN j + 1 ELSE 1
    <3>1. /\ q = IF j < m THEN (operand - 1) \div m ELSE ((operand - 1) \div m) + 1
          /\ k = IF j < m THEN j ELSE 0
      BY <1>2, <1>9, <2>1, NextQuotient, NextRemainder
    <3> QED
      BY <1>9, <3>1
  <2> HIDE DEF q, k, i, j
  <2>3. /\ \A n \in DOMAIN l.args : n < q + 1 => \E h \in DOMAIN r.args : Agree(l.args[n], r.args[h])
        /\ k + 1 > 1 /\ matched' => \E h \in DOMAIN r.args : Agree(l.args[q + 1], r.args[h])
    <3>1. CASE j < m
      BY <1>5, <1>12, <2>2, <3>1
    <3>2. CASE ~(j < m)
      <4>1. matched' /\ q + 1 = i + 1 /\ k + 1 = 1
        BY <1>14, <2>2, <3>2
      <4>2. \A n \in DOMAIN l.args : n < i + 1 => n < i \/ n = i
        BY <1>10, <1>11
      <4> QED
        BY <1>5, <1>12, <4>1, <4>2
    <3> QED
      BY <3>1, <3>2
  <2>4. PICK a, b, c : a = l /\ b = r /\ c = q + 1
    OBVIOUS
  <2>5. /\ \A n \in DOMAIN a.args : n < c => \E h \in DOMAIN b.args : Agree(a.args[n], b.args[h])'
        /\ k + 1 > 1 /\ matched' => \E h \in DOMAIN b.args : Agree(a.args[c], b.args[h])'
    BY <1>3, <2>3, <2>4, UnchangedMeaning, AgreeKept
  <2>6. IncomingInv'
    <3>1. Head(phis').L = a /\ Head(phis').R = b
      BY <1>14, <2>4 DEF l, r
    <3>2. c = ((operand' - 1) \div Len(b.to)) + 1 /\ k = (operand' - 1) % Len(b.to)
      BY <2>4 DEF q, k, m
    <3> QED
      BY <1>3, <1>5, <2>5, <3>1, <3>2 DEF IncomingInv
  <2>7. Waiting' = Waiting
    BY <1>14 DEF Waiting
  <2>8. PartnersInv(partner)'
    BY <1>1, <1>3, <1>7, <1>14, <2>7, PartnersAtEnd DEF InBlock
  <2>9. BlockInv'
    BY <1>1, <1>13, <1>14 DEF BlockInv, Inverted
  <2> QED
    BY <1>1, <1>3, <1>7, <1>8, <1>14, <2>6, <2>8, <2>9 DEF EqualInv, Walking, EqualBlocksMatch
<1>15. CASE /\ matched' /\ i = Len(l.to) /\ operand' = 1 /\ phis' = Tail(phis)
            /\ UNCHANGED <<at, verdict>>
  <2> HIDE DEF i, j, v, w
  <2>1. IncomingAgree(l, r)
    <3>1. \A n \in DOMAIN l.args : n < i \/ n = i
      BY <1>2, <1>10, <1>11, <1>15
    <3> QED
      BY <1>5, <1>12, <1>15, <3>1 DEF IncomingAgree
  <2>2. \A n \in DOMAIN phis : n = 1 \/ (n - 1 \in DOMAIN phis' /\ phis'[n - 1] = phis[n])
    BY <1>1, <1>15
  <2>3. phis[1].L = l /\ phis[1].R = r
    BY <1>1 DEF l, r
  <2>4. \A x, y : <<x, y>> \in Waiting => <<x, y>> \in Waiting' \/ IncomingAgree(x, y)
    <3> SUFFICES ASSUME NEW n \in DOMAIN phis
                 PROVE  <<phis[n].L, phis[n].R>> \in Waiting' \/ IncomingAgree(phis[n].L, phis[n].R)
      BY DEF Waiting
    <3>1. CASE n = 1
      BY <2>1, <2>3, <3>1
    <3>2. CASE n - 1 \in DOMAIN phis' /\ phis'[n - 1] = phis[n]
      BY <3>2 DEF Waiting
    <3> QED
      BY <2>2, <3>1, <3>2
  <2>5. PartnersInv(partner)'
    BY <1>1, <1>3, <1>7, <1>15, <2>4, PartnersAtEnd DEF InBlock
  <2>6. IncomingInv'
    <3>1. /\ phis' \in Seq([Side -> Instr])
          /\ \A n \in DOMAIN phis' : \A s \in Side : phis'[n][s].op = "phi" /\ Shaped(phis'[n][s])
      BY <1>1, <1>15, WaitingPhis
    <3> QED
      BY <1>3, <1>5, <1>15, <3>1, IncomingAtStart
  <2>7. BlockInv'
    BY <1>1, <1>13, <1>15 DEF BlockInv, Inverted
  <2> QED
    BY <1>1, <1>3, <1>7, <1>8, <1>15, <2>5, <2>6, <2>7 DEF EqualInv, Walking, EqualBlocksMatch
<1>16. CASE Result("not_equal")
  BY <1>16, NotFoundEqual DEF Result, Walking, InBlock
<1> QED
  BY <1>4, <1>14, <1>15, <1>16

LEMMA InitMatch == Init => EqualInv
  BY DEF Init, EqualInv, Walking, InBlock, EqualBlocksMatch

LEMMA NextMatch == ASSUME IInv, EqualInv, [Next]_vars PROVE EqualInv'
<1>1. CASE CompareSignature   BY <1>1, CompareSignatureMatch
<1>2. CASE SignaturesDiffer   BY <1>2, DifferMatch
<1>3. CASE CompareBlocks      BY <1>3, CompareBlocksMatch
<1>4. CASE InstructionsEqual  BY <1>4, InstructionsEqualMatch
<1>5. CASE BranchesInverse    BY <1>5, BranchesInverseMatch
<1>6. CASE PhisLater          BY <1>6, PhisLaterMatch
<1>7. CASE ComparisonsInverse BY <1>7, ComparisonsInverseMatch
<1>8. CASE InstructionsDiffer BY <1>8, InstructionsDifferMatch
<1>9. CASE CompareBlockOperands BY <1>9, CompareBlockOperandsMatch
<1>10. CASE CompareOperands   BY <1>10, CompareOperandsMatch
<1>11. CASE NextInstructions  BY <1>11, NextInstructionsMatch
<1>12. CASE EndBlocks         BY <1>12, EndBlocksMatch
<1>13. CASE NextSuccessors    BY <1>13, NextSuccessorsMatch
<1>14. CASE NoMoreSuccessors  BY <1>14, NoMoreSuccessorsMatch
<1>15. CASE Skip              BY <1>15, SkipMatch
<1>16. CASE Differ            BY <1>16, DifferMatch
<1>17. CASE BlocksEqual       BY <1>17, BlocksEqualMatch
<1>18. CASE ComparePhis       BY <1>18, ComparePhisMatch
<1>19. CASE AllEqual          BY <1>19, AllEqualMatch
<1>20. CASE Inline            BY <1>20, InlineMatch
<1>21. CASE NothingToInline   BY <1>21, NothingToInlineMatch
<1>22. CASE UNCHANGED vars    BY <1>22, UnchangedMatch
<1>23. CASE Done              BY <1>23, UnchangedMatch DEF Done
<1> QED
  BY <1>1, <1>2, <1>3, <1>4, <1>5, <1>6, <1>7, <1>8, <1>9, <1>10, <1>11, <1>12, <1>13, <1>14,
     <1>15, <1>16, <1>17, <1>18, <1>19, <1>20, <1>21, <1>22, <1>23 DEF Next

\* For any functions that the comparator (FunctionComparator::compare, with the methods
\* that DifferentialFunctionComparator.cpp overrides) finds equal: they have as many
\* parameters, and every block that the left one can reach has a counterpart on the
\* right.  The entries belong to each other; each other block follows one with a
\* counterpart as its own counterpart follows that.  A block and its counterpart match
\* instruction by instruction, in their order, but for allocas and casts.  Instructions
\* that match do the same with as many operands, and have the same constants and the same
\* called functions at the same places, at least up to an argument that is the same in
\* the C source; or they are comparisons with inverse predicates for branches only, or
\* branches on such.  Each value that comes to a PHI instruction comes to its counterpart,
\* as far as constants go.
THEOREM EqualBlocksAreMatched == Spec => []EqualBlocksMatch
<1>1. Init => IInv /\ EqualInv
  BY InitInv, InitMatch
<1>2. IInv /\ EqualInv /\ [Next]_vars => IInv' /\ EqualInv'
  BY NextInv, NextMatch
<1>3. EqualInv => EqualBlocksMatch
  BY DEF EqualInv
<1> QED
  BY <1>1, <1>2, <1>3, PTL DEF Spec

=============================================================================
