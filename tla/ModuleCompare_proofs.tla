------------------------ MODULE ModuleCompare_proofs ------------------------
(***************************************************************************)
(* Proofs about ModuleCompare.                                             *)
(***************************************************************************)
EXTENDS ModuleCompare, TLAPS, SequenceTheorems

-----------------------------------------------------------------------------
(* Sequences: what pushing, replacing and popping do to a stack. *)

\* An element put before a sequence.
LEMMA Push ==
    ASSUME NEW S, NEW x \in S, NEW t \in Seq(S)
    PROVE  /\ <<x>> \o t \in Seq(S)
           /\ Len(<<x>> \o t) = Len(t) + 1
           /\ (<<x>> \o t)[1] = x
           /\ \A n \in 2 .. Len(t) + 1 : (<<x>> \o t)[n] = t[n - 1]
<1>1. /\ <<x>> \in Seq(S)
      /\ Len(<<x>>) = 1
      /\ <<x>>[1] = x
  OBVIOUS
<1>. QED
  BY <1>1, ConcatProperties

\* The stack with another frame in place of the last one.
LEMMA ReplaceTop ==
    ASSUME NEW S, NEW x \in S, NEW t \in Seq(S), t # <<>>
    PROVE  /\ <<x>> \o Tail(t) \in Seq(S)
           /\ DOMAIN (<<x>> \o Tail(t)) = DOMAIN t
           /\ (<<x>> \o Tail(t))[1] = x
           /\ \A n \in DOMAIN t \ {1} : (<<x>> \o Tail(t))[n] = t[n]
<1>1. /\ Tail(t) \in Seq(S)
      /\ Len(Tail(t)) = Len(t) - 1
      /\ \A n \in 1 .. Len(Tail(t)) : Tail(t)[n] = t[n + 1]
  BY HeadTailProperties
<1>2. /\ <<x>> \o Tail(t) \in Seq(S)
      /\ Len(<<x>> \o Tail(t)) = Len(t)
      /\ (<<x>> \o Tail(t))[1] = x
      /\ \A n \in 2 .. Len(t) : (<<x>> \o Tail(t))[n] = Tail(t)[n - 1]
  BY <1>1, Push
<1>3. DOMAIN t = 1 .. Len(t) /\ DOMAIN (<<x>> \o Tail(t)) = 1 .. Len(t)
  BY <1>2
<1>4. ASSUME NEW n \in 2 .. Len(t)
      PROVE  (<<x>> \o Tail(t))[n] = t[n]
  <2>1. n - 1 \in 1 .. Len(Tail(t)) /\ (n - 1) + 1 = n
    BY <1>1
  <2>. QED
    BY <1>1, <1>2, <2>1
<1>. QED
  BY <1>2, <1>3, <1>4

\* A body whose call at pos is replaced by another body is a body.
LEMMA InlineAtType ==
    ASSUME NEW b \in Seq(Instr), NEW pos \in DOMAIN b, NEW c \in Seq(Instr)
    PROVE  InlineAt(b, pos, c) \in Seq(Instr)
<1>. DEFINE Bind(a) == IF \E k \in DOMAIN b[pos].args : Params[k] = a
                       THEN b[pos].args[CHOOSE k \in DOMAIN b[pos].args : Params[k] = a] ELSE a
            Bound(n) == [c[n] EXCEPT !.args = [k \in DOMAIN @ |-> Bind(@[k])]]
<1>1. b[pos] \in Instr /\ b[pos].args \in Seq(Operands)
  BY DEF Instr
<1>2. ASSUME NEW a \in Operands
      PROVE  Bind(a) \in Operands
  <2>1. CASE \E k \in DOMAIN b[pos].args : Params[k] = a
    <3>1. (CHOOSE k \in DOMAIN b[pos].args : Params[k] = a) \in DOMAIN b[pos].args
      BY <2>1
    <3>. QED
      BY <1>1, <2>1, <3>1
  <2>2. CASE ~ \E k \in DOMAIN b[pos].args : Params[k] = a
    BY <2>2
  <2>. QED
    BY <2>1, <2>2
<1>3. ASSUME NEW n \in 1 .. Len(c)
      PROVE  Bound(n) \in Instr
  <2>1. c[n] \in Instr /\ c[n].args \in Seq(Operands)
    BY DEF Instr
  <2>2. \A k \in 1 .. Len(c[n].args) : c[n].args[k] \in Operands
    BY <2>1
  <2>. HIDE DEF Bind
  <2>3. [k \in 1 .. Len(c[n].args) |-> Bind(c[n].args[k])] \in Seq(Operands)
    BY <1>2, <2>1, <2>2, IsASeq
  <2>4. [k \in DOMAIN c[n].args |-> Bind(c[n].args[k])] \in Seq(Operands)
    BY <2>1, <2>3
  <2>. QED
    BY <2>1, <2>4 DEF Instr
<1>. HIDE DEF Bind
<1>. HIDE DEF Bound
<1>4. [n \in 1 .. Len(c) |-> Bound(n)] \in Seq(Instr)
  BY <1>3, IsASeq
<1>5. [n \in DOMAIN c |-> Bound(n)] \in Seq(Instr)
  <2>1. DOMAIN c = 1 .. Len(c)
    OBVIOUS
  <2>. QED
    BY <1>4, <2>1
<1>6. SubSeq(b, 1, pos - 1) \in Seq(Instr) /\ SubSeq(b, pos + 1, Len(b)) \in Seq(Instr)
  <2>1. pos \in 1 .. Len(b) /\ \A n \in 1 .. Len(b) : b[n] \in Instr
    OBVIOUS
  <2>. QED
    BY <2>1, SubSeqProperties
<1>7. SubSeq(b, 1, pos - 1) \o [n \in DOMAIN c |-> Bound(n)] \o SubSeq(b, pos + 1, Len(b)) \in Seq(Instr)
  BY <1>5, <1>6, ConcatProperties
<1>. QED
  BY <1>7 DEF InlineAt, Bound, Bind

-----------------------------------------------------------------------------
(* Types. *)

LEMMA NewFrameType ==
    \A f \in Funs : NewFrame(f) \in Frame
BY DEF NewFrame, Frame, Places, Side

LEMMA NewComparisonType == NewComparison \in Comparison
BY DEF NewComparison, Comparison, Verdicts, Side

\* In a state with well-typed variables, the last frame, the instructions it is
\* at, and a sequence of frames with another one in its place.
LEMMA TopTypes ==
    ASSUME TypeOK, stack # <<>>
    PROVE  /\ Top \in Frame
           /\ Top = stack[1]
           /\ Tail(stack) \in Seq(Frame)
           /\ \A frame \in Frame : <<frame>> \o Tail(stack) \in Seq(Frame)
<1>1. stack \in Seq(Frame)
  BY DEF TypeOK
<1>2. Top \in Frame /\ Top = stack[1]
  BY <1>1 DEF Top
<1>3. Tail(stack) \in Seq(Frame)
  BY <1>1, HeadTailProperties
<1>. QED
  BY <1>2, <1>3, Push

LEMMA AtTypes ==
    ASSUME TypeOK, stack # <<>>, NEW s \in Side
    PROVE  /\ At(s) \in Instr \cup {Ret}
           /\ IsCall(At(s)) => /\ At(s) \in Instr
                               /\ At(s).fun \in Funs
                               /\ Top.pos[s] \in DOMAIN body[s][Top.fun]
                               /\ At(s) = body[s][Top.fun][Top.pos[s]]
           /\ Top.pos[s] \in DOMAIN body[s][Top.fun] => At(s) = body[s][Top.fun][Top.pos[s]]
<1>1. Top.fun \in Funs /\ Top.pos[s] \in Nat \ {0}
  BY TopTypes DEF Frame
<1>2. body[s][Top.fun] \in Seq(Instr)
  BY <1>1 DEF TypeOK
<1>3. CASE Top.pos[s] > Len(body[s][Top.fun])
  <2>1. At(s) = Ret
    BY <1>3 DEF At
  <2>2. Top.pos[s] \notin DOMAIN body[s][Top.fun]
    BY <1>1, <1>2, <1>3
  <2>. QED
    BY <2>1, <2>2 DEF Ret, IsCall
<1>4. CASE ~(Top.pos[s] > Len(body[s][Top.fun]))
  <2>1. Top.pos[s] \in 1 .. Len(body[s][Top.fun])
    BY <1>1, <1>2, <1>4
  <2>2. At(s) = body[s][Top.fun][Top.pos[s]]
    BY <1>4 DEF At
  <2>3. At(s) \in Instr
    BY <1>2, <2>1, <2>2
  <2>. QED
    BY <1>2, <2>1, <2>2, <2>3, NamesAssumption DEF IsCall, Instr
<1>. QED
  BY <1>3, <1>4

LEMMA AdvanceType ==
    ASSUME TypeOK, stack # <<>>, NEW sides \in SUBSET Side
    PROVE  Advance(sides) \in Frame
<1>1. Top \in Frame
  BY TopTypes
<1>2. [s \in Side |-> Top.pos[s] + (IF s \in sides THEN 1 ELSE 0)] \in [Side -> Nat \ {0}]
  BY <1>1 DEF Frame
<1>. QED
  BY <1>1, <1>2 DEF Advance, Frame

\* The calls an action may choose to inline next are calls in the current bodies.
TriesCalls(try) ==
    /\ try \in [Side -> CallRef]
    /\ \A s \in Side : try[s] # NoCall =>
            LET b == body[s][try[s].fun]
            IN  try[s].pos \in DOMAIN b /\ IsCall(b[try[s].pos])

LEMMA NoCallsTried == TriesCalls(NoCalls)
BY DEF TriesCalls, NoCalls, CallRef

LEMMA RefTried ==
    ASSUME TypeOK, stack # <<>>, NEW s \in Side, IsCall(At(s))
    PROVE  /\ Ref(s) \in CallRef
           /\ LET b == body[s][Ref(s).fun]
              IN  Ref(s).pos \in DOMAIN b /\ IsCall(b[Ref(s).pos])
<1>1. Top.fun \in Funs /\ Top.pos[s] \in Nat
  BY TopTypes DEF Frame
<1>. QED
  BY <1>1, AtTypes DEF Ref, CallRef

LEMMA OneTried ==
    ASSUME TypeOK, stack # <<>>
    PROVE  /\ IsCall(At("L")) => TriesCalls([NoCalls EXCEPT !.L = Ref("L")])
           /\ IsCall(At("R")) => TriesCalls([NoCalls EXCEPT !.R = Ref("R")])
           /\ IsCall(At("L")) /\ IsCall(At("R")) => TriesCalls([s \in Side |-> Ref(s)])
<1>1. \A s \in Side : IsCall(At(s)) =>
            /\ Ref(s) \in CallRef
            /\ Ref(s).pos \in DOMAIN body[s][Ref(s).fun]
            /\ IsCall(body[s][Ref(s).fun][Ref(s).pos])
  BY RefTried
<1>. HIDE DEF Ref, IsCall, At
<1>2. NoCall \in CallRef
  BY DEF CallRef
<1>. QED
  BY <1>1, <1>2 DEF TriesCalls, NoCalls, Side

LEMMA TryTypes ==
    ASSUME TypeOK, stack # <<>>
    PROVE  /\ TriesCalls(TryOneCall(At("L"), At("R")))
           /\ \A otherwise : TriesCalls(otherwise)
                => TriesCalls(TryMacro(At("L"), At("R"), otherwise))
           /\ TriesCalls(tryInline)
<1>1. TriesCalls(tryInline)
  BY DEF TypeOK, TriesCalls
<1>. QED
  BY <1>1, OneTried DEF TryOneCall, TryMacro, MayInline

\* Recording calls keeps the results results.
LEMMA CompareCalleesType ==
    ASSUME TypeOK, stack # <<>>, NEW f \in Funs, NEW frame \in Frame,
           Top.fun \in DOMAIN compared, CompareCallees(f, frame)
    PROVE  /\ stack' \in Seq(Frame)
           /\ DOMAIN compared' = DOMAIN compared
           /\ compared' \in [DOMAIN compared -> Comparison]
<1>1. <<frame>> \o Tail(stack) \in Seq(Frame)
  BY TopTypes
<1>2. NewFrame(f) \in Frame
  BY NewFrameType
<1>3. stack' \in Seq(Frame)
  <2>1. CASE f \in Abstractions \cup DOMAIN compared
    <3>1. stack' = <<>> \o <<frame>> \o Tail(stack)
      BY <2>1 DEF CompareCallees
    <3>2. <<>> \o <<frame>> = <<frame>>
      OBVIOUS
    <3>. QED
      BY <1>1, <3>1, <3>2
  <2>2. CASE f \notin Abstractions \cup DOMAIN compared
    <3>1. stack' = <<NewFrame(f)>> \o <<frame>> \o Tail(stack)
      BY <2>2 DEF CompareCallees
    <3>2. <<NewFrame(f)>> \in Seq(Frame) /\ <<frame>> \in Seq(Frame) /\ Tail(stack) \in Seq(Frame)
      BY <1>2, TopTypes
    <3>. QED
      BY <3>1, <3>2, ConcatProperties
  <2>. QED
    BY <2>1, <2>2
<1>4. compared[Top.fun] \in Comparison
  BY DEF TypeOK
<1>5. [s \in Side |-> IF f \in Abstractions THEN compared[Top.fun].calls[s]
                      ELSE AddCall(compared[Top.fun].calls[s], f)] \in [Side -> SUBSET Edge]
  <2>0. [to |-> f, variant |-> FALSE, weak |-> FALSE] \in Edge
    BY DEF Edge
  <2>1. \A calls \in SUBSET Edge : AddCall(calls, f) \in SUBSET Edge
    BY <2>0 DEF AddCall
  <2>2. \A s \in Side : compared[Top.fun].calls[s] \in SUBSET Edge
    BY <1>4 DEF Comparison
  <2>. QED
    BY <2>1, <2>2
<1>. QED
  BY <1>3, <1>4, <1>5 DEF TypeOK, CompareCallees, Comparison

-----------------------------------------------------------------------------
(* The invariant. *)

\* The functions whose comparison has begun, or is about to.
Known == DOMAIN compared \cup {stack[n].fun : n \in {m \in DOMAIN stack : stack[m].at = "enter"}}

\* The instruction n of f, if it is a call, is recorded, and its callee is in funs,
\* provided that no operands are equal in the C source only.
Recorded(funs, f, s, n) ==
    LET i == body[s][f][n]
    IN  MacroValues = {} /\ IsCall(i) /\ i.fun \notin Abstractions =>
            i.fun \in funs /\ \E c \in compared[f].calls[s] : c.to = i.fun

AllRecorded(funs, f) == \A s \in Side : \A n \in DOMAIN body[s][f] : Recorded(funs, f, s, n)

\* What is known of a frame at each place: all calls the scan has passed are
\* recorded.
FrameOK(fr) ==
    /\ fr.at = "enter" => fr.fun \notin DOMAIN compared
    /\ fr.at # "enter" => fr.fun \in DOMAIN compared /\ Bodies(fr.fun)
    /\ fr.at \in {"enter", "compare"} => \A s \in Side : fr.pos[s] = 1
    /\ fr.at \in {"scan", "differ"} =>
            \A s \in Side : \A n \in DOMAIN body[s][fr.fun] :
                n < fr.pos[s] => Recorded(Known, fr.fun, s, n)
    /\ fr.at = "equal" => AllRecorded(Known, fr.fun)
    /\ fr.at = "inline" => (compared[fr.fun].kind = "equal" => AllRecorded(Known, fr.fun))

FinishedOK(f) == compared[f].kind = "equal" => AllRecorded(DOMAIN compared, f)

\* A pair is in progress at most once, and only the last one is not waiting for
\* the comparison of a callee.
StackOK ==
    /\ \A m, n \in DOMAIN stack : stack[m].fun = stack[n].fun => m = n
    /\ \A n \in DOMAIN stack : n # 1 => stack[n].at \in {"scan", "differ"}

RecordedInv ==
    /\ TypeOK
    /\ mods.defined \in [Side -> SUBSET (Funs \ Abstractions)]
    /\ StackOK
    /\ \A fr \in Range(stack) : FrameOK(fr)
    /\ \A f \in DOMAIN compared : Compared(f) => FinishedOK(f)

\* A step about the last frame leaves everything else as it is.
OnlyTop ==
    /\ mods' = mods
    /\ DOMAIN compared \subseteq DOMAIN compared'
    /\ DOMAIN compared' \subseteq DOMAIN compared \cup {Top.fun}
    /\ Known \subseteq DOMAIN compared'
    /\ \A f \in DOMAIN compared \ {Top.fun} :
            compared'[f] = compared[f] /\ \A s \in Side : body'[s][f] = body[s][f]

\* All frames but the last one are of other pairs, and wait at an instruction.
LEMMA WaitingFrame ==
    ASSUME RecordedInv, stack # <<>>, NEW n \in DOMAIN stack \ {1}
    PROVE  /\ stack[n] \in Frame
           /\ stack[n].at \in {"scan", "differ"}
           /\ stack[n].fun # Top.fun
           /\ FrameOK(stack[n])
<1>1. stack \in Seq(Frame) /\ 1 \in DOMAIN stack /\ Top = stack[1]
  BY DEF RecordedInv, TypeOK, Top
<1>2. n \in DOMAIN stack /\ n # 1
  OBVIOUS
<1>3. stack[n] \in Range(stack) /\ stack[n] \in Frame
  BY <1>1, <1>2 DEF Range
<1>4. FrameOK(stack[n])
  BY <1>3 DEF RecordedInv
<1>5. stack[n].at \in {"scan", "differ"} /\ stack[n].fun # stack[1].fun
  BY <1>1, <1>2 DEF RecordedInv, StackOK
<1>. QED
  BY <1>1, <1>3, <1>4, <1>5

\* Then what is recorded of the others stays recorded.
LEMMA OthersStay ==
    ASSUME OnlyTop
    PROVE  /\ \A fr \in Frame :
                fr.at \in {"scan", "differ"} /\ fr.fun # Top.fun /\ FrameOK(fr) => FrameOK(fr)'
           /\ \A f \in DOMAIN compared \ {Top.fun} : FinishedOK(f) => FinishedOK(f)'
<1>1. \A f \in DOMAIN compared \ {Top.fun} : \A s \in Side :
            body'[s][f] = body[s][f] /\ compared'[f] = compared[f]
  BY DEF OnlyTop
<1>2. Known \subseteq Known' /\ DOMAIN compared \subseteq DOMAIN compared'
  BY DEF OnlyTop, Known
<1>3. ASSUME NEW fr \in Frame, fr.at \in {"scan", "differ"}, fr.fun # Top.fun, FrameOK(fr)
      PROVE  FrameOK(fr)'
  <2>1. fr.fun \in DOMAIN compared \ {Top.fun} /\ Bodies(fr.fun)
    BY <1>3 DEF FrameOK
  <2>2. fr.fun \in DOMAIN compared' /\ Bodies(fr.fun)'
    BY <1>2, <2>1 DEF Bodies, OnlyTop
  <2>3. ASSUME NEW s \in Side, NEW n \in DOMAIN body'[s][fr.fun], n < fr.pos[s]
        PROVE  Recorded(Known, fr.fun, s, n)'
    <3>1. n \in DOMAIN body[s][fr.fun]
      BY <2>1 DEF OnlyTop
    <3>2. Recorded(Known, fr.fun, s, n)
      BY <1>3, <2>3, <3>1 DEF FrameOK
    <3>. QED
      BY <1>1, <1>2, <2>1, <3>2 DEF Recorded, IsCall
  <2>. QED
    BY <1>3, <2>2, <2>3 DEF FrameOK
<1>4. ASSUME NEW f \in DOMAIN compared \ {Top.fun}, FinishedOK(f)
      PROVE  FinishedOK(f)'
  <2>1. compared'[f] = compared[f]
    BY DEF OnlyTop
  <2>2. ASSUME compared[f].kind = "equal", NEW s \in Side, NEW n \in DOMAIN body'[s][f]
        PROVE  Recorded(DOMAIN compared, f, s, n)'
    <3>1. n \in DOMAIN body[s][f]
      BY DEF OnlyTop
    <3>2. Recorded(DOMAIN compared, f, s, n)
      BY <1>4, <2>2, <3>1 DEF FinishedOK, AllRecorded
    <3>. QED
      BY <1>1, <1>2, <3>2 DEF Recorded, IsCall
  <2>. QED
    BY <2>1, <2>2 DEF FinishedOK, AllRecorded
<1>. QED
  BY <1>3, <1>4

\* The last comparison goes on, in another place.
LEMMA GoesOn ==
    ASSUME RecordedInv, stack # <<>>, OnlyTop, TypeOK',
           NEW fr \in Frame, fr.fun = Top.fun, FrameOK(fr)',
           stack' = <<fr>> \o Tail(stack)
    PROVE  RecordedInv'
<1>1. /\ stack \in Seq(Frame)
      /\ Top = stack[1]
      /\ DOMAIN stack = 1 .. Len(stack)
      /\ 1 \in DOMAIN stack
  BY DEF RecordedInv, TypeOK, Top
<1>2. /\ DOMAIN stack' = DOMAIN stack
      /\ stack'[1] = fr
      /\ \A n \in DOMAIN stack \ {1} : stack'[n] = stack[n]
  BY <1>1, ReplaceTop
<1>3. \A n \in DOMAIN stack : stack'[n].fun = stack[n].fun
  BY <1>1, <1>2
<1>4. StackOK'
  BY <1>2, <1>3 DEF RecordedInv, StackOK
<1>5. ASSUME NEW g \in Range(stack')
      PROVE  FrameOK(g)'
  <2>1. CASE g = fr
    BY <2>1
  <2>2. CASE g # fr
    <3>1. PICK n \in DOMAIN stack \ {1} : g = stack[n]
      BY <1>2, <2>2 DEF Range
    <3>2. /\ g \in Frame
          /\ g.at \in {"scan", "differ"}
          /\ g.fun # Top.fun
          /\ FrameOK(g)
      BY <3>1, WaitingFrame
    <3>. QED
      BY <3>2, OthersStay
  <2>. QED
    BY <2>1, <2>2
<1>6. ASSUME NEW f \in DOMAIN compared', Compared(f)'
      PROVE  FinishedOK(f)'
  <2>1. f # Top.fun /\ Compared(f)
    BY <1>1, <1>2, <1>3, <1>6 DEF Compared, OnlyTop
  <2>2. f \in DOMAIN compared \ {Top.fun} /\ FinishedOK(f)
    BY <2>1 DEF Compared, RecordedInv
  <2>. QED
    BY <2>2, OthersStay
<1>. QED
  BY <1>4, <1>5, <1>6 DEF RecordedInv, OnlyTop

\* The last comparison is over.
LEMMA Returns ==
    ASSUME RecordedInv, stack # <<>>, OnlyTop, TypeOK',
           NEW done \in DOMAIN compared', done = Top.fun, FinishedOK(done)',
           stack' = Tail(stack)
    PROVE  RecordedInv'
<1>1. /\ stack \in Seq(Frame)
      /\ Top = stack[1]
      /\ DOMAIN stack = 1 .. Len(stack)
      /\ Len(stack) \in Nat \ {0}
      /\ 1 \in DOMAIN stack
  BY DEF RecordedInv, TypeOK, Top
<1>2. /\ DOMAIN stack' = 1 .. Len(stack) - 1
      /\ \A n \in DOMAIN stack' : stack'[n] = stack[n + 1]
  BY <1>1, HeadTailProperties
<1>3. \A n \in DOMAIN stack' : n + 1 \in DOMAIN stack \ {1}
  BY <1>1, <1>2
<1>4. StackOK'
  <2>1. ASSUME NEW m \in DOMAIN stack', NEW n \in DOMAIN stack', stack'[m].fun = stack'[n].fun
        PROVE  m = n
    <3>1. m + 1 = n + 1
      BY <1>2, <1>3, <2>1 DEF RecordedInv, StackOK
    <3>. QED
      BY <1>1, <1>2, <3>1
  <2>2. ASSUME NEW n \in DOMAIN stack'
        PROVE  stack'[n].at \in {"scan", "differ"}
    BY <1>2, <1>3 DEF RecordedInv, StackOK
  <2>. QED
    BY <2>1, <2>2 DEF StackOK
<1>5. ASSUME NEW g \in Range(stack')
      PROVE  FrameOK(g)'
  <2>1. PICK n \in DOMAIN stack \ {1} : g = stack[n]
    BY <1>2, <1>3 DEF Range
  <2>2. /\ g \in Frame
        /\ g.at \in {"scan", "differ"}
        /\ g.fun # Top.fun
        /\ FrameOK(g)
    BY <1>1, <2>1 DEF RecordedInv, StackOK, Range
  <2>. QED
    BY <2>2, OthersStay
<1>6. ASSUME NEW f \in DOMAIN compared', Compared(f)'
      PROVE  FinishedOK(f)'
  <2>1. CASE f = Top.fun
    <3>1. f = done
      BY <2>1
    <3>. QED
      BY <3>1
  <2>2. CASE f # Top.fun
    <3>1. ASSUME NEW n \in DOMAIN stack
          PROVE  stack[n].fun # f
      <4>1. CASE n = 1
        BY <1>1, <2>2, <4>1
      <4>2. CASE n # 1
        <5>1. n - 1 \in DOMAIN stack' /\ stack'[n - 1] = stack[n]
          BY <1>1, <1>2, <4>2
        <5>. QED
          BY <1>6, <5>1 DEF Compared
      <4>. QED
        BY <4>1, <4>2
    <3>2. f \in DOMAIN compared \ {Top.fun} /\ FinishedOK(f)
      BY <2>2, <3>1 DEF Compared, RecordedInv, OnlyTop
    <3>. QED
      BY <3>2, OthersStay
  <2>. QED
    BY <2>1, <2>2
<1>. QED
  BY <1>4, <1>5, <1>6 DEF RecordedInv, OnlyTop

\* The last comparison, in another place, waits for that of a new pair.
LEMMA Waits ==
    ASSUME RecordedInv, stack # <<>>, OnlyTop, TypeOK',
           NEW fr \in Frame, fr.fun = Top.fun, fr.at \in {"scan", "differ"}, FrameOK(fr)',
           NEW new \in Frame, new.fun \notin DOMAIN compared, new.fun \notin DOMAIN compared',
           FrameOK(new)',
           Top.fun \in DOMAIN compared,
           stack' = <<new>> \o (<<fr>> \o Tail(stack))
    PROVE  RecordedInv'
<1>. DEFINE t == <<fr>> \o Tail(stack)
<1>1. /\ stack \in Seq(Frame)
      /\ Top = stack[1]
      /\ DOMAIN stack = 1 .. Len(stack)
      /\ Len(stack) \in Nat \ {0}
      /\ 1 \in DOMAIN stack
  BY DEF RecordedInv, TypeOK, Top
<1>2. /\ t \in Seq(Frame)
      /\ DOMAIN t = DOMAIN stack
      /\ t[1] = fr
      /\ \A n \in DOMAIN stack \ {1} : t[n] = stack[n]
  BY <1>1, ReplaceTop
<1>. HIDE DEF t
<1>3. /\ DOMAIN stack' = 1 .. Len(stack) + 1
      /\ stack'[1] = new
      /\ \A n \in 2 .. Len(stack) + 1 : stack'[n] = t[n - 1]
  <2>1. stack' = <<new>> \o t
    BY DEF t
  <2>2. Len(t) = Len(stack)
    BY <1>1, <1>2
  <2>. QED
    BY <1>1, <1>2, <2>1, <2>2, Push
<1>4. \A n \in DOMAIN stack : /\ t[n].fun = stack[n].fun
                              /\ t[n].at \in {"scan", "differ"}
                              /\ t[n].fun \in DOMAIN compared
  <2>1. \A n \in DOMAIN stack \ {1} :
            stack[n].at \in {"scan", "differ"} /\ FrameOK(stack[n])
    BY DEF RecordedInv, StackOK, Range
  <2>. QED
    BY <1>1, <1>2, <2>1 DEF FrameOK
<1>5. \A n \in DOMAIN stack' \ {1} : n - 1 \in DOMAIN stack /\ stack'[n] = t[n - 1]
  BY <1>1, <1>3
<1>6. StackOK'
  <2>1. ASSUME NEW m \in DOMAIN stack', NEW n \in DOMAIN stack', stack'[m].fun = stack'[n].fun
        PROVE  m = n
    <3>1. \A k \in DOMAIN stack' \ {1} : stack'[k].fun # new.fun
      BY <1>4, <1>5
    <3>2. CASE m = 1 \/ n = 1
      BY <1>3, <2>1, <3>1, <3>2
    <3>3. CASE m # 1 /\ n # 1
      <4>1. stack[m - 1].fun = stack[n - 1].fun
        BY <1>4, <1>5, <2>1, <3>3
      <4>2. m - 1 = n - 1
        BY <1>5, <3>3, <4>1 DEF RecordedInv, StackOK
      <4>. QED
        BY <1>1, <1>3, <4>2
    <3>. QED
      BY <3>2, <3>3
  <2>2. ASSUME NEW n \in DOMAIN stack', n # 1
        PROVE  stack'[n].at \in {"scan", "differ"}
    <3>1. n - 1 \in DOMAIN stack /\ stack'[n] = t[n - 1]
      BY <1>5, <2>2
    <3>. QED
      BY <1>4, <3>1
  <2>. QED
    BY <2>1, <2>2 DEF StackOK
<1>7. ASSUME NEW g \in Range(stack')
      PROVE  FrameOK(g)'
  <2>1. CASE g = fr \/ g = new
    BY <2>1
  <2>2. CASE g # fr /\ g # new
    <3>1. PICK n \in DOMAIN stack \ {1} : g = stack[n]
      <4>1. PICK k \in DOMAIN stack' : g = stack'[k]
        BY DEF Range
      <4>2. k - 1 \in DOMAIN stack /\ g = t[k - 1]
        BY <1>3, <1>5, <2>2, <4>1
      <4>. QED
        BY <1>2, <2>2, <4>2
    <3>2. /\ g \in Frame
          /\ g.at \in {"scan", "differ"}
          /\ g.fun # Top.fun
          /\ FrameOK(g)
      BY <3>1, WaitingFrame
    <3>. QED
      BY <3>2, OthersStay
  <2>. QED
    BY <2>1, <2>2
<1>8. ASSUME NEW f \in DOMAIN compared', Compared(f)'
      PROVE  FinishedOK(f)'
  <2>1. ASSUME NEW n \in DOMAIN stack
        PROVE  stack[n].fun # f
    <3>0. n \in 1 .. Len(stack) /\ n + 1 \in 2 .. Len(stack) + 1 /\ (n + 1) - 1 = n
      BY <1>1
    <3>1. n + 1 \in DOMAIN stack' /\ stack'[n + 1] = t[n]
      BY <1>1, <1>3, <3>0
    <3>. QED
      BY <1>4, <1>8, <3>1 DEF Compared
  <2>2. f # Top.fun /\ Compared(f)
    BY <1>1, <2>1 DEF Compared, OnlyTop
  <2>3. f \in DOMAIN compared \ {Top.fun} /\ FinishedOK(f)
    BY <2>2 DEF Compared, RecordedInv
  <2>. QED
    BY <2>3, OthersStay
<1>. QED
  BY <1>6, <1>7, <1>8 DEF RecordedInv, OnlyTop

-----------------------------------------------------------------------------
(* The steps. *)

\* What the invariant says of the last frame.
LEMMA TopFacts ==
    ASSUME RecordedInv, stack # <<>>
    PROVE  /\ Top \in Frame
           /\ FrameOK(Top)
           /\ Known = DOMAIN compared \cup (IF Top.at = "enter" THEN {Top.fun} ELSE {})
<1>1. /\ stack \in Seq(Frame)
      /\ Top = stack[1]
      /\ 1 \in DOMAIN stack
  BY DEF RecordedInv, TypeOK, Top
<1>2. Top \in Frame /\ Top \in Range(stack)
  BY <1>1 DEF Range
<1>3. \A n \in DOMAIN stack : stack[n].at = "enter" <=> n = 1 /\ Top.at = "enter"
  BY <1>1 DEF RecordedInv, StackOK
<1>. QED
  BY <1>1, <1>2, <1>3 DEF RecordedInv, Known

\* A step that changes neither modules nor bodies has to keep the types of the rest.
LEMMA TypeStep ==
    ASSUME TypeOK, mods' = mods, body' = body,
           stack' \in Seq(Frame),
           DOMAIN compared' \subseteq Funs,
           compared' \in [DOMAIN compared' -> Comparison],
           missing' \subseteq [side : Side, fun : Funs],
           TriesCalls(tryInline')
    PROVE  TypeOK'
BY DEF TypeOK, TriesCalls, IsCall

\* The result of a pair that is entered.
LEMMA Entered ==
    ASSUME RecordedInv, InProgress("enter"), NEW result \in Comparison,
           mods' = mods, body' = body, compared' = WithResult(Top.fun, result)
    PROVE  /\ OnlyTop
           /\ DOMAIN compared' \subseteq Funs
           /\ compared' \in [DOMAIN compared' -> Comparison]
           /\ Top.fun \in DOMAIN compared'
           /\ compared'[Top.fun] = result
<1>1. stack # <<>> /\ Top.at = "enter"
  BY DEF InProgress
<1>2. /\ Top \in Frame
      /\ Known = DOMAIN compared \cup {Top.fun}
      /\ Top.fun \notin DOMAIN compared
  BY <1>1, TopFacts DEF FrameOK
<1>3. Top.fun \in Funs /\ DOMAIN compared \subseteq Funs /\ compared \in [DOMAIN compared -> Comparison]
  BY <1>2 DEF Frame, RecordedInv, TypeOK
<1>4. /\ DOMAIN compared' = DOMAIN compared \cup {Top.fun}
      /\ compared'[Top.fun] = result
      /\ \A f \in DOMAIN compared : compared'[f] = compared[f]
  BY <1>2 DEF WithResult
<1>5. compared' \in [DOMAIN compared' -> Comparison]
  BY <1>3, <1>4 DEF WithResult
<1>. QED
  BY <1>2, <1>3, <1>4, <1>5 DEF OnlyTop

\* A pair that is entered and has no bodies to compare is finished at once.
LEMMA EnteredAndLeft ==
    ASSUME RecordedInv, InProgress("enter"), NEW result \in Comparison, result.kind # "equal",
           mods' = mods, body' = body, compared' = WithResult(Top.fun, result),
           stack' = Tail(stack), missing' \subseteq [side : Side, fun : Funs],
           tryInline' = tryInline
    PROVE  RecordedInv'
<1>1. stack # <<>>
  BY DEF InProgress
<1>2. TypeOK
  BY DEF RecordedInv
<1>3. TypeOK'
  BY <1>1, <1>2, Entered, TopTypes, TryTypes, TypeStep
<1>4. PICK done \in DOMAIN compared' : done = Top.fun
  BY Entered
<1>5. FinishedOK(done)'
  BY <1>4, Entered DEF FinishedOK
<1>. QED
  BY <1>1, <1>3, <1>4, <1>5, Entered, Returns

LEMMA EnterCachedKeeps ==
    RecordedInv /\ EnterCached => RecordedInv'
<1>1. NewComparison.kind # "equal"
  BY DEF NewComparison
<1>. QED
  BY <1>1, NewComparisonType, EnteredAndLeft DEF EnterCached, RecordedInv, TypeOK

LEMMA EnterDeclarationKeeps ==
    RecordedInv /\ EnterDeclaration => RecordedInv'
<1>. SUFFICES ASSUME RecordedInv, EnterDeclaration
              PROVE  RecordedInv'
  OBVIOUS
<1>. DEFINE result == [NewComparison EXCEPT !.kind = "assumed_equal"]
<1>1. result \in Comparison /\ result.kind # "equal"
  BY DEF NewComparison, Comparison, Verdicts, Side
<1>2. stack # <<>>
  BY DEF EnterDeclaration, InProgress
<1>3. Top.fun \in Funs
  BY <1>2, TopFacts DEF Frame
<1>4. missing' \subseteq [side : Side, fun : Funs]
  BY <1>3 DEF EnterDeclaration, RecordedInv, TypeOK
<1>. QED
  BY <1>1, <1>4, EnteredAndLeft DEF EnterDeclaration

LEMMA EnterBodiesKeeps ==
    RecordedInv /\ EnterBodies => RecordedInv'
<1>. SUFFICES ASSUME RecordedInv, EnterBodies
              PROVE  RecordedInv'
  OBVIOUS
<1>1. stack # <<>> /\ TypeOK /\ InProgress("enter")
  BY DEF EnterBodies, InProgress, RecordedInv
<1>2. /\ OnlyTop
      /\ DOMAIN compared' \subseteq Funs
      /\ compared' \in [DOMAIN compared' -> Comparison]
      /\ Top.fun \in DOMAIN compared'
  BY <1>1, Entered, NewComparisonType DEF EnterBodies
<1>3. PICK fr \in Frame : fr = [Top EXCEPT !.at = "compare"]
  BY <1>1, TopTypes DEF Frame, Places
<1>4. FrameOK(fr)'
  <2>1. fr.fun = Top.fun /\ fr.at = "compare" /\ fr.pos = Top.pos
    BY <1>1, <1>3, TopTypes DEF Frame
  <2>2. Bodies(fr.fun)'
    BY <2>1 DEF EnterBodies, Bodies
  <2>3. \A s \in Side : fr.pos[s] = 1
    BY <1>1, <2>1, TopFacts DEF FrameOK, InProgress
  <2>. QED
    BY <1>2, <2>1, <2>2, <2>3 DEF FrameOK
<1>5. stack' = <<fr>> \o Tail(stack) /\ stack' \in Seq(Frame)
  BY <1>1, <1>3, TopTypes DEF EnterBodies
<1>6. TypeOK'
  BY <1>1, <1>2, <1>5, TryTypes, TypeStep DEF EnterBodies, TypeOK
<1>7. fr.fun = Top.fun
  BY <1>1, <1>3, TopTypes DEF Frame
<1>. QED
  BY <1>1, <1>2, <1>4, <1>5, <1>6, <1>7, GoesOn

\* The last comparison moves, and nothing is recorded.
LEMMA Moves ==
    ASSUME RecordedInv, stack # <<>>, Top.at # "enter",
           mods' = mods, body' = body, compared' = compared, missing' = missing,
           NEW fr \in Frame, fr.fun = Top.fun, FrameOK(fr),
           stack' = <<fr>> \o Tail(stack), TriesCalls(tryInline')
    PROVE  RecordedInv'
<1>1. TypeOK /\ Known = DOMAIN compared
  BY TopFacts DEF RecordedInv
<1>2. TypeOK'
  BY <1>1, TopTypes, TypeStep DEF TypeOK
<1>3. OnlyTop
  BY <1>1 DEF OnlyTop
<1>4. Known \subseteq Known'
  BY <1>1 DEF Known
<1>5. \A s \in Side : \A n : Recorded(Known, fr.fun, s, n) => Recorded(Known, fr.fun, s, n)'
  BY <1>4 DEF Recorded, IsCall
<1>6. FrameOK(fr)'
  <2>1. AllRecorded(Known, fr.fun) => AllRecorded(Known, fr.fun)'
    BY <1>5 DEF AllRecorded
  <2>2. Bodies(fr.fun) => Bodies(fr.fun)'
    BY DEF Bodies
  <2>. QED
    BY <1>5, <2>1, <2>2 DEF FrameOK
<1>. QED
  BY <1>2, <1>3, <1>6, GoesOn

\* The scan has passed all calls when it is at the end.
LEMMA ScannedAtEnd ==
    ASSUME RecordedInv, InProgress("scan"), At("L").kind = "ret", At("R").kind = "ret"
    PROVE  AllRecorded(Known, Top.fun)
<1>1. stack # <<>> /\ Top.at = "scan" /\ TypeOK
  BY DEF InProgress, RecordedInv
<1>2. /\ Top.fun \in Funs
      /\ Top.pos \in [Side -> Nat \ {0}]
      /\ FrameOK(Top)
  BY <1>1, TopFacts DEF Frame
<1>3. ASSUME NEW s \in Side, NEW n \in DOMAIN body[s][Top.fun]
      PROVE  Recorded(Known, Top.fun, s, n)
  <2>1. body[s][Top.fun] \in Seq(Instr)
    BY <1>1, <1>2 DEF TypeOK
  <2>2. At(s).kind = "ret"
    BY DEF Side
  <2>3. Top.pos[s] \notin DOMAIN body[s][Top.fun]
    <3>1. SUFFICES ASSUME Top.pos[s] \in DOMAIN body[s][Top.fun]
                   PROVE  FALSE
      OBVIOUS
    <3>2. body[s][Top.fun][Top.pos[s]].kind = "ret"
      BY <1>1, <2>2, <3>1, AtTypes
    <3>3. body[s][Top.fun][Top.pos[s]] \in Instr
      BY <2>1, <3>1
    <3>. QED
      BY <3>2, <3>3 DEF Instr
  <2>4. n < Top.pos[s]
    BY <1>2, <2>1, <2>3
  <2>. QED
    BY <1>1, <1>2, <2>4 DEF FrameOK
<1>. QED
  BY <1>3 DEF AllRecorded

\* The scan may move past instructions that are no calls.
LEMMA ScanAdvances ==
    ASSUME RecordedInv, InProgress("scan"), NEW sides \in SUBSET Side,
           MacroValues = {} => \A s \in sides : ~IsCall(At(s)),
           mods' = mods, body' = body, compared' = compared, missing' = missing,
           stack' = <<Advance(sides)>> \o Tail(stack), TriesCalls(tryInline')
    PROVE  RecordedInv'
<1>1. stack # <<>> /\ Top.at = "scan" /\ TypeOK
  BY DEF InProgress, RecordedInv
<1>2. /\ Top \in Frame
      /\ FrameOK(Top)
      /\ Known = DOMAIN compared
  BY <1>1, TopFacts
<1>3. PICK fr \in Frame : fr = Advance(sides)
  BY <1>1, AdvanceType
<1>4. /\ fr.fun = Top.fun
      /\ fr.at = "scan"
      /\ \A s \in Side : fr.pos[s] = Top.pos[s] + (IF s \in sides THEN 1 ELSE 0)
  BY <1>1, <1>2, <1>3 DEF Advance, Frame
<1>5. ASSUME NEW s \in Side, NEW n \in DOMAIN body[s][fr.fun], n < fr.pos[s]
      PROVE  Recorded(Known, fr.fun, s, n)
  <2>1. n \in Nat /\ Top.pos[s] \in Nat
    BY <1>1, <1>2, <1>4 DEF TypeOK, Frame
  <2>2. CASE n < Top.pos[s]
    BY <1>1, <1>2, <1>4, <2>2 DEF FrameOK
  <2>3. CASE ~(n < Top.pos[s])
    <3>1. s \in sides /\ n = Top.pos[s]
      BY <1>4, <1>5, <2>1, <2>3
    <3>2. At(s) = body[s][fr.fun][n]
      BY <1>1, <1>4, <3>1, AtTypes
    <3>. QED
      BY <3>1, <3>2 DEF Recorded
  <2>. QED
    BY <2>2, <2>3
<1>6. FrameOK(fr)
  BY <1>1, <1>2, <1>4, <1>5 DEF FrameOK
<1>. QED
  BY <1>1, <1>3, <1>4, <1>6, Moves

LEMMA CompareKeeps ==
    RecordedInv /\ Compare => RecordedInv'
<1>. SUFFICES ASSUME RecordedInv, Compare
              PROVE  RecordedInv'
  OBVIOUS
<1>1. stack # <<>> /\ Top.at = "compare" /\ TypeOK
  BY DEF Compare, InProgress, RecordedInv
<1>2. Top \in Frame /\ FrameOK(Top)
  BY <1>1, TopFacts
<1>3. PICK fr \in Frame : fr = [Top EXCEPT !.at = IF mods.arity.L[Top.fun] = mods.arity.R[Top.fun]
                                                  THEN "scan" ELSE "unequal"]
  BY <1>2 DEF Frame, Places
<1>4. fr.fun = Top.fun /\ fr.at \in {"scan", "unequal"} /\ fr.pos = Top.pos
  BY <1>2, <1>3 DEF Frame
<1>5. ASSUME NEW s \in Side, NEW n \in DOMAIN body[s][fr.fun]
      PROVE  ~(n < fr.pos[s])
  <2>1. fr.pos[s] = 1
    BY <1>1, <1>2, <1>4 DEF FrameOK
  <2>2. body[s][fr.fun] \in Seq(Instr)
    BY <1>1 DEF TypeOK, Frame
  <2>. QED
    BY <2>1, <2>2
<1>6. FrameOK(fr)
  BY <1>1, <1>2, <1>4, <1>5 DEF FrameOK
<1>7. TriesCalls(tryInline')
  BY <1>1, TryTypes DEF Compare, TriesCalls
<1>. QED
  BY <1>1, <1>3, <1>4, <1>6, <1>7, Moves DEF Compare

LEMMA ScanEqualKeeps ==
    RecordedInv /\ ScanEqual => RecordedInv'
<1>. SUFFICES ASSUME RecordedInv, ScanEqual
              PROVE  RecordedInv'
  OBVIOUS
<1>1. /\ stack # <<>> /\ Top.at = "scan" /\ TypeOK
      /\ InProgress("scan")
      /\ tryInline' = tryInline
  BY DEF ScanEqual, InProgress, RecordedInv
<1>2. At("L").kind = At("R").kind
  BY DEF ScanEqual, Same, EqualOperands, EqualInSource, SameOperation
<1>3. TriesCalls(tryInline')
  BY <1>1, TryTypes DEF TriesCalls
<1>4. CASE At("L").kind = "ret"
  <2>1. Top \in Frame /\ FrameOK(Top)
    BY <1>1, TopFacts
  <2>2. PICK fr \in Frame : fr = [Top EXCEPT !.at = "equal"]
    BY <2>1 DEF Frame, Places
  <2>3. fr.fun = Top.fun /\ fr.at = "equal"
    BY <2>1, <2>2 DEF Frame
  <2>4. AllRecorded(Known, fr.fun)
    BY <1>1, <1>2, <1>4, <2>3, ScannedAtEnd
  <2>5. FrameOK(fr)
    BY <1>1, <2>1, <2>3, <2>4 DEF FrameOK
  <2>. QED
    BY <1>1, <1>3, <1>4, <2>2, <2>3, <2>5, Moves DEF ScanEqual
<1>5. CASE At("L").kind # "ret"
  <2>1. MacroValues = {} => \A s \in Side : ~IsCall(At(s))
    BY <1>2 DEF ScanEqual, Same, EqualInSource, IsCall, Side
  <2>. QED
    BY <1>1, <1>3, <1>5, <2>1, ScanAdvances DEF ScanEqual
<1>. QED
  BY <1>4, <1>5

LEMMA ScanSkipKeeps ==
    RecordedInv /\ ScanSkip => RecordedInv'
<1>. SUFFICES ASSUME RecordedInv, ScanSkip
              PROVE  RecordedInv'
  OBVIOUS
<1>1. stack # <<>> /\ TypeOK /\ InProgress("scan")
  BY DEF ScanSkip, InProgress, RecordedInv
<1>2. PICK skipped \in Side : skipped = IF At("L").kind = "cast" THEN "L" ELSE "R"
  BY DEF Side
<1>3. ~IsCall(At(skipped))
  BY <1>2 DEF ScanSkip, IsCall
<1>4. TriesCalls(tryInline')
  BY <1>1, TryTypes DEF ScanSkip, TriesCalls
<1>. QED
  BY <1>1, <1>2, <1>3, <1>4, ScanAdvances DEF ScanSkip

\* A difference is found: the calls to inline are chosen.
LEMMA DifferenceFound ==
    ASSUME RecordedInv, stack # <<>>, Top.at \in {"scan", "differ"},
           mods' = mods, body' = body, compared' = compared, missing' = missing,
           NEW place \in {"differ", "unequal"},
           stack' = <<[Top EXCEPT !.at = place]>> \o Tail(stack), TriesCalls(tryInline')
    PROVE  RecordedInv'
<1>1. Top \in Frame /\ FrameOK(Top)
  BY TopFacts
<1>2. PICK fr \in Frame : fr = [Top EXCEPT !.at = place]
  BY <1>1 DEF Frame, Places
<1>3. fr.fun = Top.fun /\ fr.at = place /\ fr.pos = Top.pos
  BY <1>1, <1>2 DEF Frame
<1>4. FrameOK(fr)
  BY <1>1, <1>3 DEF FrameOK
<1>. QED
  BY <1>2, <1>3, <1>4, Moves

LEMMA ScanDiffersKeeps ==
    RecordedInv /\ ScanDiffers => RecordedInv'
<1>. SUFFICES ASSUME RecordedInv, ScanDiffers
              PROVE  RecordedInv'
  OBVIOUS
<1>1. stack # <<>> /\ TypeOK /\ Top.at = "scan"
  BY DEF ScanDiffers, InProgress, RecordedInv
<1>2. TriesCalls(tryInline')
  BY <1>1, TryTypes DEF ScanDiffers, TriesCalls
<1>. QED
  BY <1>1, <1>2, DifferenceFound DEF ScanDiffers

LEMMA TryCallsKeeps ==
    RecordedInv /\ TryCalls => RecordedInv'
<1>. SUFFICES ASSUME RecordedInv, TryCalls
              PROVE  RecordedInv'
  OBVIOUS
<1>1. stack # <<>> /\ TypeOK /\ Top.at = "differ"
  BY DEF TryCalls, InProgress, RecordedInv
<1>2. TriesCalls(tryInline')
  BY <1>1, TryTypes, OneTried DEF TryCalls, TriesCalls, MayInline
<1>. QED
  BY <1>1, <1>2, DifferenceFound DEF TryCalls

\* A call of f is recorded, and the pair is compared first if it is new.
LEMMA CallRecorded ==
    ASSUME RecordedInv, stack # <<>>, Top.at = "scan",
           NEW f \in Funs, NEW fr \in Frame, fr.fun = Top.fun, fr.at \in {"scan", "differ"},
           \A s \in Side : \A n \in DOMAIN body[s][Top.fun] :
                n < fr.pos[s] => Recorded(Known, Top.fun, s, n) \/ body[s][Top.fun][n].fun = f,
           CompareCallees(f, fr),
           mods' = mods, body' = body, missing' = missing, tryInline' = tryInline
    PROVE  RecordedInv'
<1>1. /\ TypeOK
      /\ Top \in Frame
      /\ FrameOK(Top)
      /\ Known = DOMAIN compared
      /\ Top.fun \in DOMAIN compared
  BY TopFacts DEF RecordedInv, FrameOK
<1>2. /\ stack' \in Seq(Frame)
      /\ DOMAIN compared' = DOMAIN compared
      /\ compared' \in [DOMAIN compared -> Comparison]
  BY <1>1, CompareCalleesType
<1>3. TypeOK'
  BY <1>1, <1>2, TryTypes, TypeStep DEF TypeOK, TriesCalls
<1>4. OnlyTop
  BY <1>1, <1>2 DEF OnlyTop, CompareCallees
<1>5. ASSUME NEW s \in Side
      PROVE  /\ \A c \in compared[Top.fun].calls[s] : c \in compared'[Top.fun].calls[s]
             /\ f \notin Abstractions => \E c \in compared'[Top.fun].calls[s] : c.to = f
  <2>1. compared[Top.fun] \in Comparison
    BY <1>1 DEF TypeOK
  <2>2. compared'[Top.fun].calls[s] =
            IF f \in Abstractions THEN compared[Top.fun].calls[s]
            ELSE AddCall(compared[Top.fun].calls[s], f)
    BY <1>1, <2>1 DEF CompareCallees, Comparison
  <2>3. ASSUME NEW calls
        PROVE  /\ calls \subseteq AddCall(calls, f)
               /\ \E c \in AddCall(calls, f) : c.to = f
    <3>1. CASE \E c \in calls : c.to = f
      BY <3>1 DEF AddCall
    <3>2. CASE ~ \E c \in calls : c.to = f
      <4>1. AddCall(calls, f) = calls \cup {[to |-> f, variant |-> FALSE, weak |-> FALSE]}
        BY <3>2 DEF AddCall
      <4>2. [to |-> f, variant |-> FALSE, weak |-> FALSE].to = f
        OBVIOUS
      <4>. QED
        BY <4>1, <4>2
    <3>. QED
      BY <3>1, <3>2
  <2>. QED
    BY <2>2, <2>3
<1>6. Bodies(fr.fun)'
  BY <1>1 DEF FrameOK, Bodies
<1>7. ASSUME f \in Known'
      PROVE  FrameOK(fr)'
  <2>1. Known \subseteq Known'
    BY <1>1, <1>2 DEF Known
  <2>2. ASSUME NEW s \in Side, NEW n \in DOMAIN body[s][fr.fun], n < fr.pos[s]
        PROVE  Recorded(Known, fr.fun, s, n)'
    <3>1. CASE Recorded(Known, Top.fun, s, n)
      BY <1>5, <2>1, <3>1 DEF Recorded, IsCall
    <3>2. CASE body[s][Top.fun][n].fun = f
      BY <1>5, <1>7, <3>2 DEF Recorded, IsCall
    <3>. QED
      BY <2>2, <3>1, <3>2
  <2>. QED
    BY <1>1, <1>2, <1>6, <2>2 DEF FrameOK
<1>8. CASE f \in Abstractions \cup DOMAIN compared
  <2>1. stack' = <<fr>> \o Tail(stack)
    <3>1. <<>> \o <<fr>> = <<fr>>
      OBVIOUS
    <3>. QED
      BY <1>8, <3>1 DEF CompareCallees
  <2>2. FrameOK(fr)'
    <3>1. CASE f \in DOMAIN compared
      BY <1>2, <1>7, <3>1 DEF Known
    <3>2. CASE f \in Abstractions
      <4>1. \A s \in Side : \A n \in DOMAIN body[s][fr.fun] :
                n < fr.pos[s] => Recorded(Known, fr.fun, s, n)'
        BY <1>1, <1>2, <1>5, <3>2 DEF Recorded, IsCall, Known
      <4>. QED
        BY <1>1, <1>2, <1>6, <4>1 DEF FrameOK
    <3>. QED
      BY <1>8, <3>1, <3>2
  <2>. QED
    BY <1>3, <1>4, <2>1, <2>2, GoesOn
<1>9. CASE f \notin Abstractions \cup DOMAIN compared
  <2>1. PICK new \in Frame : new = NewFrame(f)
    BY NewFrameType
  <2>2. new.fun = f /\ new.at = "enter" /\ \A s \in Side : new.pos[s] = 1
    BY <2>1 DEF NewFrame
  <2>3. stack' = <<new>> \o (<<fr>> \o Tail(stack))
    <3>1. stack' = <<new>> \o <<fr>> \o Tail(stack)
      BY <1>9, <2>1 DEF CompareCallees
    <3>2. <<new>> \in Seq(Frame) /\ <<fr>> \in Seq(Frame) /\ Tail(stack) \in Seq(Frame)
      BY <1>1, TopTypes
    <3>. QED
      BY <3>1, <3>2, ConcatAssociative
  <2>4. f \in Known'
    <3>1. stack'[1] = new /\ 1 \in DOMAIN stack'
      <4>1. <<fr>> \o Tail(stack) \in Seq(Frame)
        BY <1>1, TopTypes
      <4>. QED
        BY <2>3, <4>1, Push
    <3>. QED
      BY <2>2, <3>1 DEF Known
  <2>5. FrameOK(new)'
    BY <1>2, <1>9, <2>2 DEF FrameOK
  <2>. QED
    BY <1>1, <1>2, <1>3, <1>4, <1>7, <1>9, <2>2, <2>3, <2>4, <2>5, Waits
<1>. QED
  BY <1>8, <1>9

LEMMA ScanCallsKeeps ==
    RecordedInv /\ ScanCalls => RecordedInv'
<1>. SUFFICES ASSUME RecordedInv, ScanCalls
              PROVE  RecordedInv'
  OBVIOUS
<1>1. stack # <<>> /\ Top.at = "scan" /\ TypeOK
  BY DEF ScanCalls, InProgress, RecordedInv
<1>2. Top \in Frame /\ FrameOK(Top)
  BY <1>1, TopFacts
<1>3. IsCall(At("L")) /\ IsCall(At("R")) /\ At("L").fun = At("R").fun
  BY DEF ScanCalls, EqualOperands, SameOperation, IsCall
<1>4. At("L").fun \in Funs
  BY <1>1, <1>3, AtTypes DEF Side
<1>5. PICK fr \in Frame : fr = Advance(Side)
  BY <1>1, AdvanceType
<1>6. fr.fun = Top.fun /\ fr.at = "scan" /\ \A s \in Side : fr.pos[s] = Top.pos[s] + 1
  BY <1>1, <1>2, <1>5 DEF Advance, Frame
<1>7. ASSUME NEW s \in Side, NEW n \in DOMAIN body[s][Top.fun], n < fr.pos[s]
      PROVE  Recorded(Known, Top.fun, s, n) \/ body[s][Top.fun][n].fun = At("L").fun
  <2>1. n \in Nat /\ Top.pos[s] \in Nat
    BY <1>1, <1>2 DEF TypeOK, Frame
  <2>2. CASE n < Top.pos[s]
    BY <1>1, <1>2, <2>2 DEF FrameOK
  <2>3. CASE n = Top.pos[s]
    <3>1. At(s) = body[s][Top.fun][n] /\ At(s).fun = At("L").fun
      BY <1>1, <1>3, <2>3, AtTypes DEF Side
    <3>. QED
      BY <3>1
  <2>. QED
    BY <1>6, <1>7, <2>1, <2>2, <2>3
<1>. QED
  BY <1>1, <1>4, <1>5, <1>6, <1>7, CallRecorded DEF ScanCalls

LEMMA ScanCallsDifferKeeps ==
    RecordedInv /\ ScanCallsDiffer => RecordedInv'
<1>. SUFFICES ASSUME RecordedInv, ScanCallsDiffer
              PROVE  RecordedInv'
  OBVIOUS
<1>1. stack # <<>> /\ Top.at = "scan" /\ TypeOK
  BY DEF ScanCallsDiffer, InProgress, RecordedInv
<1>2. Top \in Frame /\ FrameOK(Top)
  BY <1>1, TopFacts
<1>3. CASE At("L").fun = At("R").fun
  <2>1. At("L").fun \in Funs
    BY <1>1, AtTypes DEF ScanCallsDiffer, Side
  <2>2. PICK fr \in Frame : fr = [Top EXCEPT !.at = "differ"]
    BY <1>2 DEF Frame, Places
  <2>3. fr.fun = Top.fun /\ fr.at = "differ" /\ fr.pos = Top.pos
    BY <1>2, <2>2 DEF Frame
  <2>4. \A s \in Side : \A n \in DOMAIN body[s][Top.fun] :
            n < fr.pos[s] => Recorded(Known, Top.fun, s, n)
    BY <1>1, <1>2, <2>3 DEF FrameOK
  <2>. QED
    BY <1>1, <1>3, <2>1, <2>2, <2>3, <2>4, CallRecorded DEF ScanCallsDiffer
<1>4. CASE At("L").fun # At("R").fun
  <2>1. TriesCalls(tryInline')
    BY <1>1, TryTypes DEF ScanCallsDiffer, TriesCalls
  <2>. QED
    BY <1>1, <1>4, <2>1, DifferenceFound DEF ScanCallsDiffer
<1>. QED
  BY <1>3, <1>4

\* A verdict is set, and the last comparison goes on or is over.
LEMMA VerdictSet ==
    ASSUME RecordedInv, stack # <<>>, Top.at \in {"equal", "unequal"},
           NEW verdict \in {"equal", "not_equal"}, verdict = "equal" => Top.at = "equal",
           NEW result \in Comparison, result.kind = verdict,
           \A s \in Side : \A c \in compared[Top.fun].calls[s] : \E d \in result.calls[s] : d.to = c.to,
           compared' = [compared EXCEPT ![Top.fun] = result],
           mods' = mods, body' = body, missing' = missing, tryInline' = tryInline,
           \/ stack' = <<[Top EXCEPT !.at = "inline"]>> \o Tail(stack)
           \/ stack' = <<>> \o Tail(stack)
    PROVE  RecordedInv'
<1>1. /\ TypeOK
      /\ Top \in Frame
      /\ FrameOK(Top)
      /\ Known = DOMAIN compared
      /\ Top.fun \in DOMAIN compared
  BY TopFacts DEF RecordedInv, FrameOK
<1>2. /\ DOMAIN compared' = DOMAIN compared
      /\ compared'[Top.fun] = result
      /\ \A f \in DOMAIN compared \ {Top.fun} : compared'[f] = compared[f]
  BY <1>1
<1>3. compared' \in [DOMAIN compared' -> Comparison]
  BY <1>1, <1>2 DEF TypeOK
<1>4. OnlyTop
  BY <1>1, <1>2 DEF OnlyTop
<1>5. PICK done \in DOMAIN compared' : done = Top.fun
  BY <1>1, <1>2
<1>6. ASSUME verdict = "equal", NEW s \in Side, NEW n \in DOMAIN body[s][done]
      PROVE  /\ Recorded(DOMAIN compared, done, s, n)'
             /\ Recorded(Known, done, s, n)'
  <2>1. Recorded(Known, done, s, n)
    BY <1>1, <1>5, <1>6 DEF FrameOK, AllRecorded
  <2>. QED
    BY <1>1, <1>2, <1>5, <2>1 DEF Recorded, IsCall, Known
<1>7. compared'[done].kind = verdict
  BY <1>2, <1>5
<1>8. CASE stack' = <<[Top EXCEPT !.at = "inline"]>> \o Tail(stack)
  <2>1. PICK fr \in Frame : fr = [Top EXCEPT !.at = "inline"]
    BY <1>1 DEF Frame, Places
  <2>2. fr.fun = Top.fun /\ fr.fun = done /\ fr.at = "inline"
    BY <1>1, <1>5, <2>1 DEF Frame
  <2>3. FrameOK(fr)'
    <3>1. Bodies(fr.fun)'
      BY <1>1, <2>2 DEF FrameOK, Bodies
    <3>. QED
      BY <1>6, <1>7, <2>2, <3>1 DEF FrameOK, AllRecorded
  <2>4. TypeOK'
    BY <1>1, <1>2, <1>3, <1>8, <2>1, TopTypes, TryTypes, TypeStep DEF TypeOK, TriesCalls
  <2>. QED
    BY <1>4, <1>8, <2>1, <2>2, <2>3, <2>4, GoesOn
<1>9. CASE stack' = <<>> \o Tail(stack)
  <2>1. stack' = Tail(stack)
    BY <1>1, <1>9, TopTypes, ConcatEmptySeq
  <2>2. FinishedOK(done)'
    BY <1>6, <1>7 DEF FinishedOK, AllRecorded
  <2>3. TypeOK'
    BY <1>1, <1>2, <1>3, <2>1, TopTypes, TryTypes, TypeStep DEF TypeOK, TriesCalls
  <2>. QED
    BY <1>4, <1>5, <2>1, <2>2, <2>3, Returns
<1>. QED
  BY <1>8, <1>9

LEMMA SetEqualKeeps ==
    RecordedInv /\ SetEqual => RecordedInv'
<1>. SUFFICES ASSUME RecordedInv, SetEqual
              PROVE  RecordedInv'
  OBVIOUS
<1>1. stack # <<>> /\ Top.at = "equal" /\ TypeOK
  BY DEF SetEqual, InProgress, RecordedInv
<1>2. Top \in Frame /\ Top.fun \in DOMAIN compared /\ compared[Top.fun] \in Comparison
  BY <1>1, TopFacts DEF FrameOK, TypeOK
<1>. DEFINE old == compared[Top.fun]
            calls == [s \in Side |-> Weaken(old.calls[s], Top.inlined[s])]
            result == [old EXCEPT !.kind = "equal", !.calls = calls]
<1>3. ASSUME NEW s \in Side
      PROVE  /\ calls[s] \in SUBSET Edge
             /\ \A c \in old.calls[s] : \E d \in calls[s] : d.to = c.to
  <2>1. old.calls[s] \in SUBSET Edge
    BY <1>2 DEF Comparison
  <2>2. ASSUME NEW c \in old.calls[s]
        PROVE  [c EXCEPT !.weak = @ \/ c.to = Top.inlined[s]] \in Edge
    <3>1. c \in Edge /\ (c.weak \/ c.to = Top.inlined[s]) \in BOOLEAN
      BY <2>1 DEF Edge
    <3>. QED
      BY <3>1 DEF Edge
  <2>3. ASSUME NEW c \in old.calls[s]
        PROVE  [c EXCEPT !.weak = @ \/ c.to = Top.inlined[s]].to = c.to
    BY <2>1 DEF Edge
  <2>4. calls[s] = {[c EXCEPT !.weak = @ \/ c.to = Top.inlined[s]] : c \in old.calls[s]}
    BY DEF Weaken
  <2>. HIDE DEF calls, old
  <2>5. calls[s] \in SUBSET Edge
    BY <2>2, <2>4
  <2>6. ASSUME NEW c \in old.calls[s]
        PROVE  \E d \in calls[s] : d.to = c.to
    <3>1. [c EXCEPT !.weak = @ \/ c.to = Top.inlined[s]] \in calls[s]
      BY <2>4
    <3>. QED
      BY <2>3, <3>1
  <2>. QED
    BY <2>5, <2>6
<1>4. calls \in [Side -> SUBSET Edge]
  BY <1>3
<1>5. compared' = [compared EXCEPT ![Top.fun] = result]
  BY <1>2 DEF SetEqual
<1>6. old \in Comparison
  BY <1>2
<1>. HIDE DEF calls
<1>7. result \in Comparison /\ result.kind = "equal" /\ result.calls = calls
  BY <1>4, <1>6 DEF Comparison, Verdicts
<1>8. \A s \in Side : \A c \in compared[Top.fun].calls[s] : \E d \in result.calls[s] : d.to = c.to
  BY <1>3, <1>7
<1>9. \/ stack' = <<[Top EXCEPT !.at = "inline"]>> \o Tail(stack)
      \/ stack' = <<>> \o Tail(stack)
  BY DEF SetEqual
<1>10. mods' = mods /\ body' = body /\ missing' = missing /\ tryInline' = tryInline
  BY DEF SetEqual
<1>. HIDE DEF result, old
<1>. QED
  BY <1>1, <1>5, <1>7, <1>8, <1>9, <1>10, VerdictSet

LEMMA SetUnequalKeeps ==
    RecordedInv /\ SetUnequal => RecordedInv'
<1>. SUFFICES ASSUME RecordedInv, SetUnequal
              PROVE  RecordedInv'
  OBVIOUS
<1>1. stack # <<>> /\ Top.at = "unequal" /\ TypeOK
  BY DEF SetUnequal, InProgress, RecordedInv
<1>2. Top \in Frame /\ Top.fun \in DOMAIN compared /\ compared[Top.fun] \in Comparison
  BY <1>1, TopFacts DEF FrameOK, TypeOK
<1>. DEFINE result == [compared[Top.fun] EXCEPT !.kind = "not_equal"]
<1>3. result \in Comparison /\ result.kind = "not_equal" /\ result.calls = compared[Top.fun].calls
  BY <1>2 DEF Comparison, Verdicts
<1>4. compared' = [compared EXCEPT ![Top.fun] = result]
  BY <1>2 DEF SetUnequal
<1>5. /\ mods' = mods /\ body' = body /\ missing' = missing /\ tryInline' = tryInline
      /\ stack' = <<[Top EXCEPT !.at = "inline"]>> \o Tail(stack)
  BY DEF SetUnequal
<1>. HIDE DEF result
<1>. QED
  BY <1>1, <1>3, <1>4, <1>5, VerdictSet

\* compareFunctions returns with the verdict it has.
LEMMA LeavesInline ==
    ASSUME RecordedInv, InProgress("inline"),
           mods' = mods, body' = body, compared' = compared,
           missing' \subseteq [side : Side, fun : Funs],
           TriesCalls(tryInline'), stack' = Tail(stack)
    PROVE  RecordedInv'
<1>1. stack # <<>> /\ Top.at = "inline" /\ TypeOK
  BY DEF InProgress, RecordedInv
<1>2. FrameOK(Top) /\ Known = DOMAIN compared /\ Top.fun \in DOMAIN compared
  BY <1>1, TopFacts DEF FrameOK
<1>3. TypeOK'
  BY <1>1, TopTypes, TypeStep DEF TypeOK
<1>4. OnlyTop
  BY <1>2 DEF OnlyTop
<1>5. PICK done \in DOMAIN compared' : done = Top.fun
  BY <1>2
<1>6. FinishedOK(done)'
  <2>1. FinishedOK(done)
    BY <1>1, <1>2, <1>5 DEF FrameOK, FinishedOK
  <2>. QED
    BY <2>1 DEF FinishedOK, AllRecorded, Recorded, IsCall
<1>. QED
  BY <1>1, <1>3, <1>4, <1>5, <1>6, Returns

LEMMA ReturnKeeps ==
    RecordedInv /\ Return => RecordedInv'
<1>. SUFFICES ASSUME RecordedInv, Return
              PROVE  RecordedInv'
  OBVIOUS
<1>1. stack # <<>> /\ TypeOK /\ InProgress("inline")
  BY DEF Return, InProgress, RecordedInv
<1>2. TriesCalls(tryInline') /\ missing' \subseteq [side : Side, fun : Funs]
  BY <1>1, TryTypes DEF Return, TriesCalls, TypeOK
<1>. QED
  BY <1>1, <1>2, LeavesInline DEF Return

\* What the loop inlines is a call of the function compared.
LEMMA CalledTypes ==
    ASSUME RecordedInv, InProgress("inline"), NEW s \in Side, Found(s)
    PROVE  /\ Called(s) \in Funs
           /\ tryInline[s].pos \in DOMAIN body[s][Top.fun]
<1>1. stack # <<>> /\ TypeOK
  BY DEF InProgress, RecordedInv
<1>2. Top.fun \in Funs
  BY <1>1, TopTypes DEF Frame
<1>3. tryInline[s].fun = Top.fun /\ tryInline[s] # NoCall
  BY <1>2, NamesAssumption DEF Found, NoCall
<1>4. /\ tryInline[s].pos \in DOMAIN body[s][Top.fun]
      /\ IsCall(body[s][Top.fun][tryInline[s].pos])
  BY <1>1, <1>3 DEF TypeOK
<1>5. body[s][Top.fun] \in Seq(Instr)
  BY <1>1, <1>2 DEF TypeOK
<1>6. body[s][Top.fun][tryInline[s].pos] \in Instr
  BY <1>4, <1>5
<1>. QED
  BY <1>4, <1>6 DEF Called, Instr, IsCall

LEMMA InlineKeeps ==
    RecordedInv /\ Inline => RecordedInv'
<1>. SUFFICES ASSUME RecordedInv, Inline
              PROVE  RecordedInv'
  OBVIOUS
<1>1. stack # <<>> /\ Top.at = "inline" /\ TypeOK /\ InProgress("inline")
  BY DEF Inline, InProgress, RecordedInv
<1>2. /\ Top \in Frame
      /\ Top.fun \in Funs
      /\ FrameOK(Top)
      /\ Top.fun \in DOMAIN compared
      /\ Known = DOMAIN compared
  BY <1>1, TopFacts DEF FrameOK, Frame
<1>3. missing' \subseteq [side : Side, fun : Funs]
  <2>. DEFINE news == {[side |-> s, fun |-> Called(s)] :
                s \in {t \in Side : Found(t) /\ t \notin Inlinable /\ Called(t) \notin Abstractions}}
  <2>1. \A s \in Side : Found(s) => Called(s) \in Funs
    BY <1>1, CalledTypes
  <2>2. news \subseteq [side : Side, fun : Funs]
    BY <2>1
  <2>3. missing \subseteq [side : Side, fun : Funs]
    BY <1>1 DEF TypeOK
  <2>4. missing' = missing \cup news
    BY DEF Inline
  <2>. QED
    BY <2>2, <2>3, <2>4
<1>4. tryInline' = NoCalls /\ mods' = mods
  BY DEF Inline
<1>5. body' = [s \in Side |->
                  IF s \in Inlinable
                  THEN [body[s] EXCEPT ![Top.fun] =
                            InlineAt(body[s][Top.fun], tryInline[s].pos, body[s][Called(s)])]
                  ELSE body[s]]
  BY DEF Inline
<1>6. CASE Inlinable = {}
  <2>1. body' = body
    BY <1>1, <1>5, <1>6 DEF TypeOK
  <2>2. TriesCalls(tryInline')
    <3>1. TriesCalls(NoCalls)
      BY NoCallsTried
    <3>. QED
      BY <1>4, <3>1 DEF TriesCalls
  <2>. QED
    BY <1>1, <1>3, <1>4, <1>6, <2>1, <2>2, LeavesInline DEF Inline
<1>7. CASE Inlinable # {}
  <2>1. body' \in [Side -> [Funs -> Seq(Instr)]]
    <3>1. ASSUME NEW s \in Inlinable
          PROVE  InlineAt(body[s][Top.fun], tryInline[s].pos, body[s][Called(s)]) \in Seq(Instr)
      <4>1. /\ s \in Side
            /\ Called(s) \in Funs
            /\ tryInline[s].pos \in DOMAIN body[s][Top.fun]
        BY <1>1, CalledTypes DEF Inlinable
      <4>2. body[s][Top.fun] \in Seq(Instr) /\ body[s][Called(s)] \in Seq(Instr)
        BY <1>1, <1>2, <4>1 DEF TypeOK
      <4>. QED
        BY <4>1, <4>2, InlineAtType
    <3>. QED
      BY <1>1, <1>2, <1>5, <3>1 DEF TypeOK
  <2>2. PICK fr \in Frame : fr = [NewFrame(Top.fun) EXCEPT
                                    !.at = "compare",
                                    !.inlined = [s \in Side |-> Called(s)],
                                    !.rerun = TRUE]
    <3>1. [s \in Side |-> Called(s)] \in [Side -> Funs \cup {NoFun}]
      BY <1>1, CalledTypes DEF Called
    <3>. QED
      BY <1>2, <3>1, NewFrameType DEF Frame, Places
  <2>3. fr.fun = Top.fun /\ fr.at = "compare" /\ \A s \in Side : fr.pos[s] = 1
    BY <1>2, <2>2, NewFrameType DEF NewFrame, Frame
  <2>4. stack' = <<fr>> \o Tail(stack) /\ stack' \in Seq(Frame)
    BY <1>1, <1>7, <2>2, TopTypes DEF Inline
  <2>5. compared' = [compared EXCEPT ![Top.fun].kind = "unknown"]
    BY <1>7 DEF Inline
  <2>6. /\ DOMAIN compared' = DOMAIN compared
        /\ compared' \in [DOMAIN compared' -> Comparison]
        /\ \A f \in DOMAIN compared \ {Top.fun} : compared'[f] = compared[f]
    <3>1. compared[Top.fun] \in Comparison
      BY <1>1, <1>2 DEF TypeOK
    <3>2. [compared[Top.fun] EXCEPT !.kind = "unknown"] \in Comparison
      BY <3>1 DEF Comparison, Verdicts
    <3>. QED
      BY <1>1, <1>2, <2>5, <3>2 DEF TypeOK
  <2>7. TypeOK'
    <3>1. TriesCalls(NoCalls)
      BY NoCallsTried
    <3>2. tryInline' \in [Side -> CallRef] /\ \A s \in Side : tryInline'[s] = NoCall
      BY <1>4, <3>1 DEF TriesCalls, NoCalls
    <3>. QED
      BY <1>1, <1>3, <1>4, <2>1, <2>4, <2>6, <3>2 DEF TypeOK
  <2>8. OnlyTop
    <3>1. ASSUME NEW s \in Side, NEW f \in DOMAIN compared \ {Top.fun}
          PROVE  body'[s][f] = body[s][f]
      BY <1>1, <1>5 DEF TypeOK
    <3>. QED
      BY <1>2, <1>4, <2>6, <3>1 DEF OnlyTop
  <2>9. FrameOK(fr)'
    <3>1. Bodies(fr.fun)'
      BY <1>1, <1>2, <1>4, <2>3 DEF FrameOK, Bodies
    <3>. QED
      BY <1>2, <2>3, <2>6, <3>1 DEF FrameOK
  <2>. QED
    BY <1>1, <2>3, <2>4, <2>7, <2>8, <2>9, GoesOn
<1>. QED
  BY <1>6, <1>7

-----------------------------------------------------------------------------
(* The theorems. *)

LEMMA InitRecorded == Init => RecordedInv
<1>. SUFFICES ASSUME Init
              PROVE  RecordedInv
  OBVIOUS
<1>1. mods \in Module /\ \A s \in Side : mods.defined[s] \cap Abstractions = {}
  BY FamiliesAssumption DEF Init
<1>2. /\ mods.main \in Funs
      /\ mods.defined \in [Side -> SUBSET (Funs \ Abstractions)]
      /\ body \in [Side -> [Funs -> Seq(Instr)]]
  BY <1>1 DEF Init, Module
<1>3. /\ NewFrame(mods.main) \in Frame
      /\ NewFrame(mods.main).at = "enter"
      /\ \A s \in Side : NewFrame(mods.main).pos[s] = 1
  BY <1>2, NewFrameType DEF NewFrame
<1>4. stack = <<NewFrame(mods.main)>>
  BY DEF Init
<1>5. compared = [f \in {} |-> NewComparison]
  BY DEF Init
<1>6. TypeOK
  <2>1. TriesCalls(tryInline)
    BY NoCallsTried DEF Init
  <2>2. stack \in Seq(Frame)
    BY <1>3, <1>4
  <2>3. DOMAIN compared = {} /\ compared \in [DOMAIN compared -> Comparison]
    BY <1>5
  <2>. QED
    BY <1>1, <1>2, <2>1, <2>2, <2>3 DEF TypeOK, TriesCalls, Init
<1>7. \A fr \in Range(stack) : FrameOK(fr)
  BY <1>3, <1>4, <1>5 DEF Range, FrameOK
<1>8. StackOK
  BY <1>4 DEF StackOK
<1>. QED
  BY <1>2, <1>5, <1>6, <1>7, <1>8 DEF RecordedInv

\* A step that changes nothing.
LEMMA StutterKeeps ==
    ASSUME RecordedInv, UNCHANGED vars
    PROVE  RecordedInv'
<1>1. /\ mods' = mods /\ body' = body /\ stack' = stack
      /\ compared' = compared /\ missing' = missing /\ tryInline' = tryInline
  BY DEF vars
<1>2. TypeOK'
  BY <1>1 DEF RecordedInv, TypeOK, IsCall
<1>3. StackOK' /\ Known' = Known
  BY <1>1 DEF RecordedInv, StackOK, Known
<1>4. \A fr : FrameOK(fr) => FrameOK(fr)'
  <2>1. \A f, s, n : Recorded(Known, f, s, n) => Recorded(Known, f, s, n)'
    BY <1>1, <1>3 DEF Recorded, IsCall
  <2>2. \A f : AllRecorded(Known, f) => AllRecorded(Known, f)'
    BY <1>1, <2>1 DEF AllRecorded
  <2>3. \A f : Bodies(f) => Bodies(f)'
    BY <1>1 DEF Bodies
  <2>. QED
    BY <1>1, <2>1, <2>2, <2>3 DEF FrameOK
<1>5. \A f : /\ Compared(f)' => Compared(f)
             /\ FinishedOK(f) => FinishedOK(f)'
  <2>1. \A f : AllRecorded(DOMAIN compared, f) => AllRecorded(DOMAIN compared, f)'
    BY <1>1 DEF AllRecorded, Recorded, IsCall
  <2>. QED
    BY <1>1, <2>1 DEF Compared, FinishedOK
<1>6. \A fr \in Range(stack') : FrameOK(fr)'
  BY <1>1, <1>4 DEF RecordedInv, Range
<1>7. \A f \in DOMAIN compared' : Compared(f)' => FinishedOK(f)'
  BY <1>1, <1>5 DEF RecordedInv
<1>. QED
  BY <1>1, <1>2, <1>3, <1>6, <1>7 DEF RecordedInv

LEMMA NextRecorded == RecordedInv /\ [Next]_vars => RecordedInv'
<1>. SUFFICES ASSUME RecordedInv, [Next]_vars
              PROVE  RecordedInv'
  OBVIOUS
<1>1. CASE EnterCached
  BY <1>1, EnterCachedKeeps
<1>2. CASE EnterDeclaration
  BY <1>2, EnterDeclarationKeeps
<1>3. CASE EnterBodies
  BY <1>3, EnterBodiesKeeps
<1>4. CASE Compare
  BY <1>4, CompareKeeps
<1>5. CASE ScanEqual
  BY <1>5, ScanEqualKeeps
<1>6. CASE ScanCalls
  BY <1>6, ScanCallsKeeps
<1>7. CASE ScanSkip
  BY <1>7, ScanSkipKeeps
<1>8. CASE ScanDiffers
  BY <1>8, ScanDiffersKeeps
<1>9. CASE ScanCallsDiffer
  BY <1>9, ScanCallsDifferKeeps
<1>10. CASE TryCalls
  BY <1>10, TryCallsKeeps
<1>11. CASE SetEqual
  BY <1>11, SetEqualKeeps
<1>12. CASE SetUnequal
  BY <1>12, SetUnequalKeeps
<1>13. CASE Inline
  BY <1>13, InlineKeeps
<1>14. CASE Return
  BY <1>14, ReturnKeeps
<1>15. CASE Done \/ UNCHANGED vars
  <2>1. UNCHANGED vars
    BY <1>15 DEF Done
  <2>. QED
    BY <2>1, StutterKeeps
<1>. QED
  BY <1>1, <1>2, <1>3, <1>4, <1>5, <1>6, <1>7, <1>8, <1>9, <1>10, <1>11, <1>12, <1>13, <1>14, <1>15
  DEF Next

\* The comparator keeps its state well-typed; above all, the calls it holds pointers
\* to are calls in the bodies as inlining has left them (tryInline in
\* ModuleComparator.h).
THEOREM ComparisonTyped == Spec => []TypeOK
<1>1. RecordedInv => TypeOK
  BY DEF RecordedInv
<1>. QED
  BY <1>1, InitRecorded, NextRecorded, PTL DEF Spec

\* When no operands are equal in the C source only, every function still called by
\* functions found equal has been compared, and the call is an edge of the graph:
\* whatever was inlined before, and however comparisons are nested.
THEOREM CalleesAreCompared ==
    ASSUME MacroValues = {}
    PROVE  Spec => []CalleesCompared
<1>1. RecordedInv => CalleesCompared
  BY DEF RecordedInv, CalleesCompared, FinishedOK, AllRecorded, Recorded
<1>. QED
  BY <1>1, InitRecorded, NextRecorded, PTL DEF Spec

-----------------------------------------------------------------------------
(* The contract: what has been compared is what the recorded calls lead to, and *)
(* every comparison that is over has its final verdict.                        *)

Callees(f, s) == {c.to : c \in compared[f].calls[s]}

\* The calls the session follows, as in ContractKept.
CallGraph == UNION {{<<f, c.to>> : c \in compared[f].calls["L"]} : f \in DOMAIN compared}

Ongoing == {stack[n].fun : n \in DOMAIN stack}
Decided(f) == compared[f].kind \in {"equal", "not_equal"}

\* The result of f has the kind that the cache and the bodies call for, and what
\* is missing of f has been reported.  A comparison that goes on may be undecided.
ResultOK(f) ==
    /\ Callees(f, "L") = Callees(f, "R")
    /\ f \in mods.cached => compared[f].kind = "unknown"
    /\ f \notin mods.cached /\ ~Bodies(f) => compared[f].kind = "assumed_equal"
    /\ f \notin mods.cached /\ Bodies(f) =>
            compared[f].kind # "assumed_equal" /\ (f \notin Ongoing => Decided(f))
    /\ \A s, t \in Side : f \in mods.defined[s] \ (mods.defined[t] \cup mods.cached)
            => [side |-> t, fun |-> f] \in missing

ContractInv ==
    /\ mods.main \in Known
    /\ Known \subseteq Closure(mods.main, CallGraph)
    /\ \A f \in DOMAIN compared : Callees(f, "L") \subseteq Known /\ ResultOK(f)
    /\ \A f \in Ongoing \cap mods.cached : InProgress("enter") /\ f = Top.fun
    /\ InProgress("inline") => Decided(Top.fun)

\* The closure of a relation holds its start, is closed under the relation, and is
\* part of every set of which this is true.
LEMMA ClosureFacts ==
    ASSUME NEW x, NEW R
    PROVE  /\ x \in Closure(x, R)
           /\ \A r \in R : r[1] \in Closure(x, R) => r[2] \in Closure(x, R)
           /\ \A T : x \in T /\ (\A r \in R : r[1] \in T => r[2] \in T) => Closure(x, R) \subseteq T
<1>. DEFINE Around == {x} \cup {r[2] : r \in R}
            Closed == {S \in SUBSET Around : x \in S /\ \A r \in R : r[1] \in S => r[2] \in S}
<1>1. Closure(x, R) = {y \in Around : \A S \in Closed : y \in S}
  BY DEF Closure
<1>2. ASSUME NEW r \in R, r[1] \in Closure(x, R)
      PROVE  r[2] \in Closure(x, R)
  BY <1>1, <1>2
<1>3. ASSUME NEW T, x \in T, \A r \in R : r[1] \in T => r[2] \in T
      PROVE  Closure(x, R) \subseteq T
  <2>1. T \cap Around \in Closed
    BY <1>3
  <2>. QED
    BY <1>1, <2>1
<1>. QED
  BY <1>1, <1>2, <1>3

\* More is reached along more.
LEMMA ClosureGrows ==
    ASSUME NEW x, NEW Q, NEW R, Q \subseteq R
    PROVE  Closure(x, Q) \subseteq Closure(x, R)
<1>1. x \in Closure(x, R) /\ \A r \in Q : r[1] \in Closure(x, R) => r[2] \in Closure(x, R)
  BY ClosureFacts
<1>. QED
  BY <1>1, ClosureFacts

\* What a step on the last frame has to keep: its result, and the calls it records.
LEMMA ContractStep ==
    ASSUME ContractInv, RecordedInv, stack # <<>>,
           mods' = mods, missing \subseteq missing',
           NEW last \in DOMAIN compared', last = Top.fun,
           DOMAIN compared' = DOMAIN compared \cup {last},
           \A f \in DOMAIN compared \ {last} : compared'[f] = compared[f],
           last \in DOMAIN compared => Callees(last, "L") \subseteq Callees(last, "L")',
           Known \subseteq Known',
           Callees(last, "L")' \subseteq Known',
           Known' \subseteq Known \cup Callees(last, "L")',
           ResultOK(last)',
           Ongoing \subseteq Ongoing' \cup {last},
           \A f \in Ongoing' \cap mods'.cached : (InProgress("enter") /\ f = Top.fun)',
           (InProgress("inline") => Decided(Top.fun))'
    PROVE  ContractInv'
<1>1. last \in Known
  BY TopFacts DEF FrameOK
<1>2. ASSUME NEW f \in DOMAIN compared
      PROVE  Callees(f, "L") \subseteq Callees(f, "L")'
  BY DEF Callees
<1>3. CallGraph \subseteq CallGraph'
  <2>1. ASSUME NEW r \in CallGraph
        PROVE  r \in CallGraph'
    <3>1. PICK f \in DOMAIN compared : \E c \in compared[f].calls["L"] : r = <<f, c.to>>
      BY DEF CallGraph
    <3>2. PICK g \in Callees(f, "L") : r = <<f, g>>
      BY <3>1 DEF Callees
    <3>3. PICK d \in compared'[f].calls["L"] : d.to = g
      BY <1>2, <3>2 DEF Callees
    <3>. QED
      BY <3>2, <3>3 DEF CallGraph
  <2>. QED
    BY <2>1
<1>4. Known' \subseteq Closure(mods'.main, CallGraph')
  <2>1. Closure(mods.main, CallGraph) \subseteq Closure(mods.main, CallGraph')
    BY <1>3, ClosureGrows
  <2>2. last \in Closure(mods.main, CallGraph') /\ Known \subseteq Closure(mods.main, CallGraph')
    BY <1>1, <2>1 DEF ContractInv
  <2>3. ASSUME NEW g \in Callees(last, "L")'
        PROVE  g \in Closure(mods.main, CallGraph')
    <3>1. PICK c \in compared'[last].calls["L"] : c.to = g
      BY <2>3 DEF Callees
    <3>2. <<last, g>> \in CallGraph'
      BY <3>1 DEF CallGraph
    <3>. QED
      BY <2>2, <3>2, ClosureFacts
  <2>. QED
    BY <2>2, <2>3
<1>5. ASSUME NEW f \in DOMAIN compared \ {last}
      PROVE  (Callees(f, "L") \subseteq Known /\ ResultOK(f))'
  <2>1. compared'[f] = compared[f]
    OBVIOUS
  <2>2. Callees(f, "L") \subseteq Known /\ ResultOK(f)
    BY DEF ContractInv
  <2>3. Callees(f, "L")' = Callees(f, "L") /\ Callees(f, "R")' = Callees(f, "R")
    BY <2>1 DEF Callees
  <2>4. f \notin Ongoing' => f \notin Ongoing
    OBVIOUS
  <2>5. ResultOK(f)'
    BY <2>1, <2>2, <2>3, <2>4 DEF ResultOK, Bodies, Decided
  <2>. QED
    BY <2>2, <2>3, <2>5
<1>6. \A f \in DOMAIN compared' : (Callees(f, "L") \subseteq Known /\ ResultOK(f))'
  BY <1>5
<1>7. mods'.main \in Known'
  BY DEF ContractInv
<1>. QED
  BY <1>4, <1>6, <1>7 DEF ContractInv

\* The pairs whose comparison goes on, after each kind of change of the stack.
LEMMA OngoingGoesOn ==
    ASSUME TypeOK, stack # <<>>, NEW fr \in Frame, fr.fun = Top.fun,
           stack' = <<fr>> \o Tail(stack)
    PROVE  stack' # <<>> /\ Top' = fr /\ Ongoing' = Ongoing
<1>1. stack \in Seq(Frame) /\ Top = stack[1] /\ 1 \in DOMAIN stack
  BY DEF TypeOK, Top
<1>2. /\ stack' \in Seq(Frame)
      /\ DOMAIN stack' = DOMAIN stack
      /\ stack'[1] = fr
      /\ \A n \in DOMAIN stack \ {1} : stack'[n] = stack[n]
  BY <1>1, ReplaceTop
<1>3. stack' # <<>> /\ Top' = fr
  BY <1>1, <1>2 DEF Top
<1>4. \A n \in DOMAIN stack : stack'[n].fun = stack[n].fun
  BY <1>1, <1>2
<1>. QED
  BY <1>2, <1>3, <1>4 DEF Ongoing

LEMMA OngoingReturns ==
    ASSUME RecordedInv, stack # <<>>, stack' = Tail(stack)
    PROVE  /\ Ongoing' = Ongoing \ {Top.fun}
           /\ stack' # <<>> => Top'.at \in {"scan", "differ"}
<1>1. /\ stack \in Seq(Frame)
      /\ Top = stack[1]
      /\ DOMAIN stack = 1 .. Len(stack)
      /\ Len(stack) \in Nat \ {0}
      /\ 1 \in DOMAIN stack
  BY DEF RecordedInv, TypeOK, Top
<1>2. /\ stack' \in Seq(Frame)
      /\ DOMAIN stack' = 1 .. Len(stack) - 1
      /\ \A n \in DOMAIN stack' : stack'[n] = stack[n + 1]
  BY <1>1, HeadTailProperties
<1>3. \A n \in DOMAIN stack' : n + 1 \in DOMAIN stack \ {1}
  BY <1>1, <1>2
<1>4. \A n \in DOMAIN stack \ {1} : /\ n - 1 \in DOMAIN stack'
                                    /\ stack'[n - 1] = stack[n]
                                    /\ stack[n].fun # Top.fun
                                    /\ stack[n].at \in {"scan", "differ"}
  <2>1. ASSUME NEW n \in DOMAIN stack \ {1}
        PROVE  n - 1 \in DOMAIN stack' /\ stack'[n - 1] = stack[n]
    BY <1>1, <1>2
  <2>. QED
    BY <2>1, WaitingFrame
<1>5. Ongoing' = {stack[n].fun : n \in DOMAIN stack \ {1}}
  <2>1. ASSUME NEW n \in DOMAIN stack'
        PROVE  stack'[n].fun \in {stack[m].fun : m \in DOMAIN stack \ {1}}
    BY <1>2, <1>3
  <2>2. ASSUME NEW n \in DOMAIN stack \ {1}
        PROVE  stack[n].fun \in Ongoing'
    BY <1>4 DEF Ongoing
  <2>. QED
    BY <2>1, <2>2 DEF Ongoing
<1>6. Ongoing' = Ongoing \ {Top.fun}
  BY <1>1, <1>4, <1>5 DEF Ongoing
<1>7. ASSUME stack' # <<>>
      PROVE  Top'.at \in {"scan", "differ"}
  <2>1. 1 \in DOMAIN stack' /\ Top' = stack'[1]
    BY <1>2, <1>7 DEF Top
  <2>. QED
    BY <1>2, <1>3, <1>4, <2>1
<1>. QED
  BY <1>6, <1>7

LEMMA OngoingWaits ==
    ASSUME TypeOK, stack # <<>>,
           NEW fr \in Frame, fr.fun = Top.fun, NEW new \in Frame,
           stack' = <<new>> \o (<<fr>> \o Tail(stack))
    PROVE  stack' # <<>> /\ Top' = new /\ Ongoing' = Ongoing \cup {new.fun}
<1>. DEFINE t == <<fr>> \o Tail(stack)
<1>1. stack \in Seq(Frame) /\ Top = stack[1] /\ 1 \in DOMAIN stack /\ DOMAIN stack = 1 .. Len(stack)
  BY DEF TypeOK, Top
<1>2. /\ t \in Seq(Frame)
      /\ DOMAIN t = DOMAIN stack
      /\ t[1] = fr
      /\ \A n \in DOMAIN stack \ {1} : t[n] = stack[n]
  BY <1>1, ReplaceTop
<1>3. stack' = <<new>> \o t
  OBVIOUS
<1>. HIDE DEF t
<1>4. \A n \in DOMAIN t : t[n].fun = stack[n].fun
  BY <1>1, <1>2
<1>5. /\ stack' \in Seq(Frame)
      /\ Len(stack') = Len(t) + 1
      /\ stack'[1] = new
      /\ \A n \in 2 .. Len(t) + 1 : stack'[n] = t[n - 1]
  <2>1. /\ <<new>> \o t \in Seq(Frame)
        /\ Len(<<new>> \o t) = Len(t) + 1
        /\ (<<new>> \o t)[1] = new
        /\ \A n \in 2 .. Len(t) + 1 : (<<new>> \o t)[n] = t[n - 1]
    BY <1>2, Push
  <2>. QED
    BY <1>3, <2>1
<1>6. stack' # <<>> /\ Top' = new /\ DOMAIN stack' = 1 .. Len(t) + 1 /\ DOMAIN t = 1 .. Len(t)
  BY <1>2, <1>5 DEF Top
<1>7. ASSUME NEW n \in DOMAIN stack
      PROVE  stack[n].fun \in Ongoing'
  <2>1. n + 1 \in DOMAIN stack' /\ stack'[n + 1] = t[n]
    BY <1>1, <1>2, <1>5, <1>6
  <2>. QED
    BY <1>2, <1>4, <2>1 DEF Ongoing
<1>8. ASSUME NEW n \in DOMAIN stack'
      PROVE  stack'[n].fun \in Ongoing \cup {new.fun}
  <2>1. CASE n = 1
    BY <1>5, <2>1
  <2>2. CASE n # 1
    <3>1. n - 1 \in DOMAIN t /\ stack'[n] = t[n - 1]
      BY <1>5, <1>6, <2>2
    <3>. QED
      BY <1>2, <1>4, <3>1 DEF Ongoing
  <2>. QED
    BY <2>1, <2>2
<1>9. new.fun \in Ongoing'
  <2>1. 1 \in DOMAIN stack'
    BY <1>2, <1>6
  <2>. QED
    BY <1>5, <2>1 DEF Ongoing
<1>. QED
  BY <1>6, <1>7, <1>8, <1>9 DEF Ongoing

\* A pair whose comparison has begun is not cached.
LEMMA TopNotCached ==
    ASSUME ContractInv, RecordedInv, stack # <<>>, Top.at # "enter"
    PROVE  /\ Top.fun \notin mods.cached
           /\ Top.fun \in DOMAIN compared
           /\ Bodies(Top.fun)
           /\ Known = DOMAIN compared
<1>1. Top.fun \in Ongoing
  BY DEF RecordedInv, TypeOK, Ongoing, Top
<1>2. Top.fun \notin mods.cached
  BY <1>1 DEF ContractInv, InProgress
<1>. QED
  BY <1>2, TopFacts DEF FrameOK

\* The functions that are known, once the last frame is no new one.
LEMMA KnownCompared ==
    RecordedInv /\ (stack = <<>> \/ Top.at # "enter") => Known = DOMAIN compared
<1>1. CASE stack = <<>>
  <2>1. DOMAIN stack = {}
    BY <1>1
  <2>. QED
    BY <2>1 DEF Known
<1>2. CASE stack # <<>>
  BY <1>2, TopFacts
<1>. QED
  BY <1>1, <1>2

LEMMA KnownComparedNext ==
    (RecordedInv /\ (stack = <<>> \/ Top.at # "enter") => Known = DOMAIN compared)'
BY KnownCompared, PTL

LEMMA KnownNext ==
    (RecordedInv /\ stack # <<>> /\ Top.at = "enter" => Known = DOMAIN compared \cup {Top.fun})'
<1>1. RecordedInv /\ stack # <<>> /\ Top.at = "enter" => Known = DOMAIN compared \cup {Top.fun}
  BY TopFacts
<1>. QED
  BY <1>1, PTL

\* The last comparison goes on, in another place.
LEMMA ContractGoesOn ==
    ASSUME ContractInv, RecordedInv, RecordedInv', stack # <<>>,
           mods' = mods, missing \subseteq missing',
           NEW last \in DOMAIN compared', last = Top.fun,
           last \notin mods.cached, Bodies(last),
           DOMAIN compared' = DOMAIN compared \cup {last},
           \A f \in DOMAIN compared \ {last} : compared'[f] = compared[f],
           last \in DOMAIN compared => Callees(last, "L") \subseteq Callees(last, "L")',
           Callees(last, "L")' \subseteq DOMAIN compared',
           Callees(last, "L")' = Callees(last, "R")',
           compared'[last].kind # "assumed_equal",
           NEW fr \in Frame, fr.fun = last, fr.at # "enter",
           fr.at = "inline" => Decided(last)',
           stack' = <<fr>> \o Tail(stack)
    PROVE  ContractInv'
<1>1. stack' # <<>> /\ Top' = fr /\ Ongoing' = Ongoing
  BY OngoingGoesOn DEF RecordedInv
<1>2. Known' = DOMAIN compared'
  <2>1. stack' # <<>> /\ Top'.at # "enter"
    BY <1>1
  <2>. QED
    BY <2>1, KnownComparedNext
<1>3. Known = DOMAIN compared \cup (IF Top.at = "enter" THEN {Top.fun} ELSE {})
  BY TopFacts
<1>4. last \in Known /\ Known \subseteq Known' /\ Known' \subseteq Known
  <2>1. Top.at # "enter" => Top.fun \in DOMAIN compared
    BY TopFacts DEF FrameOK
  <2>. QED
    BY <1>2, <1>3, <2>1
<1>5. last \in Ongoing'
  <2>1. 1 \in DOMAIN stack /\ stack[1] = Top
    BY DEF RecordedInv, TypeOK, Top
  <2>. QED
    BY <1>1, <2>1 DEF Ongoing
<1>6. ResultOK(last)'
  <2>1. last \notin mods'.cached /\ Bodies(last)'
    BY DEF Bodies
  <2>2. \A s \in Side : last \in mods'.defined[s]
    BY <2>1 DEF Bodies
  <2>. QED
    BY <1>5, <2>1, <2>2 DEF ResultOK
<1>7. \A f \in Ongoing' \cap mods'.cached : (InProgress("enter") /\ f = Top.fun)'
  <2>1. ASSUME NEW f \in Ongoing \cap mods.cached
        PROVE  f = last
    BY DEF ContractInv
  <2>. QED
    BY <1>1, <2>1
<1>8. (InProgress("inline") => Decided(Top.fun))'
  BY <1>1 DEF InProgress, Decided
<1>. QED
  BY <1>1, <1>2, <1>4, <1>6, <1>7, <1>8, ContractStep

\* The last comparison is over.
LEMMA ContractReturns ==
    ASSUME ContractInv, RecordedInv, RecordedInv', stack # <<>>,
           mods' = mods, missing \subseteq missing',
           NEW last \in DOMAIN compared', last = Top.fun,
           DOMAIN compared' = DOMAIN compared \cup {last},
           \A f \in DOMAIN compared \ {last} : compared'[f] = compared[f],
           last \in DOMAIN compared => Callees(last, "L") \subseteq Callees(last, "L")',
           Callees(last, "L")' \subseteq DOMAIN compared',
           ResultOK(last)',
           stack' = Tail(stack)
    PROVE  ContractInv'
<1>1. Ongoing' = Ongoing \ {Top.fun} /\ (stack' # <<>> => Top'.at \in {"scan", "differ"})
  BY OngoingReturns
<1>2. Known' = DOMAIN compared'
  BY <1>1, KnownComparedNext
<1>3. Known = DOMAIN compared \cup (IF Top.at = "enter" THEN {Top.fun} ELSE {})
  BY TopFacts
<1>4. last \in Known /\ Known \subseteq Known' /\ Known' \subseteq Known
  <2>1. Top.at # "enter" => Top.fun \in DOMAIN compared
    BY TopFacts DEF FrameOK
  <2>. QED
    BY <1>2, <1>3, <2>1
<1>5. \A f \in Ongoing' \cap mods'.cached : (InProgress("enter") /\ f = Top.fun)'
  <2>1. \A f \in Ongoing \cap mods.cached : f = last
    BY DEF ContractInv
  <2>. QED
    BY <1>1, <2>1
<1>6. (InProgress("inline") => Decided(Top.fun))'
  BY <1>1 DEF InProgress
<1>. QED
  BY <1>1, <1>2, <1>4, <1>5, <1>6, ContractStep

\* No result changes, and the last comparison goes on.
LEMMA ContractMoves ==
    ASSUME ContractInv, RecordedInv, RecordedInv', stack # <<>>, Top.at # "enter",
           mods' = mods, compared' = compared, missing' = missing,
           NEW fr \in Frame, fr.fun = Top.fun, fr.at \notin {"enter", "inline"},
           stack' = <<fr>> \o Tail(stack)
    PROVE  ContractInv'
<1>1. /\ Top.fun \notin mods.cached
      /\ Top.fun \in DOMAIN compared
      /\ Bodies(Top.fun)
      /\ Known = DOMAIN compared
  BY TopNotCached
<1>2. PICK last \in DOMAIN compared' : last = Top.fun
  BY <1>1
<1>3. /\ Callees(last, "L") \subseteq Known
      /\ ResultOK(last)
  BY <1>1, <1>2 DEF ContractInv
<1>4. Callees(last, "L")' = Callees(last, "L") /\ Callees(last, "R")' = Callees(last, "R")
  BY DEF Callees
<1>5. /\ Callees(last, "L")' = Callees(last, "R")'
      /\ Callees(last, "L")' \subseteq DOMAIN compared'
      /\ compared'[last].kind # "assumed_equal"
  BY <1>1, <1>2, <1>3, <1>4 DEF ResultOK
<1>6. /\ missing \subseteq missing'
      /\ DOMAIN compared' = DOMAIN compared \cup {last}
      /\ \A f \in DOMAIN compared \ {last} : compared'[f] = compared[f]
      /\ Callees(last, "L") \subseteq Callees(last, "L")'
      /\ fr.at # "enter" /\ fr.fun = last /\ (fr.at = "inline" => Decided(last)')
      /\ last \notin mods.cached /\ Bodies(last)
  BY <1>1, <1>2, <1>4
<1>. QED
  BY <1>2, <1>5, <1>6, ContractGoesOn

\* The steps.
LEMMA ContractEnters ==
    ASSUME RecordedInv, InProgress("enter"), NEW result \in Comparison,
           \A s \in Side : result.calls[s] = {},
           mods' = mods, body' = body, compared' = WithResult(Top.fun, result)
    PROVE  \E last \in DOMAIN compared' :
                /\ last = Top.fun
                /\ last \notin DOMAIN compared
                /\ DOMAIN compared' = DOMAIN compared \cup {last}
                /\ \A f \in DOMAIN compared \ {last} : compared'[f] = compared[f]
                /\ compared'[last] = result
                /\ Callees(last, "L")' = {} /\ Callees(last, "R")' = {}
<1>1. OnlyTop /\ Top.fun \in DOMAIN compared' /\ compared'[Top.fun] = result
  BY Entered
<1>2. Top.fun \notin DOMAIN compared
  BY TopFacts DEF InProgress, FrameOK
<1>3. PICK last \in DOMAIN compared' : last = Top.fun
  BY <1>1
<1>4. Callees(last, "L")' = {} /\ Callees(last, "R")' = {}
  BY <1>1, <1>3 DEF Callees, Side
<1>. QED
  BY <1>1, <1>2, <1>3, <1>4 DEF OnlyTop

LEMMA EnterCachedContract ==
    ContractInv /\ RecordedInv /\ RecordedInv' /\ EnterCached => ContractInv'
<1>. SUFFICES ASSUME ContractInv, RecordedInv, RecordedInv', EnterCached
              PROVE  ContractInv'
  OBVIOUS
<1>1. /\ stack # <<>>
      /\ InProgress("enter")
      /\ Top.fun \in mods.cached
      /\ compared' = WithResult(Top.fun, NewComparison)
      /\ mods' = mods /\ body' = body /\ missing' = missing
      /\ stack' = Tail(stack)
  BY DEF EnterCached, InProgress
<1>2. NewComparison \in Comparison /\ NewComparison.kind = "unknown"
        /\ \A s \in Side : NewComparison.calls[s] = {}
  BY NewComparisonType DEF NewComparison
<1>3. PICK last \in DOMAIN compared' :
                /\ last = Top.fun
                /\ last \notin DOMAIN compared
                /\ DOMAIN compared' = DOMAIN compared \cup {last}
                /\ \A f \in DOMAIN compared \ {last} : compared'[f] = compared[f]
                /\ compared'[last] = NewComparison
                /\ Callees(last, "L")' = {} /\ Callees(last, "R")' = {}
  BY <1>1, <1>2, ContractEnters
<1>4. ResultOK(last)'
  BY <1>1, <1>2, <1>3 DEF ResultOK
<1>5. missing \subseteq missing' /\ Callees(last, "L")' \subseteq DOMAIN compared'
  BY <1>1, <1>3
<1>. QED
  BY <1>1, <1>3, <1>4, <1>5, ContractReturns

LEMMA EnterDeclarationContract ==
    ContractInv /\ RecordedInv /\ RecordedInv' /\ EnterDeclaration => ContractInv'
<1>. SUFFICES ASSUME ContractInv, RecordedInv, RecordedInv', EnterDeclaration
              PROVE  ContractInv'
  OBVIOUS
<1>. DEFINE result == [NewComparison EXCEPT !.kind = "assumed_equal"]
<1>1. /\ stack # <<>>
      /\ InProgress("enter")
      /\ Top.fun \notin mods.cached /\ ~Bodies(Top.fun)
      /\ compared' = WithResult(Top.fun, result)
      /\ mods' = mods /\ body' = body
      /\ stack' = Tail(stack)
  BY DEF EnterDeclaration, InProgress
<1>2. result \in Comparison /\ result.kind = "assumed_equal" /\ \A s \in Side : result.calls[s] = {}
  BY DEF NewComparison, Comparison, Verdicts, Side
<1>3. PICK last \in DOMAIN compared' :
                /\ last = Top.fun
                /\ last \notin DOMAIN compared
                /\ DOMAIN compared' = DOMAIN compared \cup {last}
                /\ \A f \in DOMAIN compared \ {last} : compared'[f] = compared[f]
                /\ compared'[last] = result
                /\ Callees(last, "L")' = {} /\ Callees(last, "R")' = {}
  <2>. HIDE DEF result
  <2>. QED
    BY <1>1, <1>2, ContractEnters
<1>4. missing' = missing \cup
            {[side |-> s, fun |-> last] :
                s \in {t \in Side : /\ last \notin mods.defined[t]
                                    /\ \E o \in Side : last \in mods.defined[o]}}
  BY <1>3 DEF EnterDeclaration
<1>5. \A s, t \in Side : last \in mods.defined[s] \ (mods.defined[t] \cup mods.cached)
            => [side |-> t, fun |-> last] \in missing'
  BY <1>4
<1>6. ResultOK(last)'
  <2>1. ~Bodies(last)' /\ last \notin mods'.cached
    BY <1>1, <1>3 DEF Bodies
  <2>2. compared'[last].kind = "assumed_equal"
    BY <1>2, <1>3
  <2>. HIDE DEF result
  <2>. QED
    BY <1>1, <1>3, <1>5, <2>1, <2>2 DEF ResultOK
<1>7. missing \subseteq missing' /\ Callees(last, "L")' \subseteq DOMAIN compared'
  BY <1>3, <1>4
<1>. HIDE DEF result
<1>. QED
  BY <1>1, <1>3, <1>6, <1>7, ContractReturns

LEMMA EnterBodiesContract ==
    ContractInv /\ RecordedInv /\ RecordedInv' /\ EnterBodies => ContractInv'
<1>. SUFFICES ASSUME ContractInv, RecordedInv, RecordedInv', EnterBodies
              PROVE  ContractInv'
  OBVIOUS
<1>1. /\ stack # <<>>
      /\ InProgress("enter")
      /\ Top.fun \notin mods.cached /\ Bodies(Top.fun)
      /\ compared' = WithResult(Top.fun, NewComparison)
      /\ mods' = mods /\ body' = body /\ missing' = missing
  BY DEF EnterBodies, InProgress
<1>2. NewComparison \in Comparison /\ NewComparison.kind = "unknown"
        /\ \A s \in Side : NewComparison.calls[s] = {}
  BY NewComparisonType DEF NewComparison
<1>3. PICK last \in DOMAIN compared' :
                /\ last = Top.fun
                /\ last \notin DOMAIN compared
                /\ DOMAIN compared' = DOMAIN compared \cup {last}
                /\ \A f \in DOMAIN compared \ {last} : compared'[f] = compared[f]
                /\ compared'[last] = NewComparison
                /\ Callees(last, "L")' = {} /\ Callees(last, "R")' = {}
  BY <1>1, <1>2, ContractEnters
<1>4. PICK fr \in Frame : fr = [Top EXCEPT !.at = "compare"]
  BY <1>1, TopTypes DEF RecordedInv, Frame, Places
<1>5. fr.fun = last /\ fr.at = "compare"
  BY <1>1, <1>3, <1>4, TopTypes DEF RecordedInv, Frame
<1>6. stack' = <<fr>> \o Tail(stack)
  BY <1>4 DEF EnterBodies
<1>7. /\ missing \subseteq missing'
      /\ Callees(last, "L")' \subseteq DOMAIN compared'
      /\ Callees(last, "L")' = Callees(last, "R")'
      /\ compared'[last].kind # "assumed_equal"
      /\ last \notin mods.cached /\ Bodies(last)
      /\ fr.at # "enter" /\ (fr.at = "inline" => Decided(last)')
  BY <1>1, <1>2, <1>3, <1>5
<1>. QED
  BY <1>1, <1>3, <1>5, <1>6, <1>7, ContractGoesOn

\* The last frame in another place, which is not an inlining.
LEMMA ContractAt ==
    ASSUME ContractInv, RecordedInv, RecordedInv', stack # <<>>, Top.at # "enter",
           mods' = mods, compared' = compared, missing' = missing,
           NEW place \in Places \ {"enter", "inline"},
           stack' = <<[Top EXCEPT !.at = place]>> \o Tail(stack)
    PROVE  ContractInv'
<1>1. Top \in Frame
  BY TopFacts
<1>2. PICK fr \in Frame : fr = [Top EXCEPT !.at = place]
  BY <1>1 DEF Frame
<1>3. fr.fun = Top.fun /\ fr.at = place
  BY <1>1, <1>2 DEF Frame
<1>. QED
  BY <1>2, <1>3, ContractMoves

LEMMA ContractAdvances ==
    ASSUME ContractInv, RecordedInv, RecordedInv', InProgress("scan"),
           mods' = mods, compared' = compared, missing' = missing,
           NEW sides \in SUBSET Side,
           stack' = <<Advance(sides)>> \o Tail(stack)
    PROVE  ContractInv'
<1>1. stack # <<>> /\ Top.at = "scan" /\ Top \in Frame /\ TypeOK
  BY TopFacts DEF InProgress, RecordedInv
<1>2. PICK fr \in Frame : fr = Advance(sides)
  BY <1>1, AdvanceType
<1>3. fr.fun = Top.fun /\ fr.at = Top.at
  BY <1>1, <1>2 DEF Advance, Frame
<1>. QED
  BY <1>1, <1>2, <1>3, ContractMoves

LEMMA MovesContract ==
    /\ ContractInv /\ RecordedInv /\ RecordedInv'
    /\ Compare \/ ScanEqual \/ ScanSkip \/ ScanDiffers \/ TryCalls
    => ContractInv'
<1>. SUFFICES ASSUME ContractInv, RecordedInv, RecordedInv',
                     Compare \/ ScanEqual \/ ScanSkip \/ ScanDiffers \/ TryCalls
              PROVE  ContractInv'
  OBVIOUS
<1>1. CASE Compare
  <2>1. PICK place \in {"scan", "unequal"} :
            stack' = <<[Top EXCEPT !.at = place]>> \o Tail(stack)
    BY <1>1 DEF Compare
  <2>2. place \in Places \ {"enter", "inline"}
    BY DEF Places
  <2>. QED
    BY <1>1, <2>1, <2>2, ContractAt DEF Compare, InProgress
<1>2. CASE ScanEqual
  <2>1. CASE At("L").kind = "ret"
    <3>1. stack' = <<[Top EXCEPT !.at = "equal"]>> \o Tail(stack)
      BY <1>2, <2>1 DEF ScanEqual
    <3>2. "equal" \in Places \ {"enter", "inline"}
      BY DEF Places
    <3>. QED
      BY <1>2, <3>1, <3>2, ContractAt DEF ScanEqual, InProgress
  <2>2. CASE At("L").kind # "ret"
    <3>1. stack' = <<Advance(Side)>> \o Tail(stack)
      BY <1>2, <2>2 DEF ScanEqual
    <3>. QED
      BY <1>2, <3>1, ContractAdvances DEF ScanEqual
  <2>. QED
    BY <2>1, <2>2
<1>3. CASE ScanSkip
  <2>1. PICK skipped \in Side : stack' = <<Advance({skipped})>> \o Tail(stack)
    BY <1>3 DEF ScanSkip, Side
  <2>. QED
    BY <1>3, <2>1, ContractAdvances DEF ScanSkip
<1>4. CASE ScanDiffers \/ TryCalls
  <2>1. /\ stack # <<>> /\ Top.at \in {"scan", "differ"}
        /\ stack' = <<[Top EXCEPT !.at = "unequal"]>> \o Tail(stack)
        /\ mods' = mods /\ compared' = compared /\ missing' = missing
    BY <1>4 DEF ScanDiffers, TryCalls, InProgress
  <2>2. "unequal" \in Places \ {"enter", "inline"}
    BY DEF Places
  <2>. QED
    BY <2>1, <2>2, ContractAt
<1>. QED
  BY <1>1, <1>2, <1>3, <1>4

\* A result that is replaced by one with the same calls, on the last frame.
LEMMA SameCalls ==
    ASSUME ContractInv, RecordedInv, stack # <<>>, Top.at # "enter",
           NEW result, \A s \in Side : {c.to : c \in result.calls[s]} = Callees(Top.fun, s),
           compared' = [compared EXCEPT ![Top.fun] = result]
    PROVE  \E last \in DOMAIN compared' :
                /\ last = Top.fun
                /\ last \in DOMAIN compared
                /\ DOMAIN compared' = DOMAIN compared \cup {last}
                /\ \A f \in DOMAIN compared \ {last} : compared'[f] = compared[f]
                /\ compared'[last] = result
                /\ Callees(last, "L") \subseteq Callees(last, "L")'
                /\ Callees(last, "L")' \subseteq DOMAIN compared'
                /\ Callees(last, "L")' = Callees(last, "R")'
<1>1. Top.fun \in DOMAIN compared /\ Known = DOMAIN compared
  BY TopNotCached
<1>2. PICK last \in DOMAIN compared' : last = Top.fun
  BY <1>1
<1>3. /\ DOMAIN compared' = DOMAIN compared
      /\ compared'[last] = result
      /\ \A f \in DOMAIN compared \ {last} : compared'[f] = compared[f]
  BY <1>1, <1>2
<1>4. Callees(last, "L")' = Callees(last, "L") /\ Callees(last, "R")' = Callees(last, "R")
  <2>1. \A s \in Side : {c.to : c \in compared'[last].calls[s]} = Callees(last, s)
    BY <1>2, <1>3
  <2>. QED
    BY <2>1 DEF Callees, Side
<1>5. Callees(last, "L") \subseteq Known /\ Callees(last, "L") = Callees(last, "R")
  BY <1>1, <1>2 DEF ContractInv, ResultOK
<1>6. /\ last = Top.fun
      /\ last \in DOMAIN compared
      /\ DOMAIN compared' = DOMAIN compared \cup {last}
      /\ Callees(last, "L") \subseteq Callees(last, "L")'
      /\ Callees(last, "L")' \subseteq DOMAIN compared'
      /\ Callees(last, "L")' = Callees(last, "R")'
  BY <1>1, <1>2, <1>3, <1>4, <1>5
<1>. QED
  BY <1>3, <1>6, Zenon

\* A call of f is recorded on both sides, and f is known.
LEMMA CompareCalleesContract ==
    ASSUME ContractInv, RecordedInv, RecordedInv', InProgress("scan"),
           NEW f \in Funs, NEW fr \in Frame, fr.fun = Top.fun, fr.at \in {"scan", "differ"},
           CompareCallees(f, fr), mods' = mods, missing' = missing
    PROVE  ContractInv'
<1>1. /\ stack # <<>> /\ Top.at = "scan" /\ TypeOK
      /\ Top.fun \notin mods.cached
      /\ Top.fun \in DOMAIN compared
      /\ Bodies(Top.fun)
      /\ Known = DOMAIN compared
  BY TopNotCached DEF InProgress, RecordedInv
<1>2. PICK last \in DOMAIN compared : last = Top.fun
  BY <1>1
<1>3. compared[last] \in Comparison
  BY <1>1 DEF TypeOK
<1>. DEFINE calls == [s \in Side |-> IF f \in Abstractions THEN compared[last].calls[s]
                                     ELSE AddCall(compared[last].calls[s], f)]
            result == [compared[last] EXCEPT !.calls = calls]
<1>4. compared' = [compared EXCEPT ![last] = result]
  BY <1>2 DEF CompareCallees
<1>5. result.kind = compared[last].kind /\ result.calls = calls
  BY <1>3 DEF Comparison
<1>6. \A s \in Side : {c.to : c \in calls[s]} =
            Callees(last, s) \cup (IF f \in Abstractions THEN {} ELSE {f})
  <2>1. ASSUME NEW s \in Side, f \notin Abstractions
        PROVE  {c.to : c \in calls[s]} = Callees(last, s) \cup {f}
    <3>1. calls[s] = AddCall(compared[last].calls[s], f)
      BY <2>1
    <3>2. [to |-> f, variant |-> FALSE, weak |-> FALSE].to = f
      OBVIOUS
    <3>. HIDE DEF calls
    <3>3. CASE \E c \in compared[last].calls[s] : c.to = f
      BY <3>1, <3>3 DEF AddCall, Callees
    <3>4. CASE ~ \E c \in compared[last].calls[s] : c.to = f
      <4>1. calls[s] = compared[last].calls[s] \cup {[to |-> f, variant |-> FALSE, weak |-> FALSE]}
        BY <3>1, <3>4 DEF AddCall
      <4>. QED
        BY <3>2, <4>1 DEF Callees
    <3>. QED
      BY <3>3, <3>4
  <2>2. ASSUME NEW s \in Side, f \in Abstractions
        PROVE  {c.to : c \in calls[s]} = Callees(last, s)
    BY <2>2 DEF Callees
  <2>. QED
    BY <2>1, <2>2
<1>. HIDE DEF calls
<1>7. /\ DOMAIN compared' = DOMAIN compared
      /\ compared'[last] = result
      /\ \A g \in DOMAIN compared \ {last} : compared'[g] = compared[g]
  BY <1>4
<1>. HIDE DEF result
<1>8. /\ Callees(last, "L")' = Callees(last, "L") \cup (IF f \in Abstractions THEN {} ELSE {f})
      /\ Callees(last, "R")' = Callees(last, "R") \cup (IF f \in Abstractions THEN {} ELSE {f})
  <2>1. \A s \in Side : {c.to : c \in compared'[last].calls[s]} =
            Callees(last, s) \cup (IF f \in Abstractions THEN {} ELSE {f})
    BY <1>5, <1>6, <1>7
  <2>. QED
    BY <2>1 DEF Callees, Side
<1>9. /\ Callees(last, "L") \subseteq Known
      /\ Callees(last, "L") = Callees(last, "R")
      /\ compared[last].kind # "assumed_equal"
  BY <1>1, <1>2 DEF ContractInv, ResultOK
<1>10. /\ Callees(last, "L") \subseteq Callees(last, "L")'
       /\ Callees(last, "L")' = Callees(last, "R")'
       /\ compared'[last].kind # "assumed_equal"
       /\ last \notin mods.cached /\ Bodies(last)
       /\ missing \subseteq missing'
       /\ DOMAIN compared' = DOMAIN compared \cup {last}
       /\ last \in DOMAIN compared'
  BY <1>1, <1>2, <1>5, <1>7, <1>8, <1>9
<1>11. CASE f \in Abstractions \cup DOMAIN compared
  <2>1. stack' = <<fr>> \o Tail(stack)
    <3>1. stack' = <<>> \o <<fr>> \o Tail(stack)
      BY <1>11 DEF CompareCallees
    <3>2. <<>> \o <<fr>> = <<fr>>
      OBVIOUS
    <3>. QED
      BY <3>1, <3>2
  <2>2. Callees(last, "L")' \subseteq DOMAIN compared'
    BY <1>1, <1>7, <1>8, <1>9, <1>11
  <2>. QED
    BY <1>1, <1>2, <1>7, <1>10, <2>1, <2>2, ContractGoesOn
<1>12. CASE f \notin Abstractions \cup DOMAIN compared
  <2>1. PICK new \in Frame : new = NewFrame(f)
    BY NewFrameType
  <2>2. new.fun = f /\ new.at = "enter"
    BY <2>1 DEF NewFrame
  <2>3. stack' = <<new>> \o (<<fr>> \o Tail(stack))
    <3>1. stack' = <<new>> \o <<fr>> \o Tail(stack)
      BY <1>12, <2>1 DEF CompareCallees
    <3>2. <<new>> \in Seq(Frame) /\ <<fr>> \in Seq(Frame) /\ Tail(stack) \in Seq(Frame)
      BY <1>1, TopTypes
    <3>. QED
      BY <3>1, <3>2, ConcatAssociative
  <2>4. stack' # <<>> /\ Top' = new /\ Ongoing' = Ongoing \cup {f}
    BY <1>1, <2>2, <2>3, OngoingWaits
  <2>5. Known' = DOMAIN compared \cup {f}
    <3>1. Known' = DOMAIN compared' \cup {Top'.fun}
      BY <2>2, <2>4, KnownNext
    <3>. QED
      BY <1>7, <2>2, <2>4, <3>1
  <2>6. /\ Known \subseteq Known'
        /\ Callees(last, "L")' \subseteq Known'
        /\ Known' \subseteq Known \cup Callees(last, "L")'
    BY <1>1, <1>8, <1>9, <1>12, <2>5
  <2>7. last \in Ongoing
    BY <1>1, <1>2 DEF TypeOK, Ongoing, Top
  <2>8. ResultOK(last)'
    <3>1. last \notin mods'.cached /\ Bodies(last)' /\ last \in Ongoing'
      BY <1>10, <2>4, <2>7 DEF Bodies
    <3>2. \A s \in Side : last \in mods'.defined[s]
      BY <3>1 DEF Bodies
    <3>. QED
      BY <1>10, <3>1, <3>2 DEF ResultOK
  <2>9. \A g \in Ongoing' \cap mods'.cached : (InProgress("enter") /\ g = Top.fun)'
    <3>1. \A g \in Ongoing \cap mods.cached : FALSE
      BY <1>1 DEF ContractInv, InProgress
    <3>. QED
      BY <2>2, <2>4, <3>1 DEF InProgress
  <2>10. (InProgress("inline") => Decided(Top.fun))'
    BY <2>2, <2>4 DEF InProgress
  <2>11. Ongoing \subseteq Ongoing' \cup {last}
    BY <2>4
  <2>. QED
    BY <1>1, <1>2, <1>7, <1>10, <2>6, <2>8, <2>9, <2>10, <2>11, ContractStep
<1>. QED
  BY <1>11, <1>12

LEMMA ScanCallsContract ==
    ContractInv /\ RecordedInv /\ RecordedInv' /\ ScanCalls => ContractInv'
<1>. SUFFICES ASSUME ContractInv, RecordedInv, RecordedInv', ScanCalls
              PROVE  ContractInv'
  OBVIOUS
<1>1. /\ stack # <<>> /\ TypeOK /\ Top.at = "scan" /\ InProgress("scan")
      /\ CompareCallees(At("L").fun, Advance(Side))
      /\ mods' = mods /\ missing' = missing
      /\ IsCall(At("L"))
  BY DEF ScanCalls, InProgress, RecordedInv
<1>2. Top \in Frame /\ At("L").fun \in Funs
  BY <1>1, TopTypes, AtTypes DEF Side
<1>3. PICK fr \in Frame : fr = Advance(Side)
  BY <1>1, AdvanceType
<1>4. fr.fun = Top.fun /\ fr.at = "scan"
  BY <1>1, <1>2, <1>3 DEF Advance, Frame
<1>. QED
  BY <1>1, <1>2, <1>3, <1>4, CompareCalleesContract

LEMMA ScanCallsDifferContract ==
    ContractInv /\ RecordedInv /\ RecordedInv' /\ ScanCallsDiffer => ContractInv'
<1>. SUFFICES ASSUME ContractInv, RecordedInv, RecordedInv', ScanCallsDiffer
              PROVE  ContractInv'
  OBVIOUS
<1>1. /\ stack # <<>> /\ TypeOK /\ Top.at = "scan" /\ InProgress("scan")
      /\ mods' = mods /\ missing' = missing
      /\ IsCall(At("L"))
  BY DEF ScanCallsDiffer, InProgress, RecordedInv
<1>2. Top \in Frame /\ At("L").fun \in Funs
  BY <1>1, TopTypes, AtTypes DEF Side
<1>3. CASE At("L").fun = At("R").fun
  <2>1. PICK fr \in Frame : fr = [Top EXCEPT !.at = "differ"]
    BY <1>2 DEF Frame, Places
  <2>2. fr.fun = Top.fun /\ fr.at = "differ"
    BY <1>2, <2>1 DEF Frame
  <2>3. CompareCallees(At("L").fun, fr)
    BY <1>3, <2>1 DEF ScanCallsDiffer
  <2>. QED
    BY <1>1, <1>2, <2>2, <2>3, CompareCalleesContract
<1>4. CASE At("L").fun # At("R").fun
  <2>1. "differ" \in Places \ {"enter", "inline"}
    BY DEF Places
  <2>2. stack' = <<[Top EXCEPT !.at = "differ"]>> \o Tail(stack) /\ compared' = compared
    BY <1>4 DEF ScanCallsDiffer
  <2>. QED
    BY <1>1, <2>1, <2>2, ContractAt
<1>. QED
  BY <1>3, <1>4

LEMMA SetEqualContract ==
    ContractInv /\ RecordedInv /\ RecordedInv' /\ SetEqual => ContractInv'
<1>. SUFFICES ASSUME ContractInv, RecordedInv, RecordedInv', SetEqual
              PROVE  ContractInv'
  OBVIOUS
<1>1. /\ stack # <<>> /\ Top.at = "equal" /\ TypeOK
      /\ Top.fun \notin mods.cached
      /\ Top.fun \in DOMAIN compared
      /\ Bodies(Top.fun)
      /\ mods' = mods /\ missing' = missing
  BY TopNotCached DEF SetEqual, InProgress, RecordedInv
<1>2. Top \in Frame /\ compared[Top.fun] \in Comparison
  BY <1>1, TopFacts DEF TypeOK
<1>. DEFINE old == compared[Top.fun]
            calls == [s \in Side |-> Weaken(old.calls[s], Top.inlined[s])]
            result == [old EXCEPT !.kind = "equal", !.calls = calls]
<1>3. result.kind = "equal" /\ result.calls = calls
  BY <1>2 DEF Comparison
<1>4. \A s \in Side : {c.to : c \in calls[s]} = Callees(Top.fun, s)
  <2>1. ASSUME NEW s \in Side
        PROVE  {c.to : c \in calls[s]} = Callees(Top.fun, s)
    <3>1. \A c \in old.calls[s] : [c EXCEPT !.weak = @ \/ c.to = Top.inlined[s]].to = c.to
      BY <1>2 DEF Comparison, Edge
    <3>2. calls[s] = {[c EXCEPT !.weak = @ \/ c.to = Top.inlined[s]] : c \in old.calls[s]}
      BY DEF Weaken
    <3>3. Callees(Top.fun, s) = {c.to : c \in old.calls[s]}
      BY DEF Callees
    <3>. HIDE DEF calls, old
    <3>4. ASSUME NEW c \in old.calls[s]
          PROVE  /\ c.to \in {d.to : d \in calls[s]}
                 /\ [c EXCEPT !.weak = @ \/ c.to = Top.inlined[s]].to \in Callees(Top.fun, s)
      <4>1. [c EXCEPT !.weak = @ \/ c.to = Top.inlined[s]] \in calls[s]
        BY <3>2
      <4>. QED
        BY <3>1, <3>3, <4>1
    <3>5. ASSUME NEW d \in calls[s]
          PROVE  d.to \in Callees(Top.fun, s)
      BY <3>2, <3>4
    <3>. QED
      BY <3>3, <3>4, <3>5
  <2>. QED
    BY <2>1
<1>5. compared' = [compared EXCEPT ![Top.fun] = result]
  BY <1>1 DEF SetEqual
<1>. HIDE DEF calls, result, old
<1>6. \A s \in Side : {c.to : c \in result.calls[s]} = Callees(Top.fun, s)
  BY <1>3, <1>4
<1>7. PICK last \in DOMAIN compared' :
                /\ last = Top.fun
                /\ last \in DOMAIN compared
                /\ DOMAIN compared' = DOMAIN compared \cup {last}
                /\ \A f \in DOMAIN compared \ {last} : compared'[f] = compared[f]
                /\ compared'[last] = result
                /\ Callees(last, "L") \subseteq Callees(last, "L")'
                /\ Callees(last, "L")' \subseteq DOMAIN compared'
                /\ Callees(last, "L")' = Callees(last, "R")'
  BY <1>1, <1>5, <1>6, SameCalls
<1>8. Decided(last)' /\ compared'[last].kind # "assumed_equal" /\ missing \subseteq missing'
  BY <1>1, <1>3, <1>7 DEF Decided
<1>9. CASE Top.rerun
  <2>1. PICK fr \in Frame : fr = [Top EXCEPT !.at = "inline"]
    BY <1>2 DEF Frame, Places
  <2>2. fr.fun = last /\ fr.at = "inline"
    BY <1>2, <1>7, <2>1 DEF Frame
  <2>3. stack' = <<fr>> \o Tail(stack)
    BY <1>9, <2>1 DEF SetEqual
  <2>. QED
    BY <1>1, <1>7, <1>8, <2>2, <2>3, ContractGoesOn
<1>10. CASE ~Top.rerun
  <2>1. stack' = Tail(stack)
    <3>1. stack' = <<>> \o Tail(stack)
      BY <1>10 DEF SetEqual
    <3>. QED
      BY <1>1, <3>1, TopTypes, ConcatEmptySeq
  <2>2. ResultOK(last)'
    <3>1. last \notin mods'.cached /\ Bodies(last)'
      BY <1>1, <1>7 DEF Bodies
    <3>2. \A s \in Side : last \in mods'.defined[s]
      BY <3>1 DEF Bodies
    <3>. QED
      BY <1>7, <1>8, <3>1, <3>2 DEF ResultOK
  <2>. QED
    BY <1>1, <1>7, <1>8, <2>1, <2>2, ContractReturns
<1>. QED
  BY <1>9, <1>10

\* The result of the last frame gets another kind.
LEMMA KindChanges ==
    ASSUME ContractInv, RecordedInv, stack # <<>>, Top.at # "enter",
           NEW kind, compared' = [compared EXCEPT ![Top.fun].kind = kind]
    PROVE  \E last \in DOMAIN compared' :
                /\ last = Top.fun
                /\ last \in DOMAIN compared
                /\ DOMAIN compared' = DOMAIN compared \cup {last}
                /\ \A f \in DOMAIN compared \ {last} : compared'[f] = compared[f]
                /\ compared'[last].kind = kind
                /\ Callees(last, "L") \subseteq Callees(last, "L")'
                /\ Callees(last, "L")' \subseteq DOMAIN compared'
                /\ Callees(last, "L")' = Callees(last, "R")'
<1>1. Top.fun \in DOMAIN compared
  BY TopNotCached
<1>2. compared[Top.fun] \in Comparison
  BY <1>1 DEF RecordedInv, TypeOK
<1>3. PICK result : result = [compared[Top.fun] EXCEPT !.kind = kind]
  OBVIOUS
<1>4. result.kind = kind /\ result.calls = compared[Top.fun].calls
  BY <1>2, <1>3 DEF Comparison
<1>5. compared' = [compared EXCEPT ![Top.fun] = result]
  BY <1>3
<1>6. \A s \in Side : {c.to : c \in result.calls[s]} = Callees(Top.fun, s)
  BY <1>4 DEF Callees
<1>7. PICK last \in DOMAIN compared' :
                /\ last = Top.fun
                /\ last \in DOMAIN compared
                /\ DOMAIN compared' = DOMAIN compared \cup {last}
                /\ \A f \in DOMAIN compared \ {last} : compared'[f] = compared[f]
                /\ compared'[last] = result
                /\ Callees(last, "L") \subseteq Callees(last, "L")'
                /\ Callees(last, "L")' \subseteq DOMAIN compared'
                /\ Callees(last, "L")' = Callees(last, "R")'
  BY <1>5, <1>6, SameCalls
<1>8. compared'[last].kind = kind
  BY <1>4, <1>7
<1>. QED
  BY <1>7, <1>8, Zenon

LEMMA SetUnequalContract ==
    ContractInv /\ RecordedInv /\ RecordedInv' /\ SetUnequal => ContractInv'
<1>. SUFFICES ASSUME ContractInv, RecordedInv, RecordedInv', SetUnequal
              PROVE  ContractInv'
  OBVIOUS
<1>1. /\ stack # <<>> /\ Top.at = "unequal"
      /\ Top.fun \notin mods.cached
      /\ Bodies(Top.fun)
      /\ mods' = mods /\ missing' = missing
      /\ compared' = [compared EXCEPT ![Top.fun].kind = "not_equal"]
  BY TopNotCached DEF SetUnequal, InProgress
<1>2. Top \in Frame
  BY <1>1, TopFacts
<1>3. PICK last \in DOMAIN compared' :
                /\ last = Top.fun
                /\ last \in DOMAIN compared
                /\ DOMAIN compared' = DOMAIN compared \cup {last}
                /\ \A f \in DOMAIN compared \ {last} : compared'[f] = compared[f]
                /\ compared'[last].kind = "not_equal"
                /\ Callees(last, "L") \subseteq Callees(last, "L")'
                /\ Callees(last, "L")' \subseteq DOMAIN compared'
                /\ Callees(last, "L")' = Callees(last, "R")'
  BY <1>1, KindChanges
<1>4. PICK fr \in Frame : fr = [Top EXCEPT !.at = "inline"]
  BY <1>2 DEF Frame, Places
<1>5. fr.fun = last /\ fr.at = "inline"
  BY <1>2, <1>3, <1>4 DEF Frame
<1>6. stack' = <<fr>> \o Tail(stack)
  BY <1>4 DEF SetUnequal
<1>7. Decided(last)' /\ compared'[last].kind # "assumed_equal" /\ missing \subseteq missing'
  BY <1>1, <1>3 DEF Decided
<1>. QED
  BY <1>1, <1>3, <1>5, <1>6, <1>7, ContractGoesOn

\* compareFunctions returns with the verdict it has.
LEMMA LeavesContract ==
    ASSUME ContractInv, RecordedInv, RecordedInv', InProgress("inline"),
           mods' = mods, compared' = compared, missing \subseteq missing', stack' = Tail(stack)
    PROVE  ContractInv'
<1>1. /\ stack # <<>> /\ Top.at = "inline"
      /\ Top.fun \notin mods.cached
      /\ Top.fun \in DOMAIN compared
      /\ Bodies(Top.fun)
      /\ Known = DOMAIN compared
  BY TopNotCached DEF InProgress
<1>2. PICK last \in DOMAIN compared' : last = Top.fun
  BY <1>1
<1>3. Callees(last, "L")' = Callees(last, "L") /\ Callees(last, "R")' = Callees(last, "R")
  BY DEF Callees
<1>4. Callees(last, "L") \subseteq DOMAIN compared /\ ResultOK(last) /\ Decided(last)
  BY <1>1, <1>2 DEF ContractInv
<1>5. ResultOK(last)'
  <2>1. Decided(last)' /\ Bodies(last)' /\ last \notin mods'.cached
    BY <1>1, <1>2, <1>4 DEF Decided, Bodies
  <2>2. \A s \in Side : last \in mods'.defined[s]
    BY <2>1 DEF Bodies
  <2>. QED
    BY <1>3, <1>4, <2>1, <2>2 DEF ResultOK, Decided
<1>6. /\ DOMAIN compared' = DOMAIN compared \cup {last}
      /\ \A f \in DOMAIN compared \ {last} : compared'[f] = compared[f]
      /\ Callees(last, "L") \subseteq Callees(last, "L")'
      /\ Callees(last, "L")' \subseteq DOMAIN compared'
  BY <1>2, <1>3, <1>4
<1>. QED
  BY <1>1, <1>2, <1>5, <1>6, ContractReturns

LEMMA InlineContract ==
    ContractInv /\ RecordedInv /\ RecordedInv' /\ Inline => ContractInv'
<1>. SUFFICES ASSUME ContractInv, RecordedInv, RecordedInv', Inline
              PROVE  ContractInv'
  OBVIOUS
<1>1. /\ stack # <<>> /\ Top.at = "inline" /\ InProgress("inline")
      /\ Top.fun \notin mods.cached
      /\ Bodies(Top.fun)
      /\ mods' = mods /\ missing \subseteq missing'
  BY TopNotCached DEF Inline, InProgress
<1>2. CASE Inlinable = {}
  BY <1>1, <1>2, LeavesContract DEF Inline
<1>3. CASE Inlinable # {}
  <2>1. compared' = [compared EXCEPT ![Top.fun].kind = "unknown"]
    BY <1>3 DEF Inline
  <2>2. PICK last \in DOMAIN compared' :
                /\ last = Top.fun
                /\ last \in DOMAIN compared
                /\ DOMAIN compared' = DOMAIN compared \cup {last}
                /\ \A f \in DOMAIN compared \ {last} : compared'[f] = compared[f]
                /\ compared'[last].kind = "unknown"
                /\ Callees(last, "L") \subseteq Callees(last, "L")'
                /\ Callees(last, "L")' \subseteq DOMAIN compared'
                /\ Callees(last, "L")' = Callees(last, "R")'
    BY <1>1, <2>1, KindChanges
  <2>3. PICK fr \in Frame : fr = [NewFrame(Top.fun) EXCEPT
                                    !.at = "compare",
                                    !.inlined = [s \in Side |-> Called(s)],
                                    !.rerun = TRUE]
    <3>1. [s \in Side |-> Called(s)] \in [Side -> Funs \cup {NoFun}]
      BY <1>1, CalledTypes DEF Called
    <3>2. Top.fun \in Funs
      BY <1>1, TopFacts DEF Frame
    <3>3. NewFrame(Top.fun) \in Frame
      BY <3>2, NewFrameType
    <3>. QED
      BY <3>1, <3>3 DEF Frame, Places
  <2>4. fr.fun = last /\ fr.at = "compare"
    BY <2>2, <2>3 DEF NewFrame
  <2>5. stack' = <<fr>> \o Tail(stack)
    BY <1>3, <2>3 DEF Inline
  <2>6. fr.at # "enter" /\ (fr.at = "inline" => Decided(last)') /\ compared'[last].kind # "assumed_equal"
    BY <2>2, <2>4
  <2>. QED
    BY <1>1, <2>2, <2>4, <2>5, <2>6, ContractGoesOn
<1>. QED
  BY <1>2, <1>3

LEMMA InitContract == Init => ContractInv
<1>. SUFFICES ASSUME Init
              PROVE  ContractInv
  OBVIOUS
<1>1. RecordedInv
  BY InitRecorded
<1>2. stack = <<NewFrame(mods.main)>> /\ compared = [f \in {} |-> NewComparison]
  BY DEF Init
<1>3. stack # <<>> /\ Top.fun = mods.main /\ Top.at = "enter" /\ DOMAIN compared = {}
  BY <1>2 DEF Top, NewFrame
<1>4. Known = {mods.main}
  BY <1>1, <1>3, TopFacts
<1>5. mods.main \in Closure(mods.main, CallGraph)
  BY ClosureFacts
<1>6. Ongoing = {mods.main}
  BY <1>2 DEF Ongoing, NewFrame
<1>. QED
  BY <1>3, <1>4, <1>5, <1>6 DEF ContractInv, InProgress

LEMMA NextContract ==
    ContractInv /\ RecordedInv /\ RecordedInv' /\ [Next]_vars => ContractInv'
<1>. SUFFICES ASSUME ContractInv, RecordedInv, RecordedInv', [Next]_vars
              PROVE  ContractInv'
  OBVIOUS
<1>1. CASE EnterCached
  BY <1>1, EnterCachedContract
<1>2. CASE EnterDeclaration
  BY <1>2, EnterDeclarationContract
<1>3. CASE EnterBodies
  BY <1>3, EnterBodiesContract
<1>4. CASE Compare \/ ScanEqual \/ ScanSkip \/ ScanDiffers \/ TryCalls
  BY <1>4, MovesContract
<1>5. CASE ScanCalls
  BY <1>5, ScanCallsContract
<1>6. CASE ScanCallsDiffer
  BY <1>6, ScanCallsDifferContract
<1>7. CASE SetEqual
  BY <1>7, SetEqualContract
<1>8. CASE SetUnequal
  BY <1>8, SetUnequalContract
<1>9. CASE Inline
  BY <1>9, InlineContract
<1>10. CASE Return
  BY <1>10, LeavesContract DEF Return
<1>11. CASE Done \/ UNCHANGED vars
  <2>1. /\ mods' = mods /\ stack' = stack
        /\ compared' = compared /\ missing' = missing
    BY <1>11 DEF Done, vars
  <2>2. Known' = Known /\ CallGraph' = CallGraph /\ Ongoing' = Ongoing /\ Top' = Top
    BY <2>1 DEF Known, CallGraph, Ongoing, Top
  <2>3. ASSUME NEW f \in DOMAIN compared'
        PROVE  (Callees(f, "L") \subseteq Known /\ ResultOK(f))'
    <3>1. Callees(f, "L") \subseteq Known /\ ResultOK(f)
      BY <2>1 DEF ContractInv
    <3>2. Callees(f, "L")' = Callees(f, "L") /\ Callees(f, "R")' = Callees(f, "R")
      BY <2>1 DEF Callees
    <3>3. (Bodies(f)' <=> Bodies(f)) /\ (Decided(f)' <=> Decided(f))
      BY <2>1 DEF Bodies, Decided
    <3>. QED
      BY <2>1, <2>2, <3>1, <3>2, <3>3 DEF ResultOK
  <2>4. \A at : InProgress(at)' <=> InProgress(at)
    BY <2>1, <2>2 DEF InProgress
  <2>5. /\ mods'.main \in Known'
        /\ Known' \subseteq Closure(mods'.main, CallGraph')
        /\ \A f \in Ongoing' \cap mods'.cached : (InProgress("enter") /\ f = Top.fun)'
    BY <2>1, <2>2, <2>4 DEF ContractInv
  <2>6. (InProgress("inline") => Decided(Top.fun))'
    BY <2>1, <2>2, <2>4 DEF ContractInv, Decided
  <2>. QED
    BY <2>3, <2>5, <2>6 DEF ContractInv
<1>. QED
  BY <1>1, <1>2, <1>3, <1>4, <1>5, <1>6, <1>7, <1>8, <1>9, <1>10, <1>11 DEF Next

\* What the session relies on, whatever is inlined and whatever recurs: when SimpLL
\* ends, the pairs in its output are those that the recorded calls lead to from the
\* main one (ModuleComparator.cpp), each has the verdict its bodies and the cache call
\* for, both sides record the same calls, and a body missing on one side is reported.
THEOREM ContractIsKept == Spec => []ContractKept
<1>1. ASSUME ContractInv, RecordedInv, Ended
      PROVE  /\ DOMAIN compared = Closure(mods.main, CallGraph)
             /\ \A f \in DOMAIN compared : ResultOK(f) /\ f \notin Ongoing
  <2>1. DOMAIN stack = {}
    BY <1>1 DEF Ended
  <2>2. Known = DOMAIN compared /\ Ongoing = {}
    BY <2>1 DEF Known, Ongoing
  <2>3. mods.main \in DOMAIN compared /\ \A f \in DOMAIN compared : Callees(f, "L") \subseteq DOMAIN compared
    BY <1>1, <2>2 DEF ContractInv
  <2>4. \A r \in CallGraph : r[1] \in DOMAIN compared => r[2] \in DOMAIN compared
    BY <2>3 DEF CallGraph, Callees
  <2>5. Closure(mods.main, CallGraph) \subseteq DOMAIN compared
    BY <2>3, <2>4, ClosureFacts
  <2>. QED
    BY <1>1, <2>2, <2>5 DEF ContractInv
<1>2. ContractInv /\ RecordedInv => ContractKept
  <2>1. SUFFICES ASSUME ContractInv, RecordedInv, Ended
                 PROVE  ContractKept
    BY DEF ContractKept
  <2>2. ASSUME NEW f \in DOMAIN compared
        PROVE  /\ {c.to : c \in compared[f].calls["L"]} = {c.to : c \in compared[f].calls["R"]}
               /\ compared[f].kind = "unknown" <=> f \in mods.cached
               /\ f \notin mods.cached => (compared[f].kind = "assumed_equal" <=> ~Bodies(f))
               /\ \A s, t \in Side : f \in mods.defined[s] \ (mods.defined[t] \cup mods.cached)
                        => [side |-> t, fun |-> f] \in missing
    <3>1. ResultOK(f) /\ f \notin Ongoing
      BY <1>1, <2>1
    <3>. QED
      BY <3>1 DEF ResultOK, Decided, Callees
  <2>3. DOMAIN compared = Closure(mods.main, CallGraph)
    BY <1>1, <2>1
  <2>. QED
    BY <2>2, <2>3 DEF ContractKept, CallGraph
<1>3. ContractInv /\ RecordedInv /\ [Next]_vars => ContractInv' /\ RecordedInv'
  BY NextRecorded, NextContract
<1>. QED
  BY <1>2, <1>3, InitRecorded, InitContract, PTL DEF Spec


-----------------------------------------------------------------------------
(* Functions found equal have bodies that match. *)

\* The first p - 1 instructions of l and the first q - 1 of r match: in their order,
\* each but for casts is the same as one of the other's, for the comparator.
Matched(l, r, p, q) ==
    \E pairs \in SUBSET ((DOMAIN l) \X (DOMAIN r)) :
        /\ \A x \in pairs : x[1] < p /\ x[2] < q /\ Same(l[x[1]], r[x[2]])
        /\ \A x, y \in pairs : x[1] < y[1] <=> x[2] < y[2]
        /\ \A n \in DOMAIN l : n < p /\ l[n].kind # "cast" => \E x \in pairs : x[1] = n
        /\ \A n \in DOMAIN r : n < q /\ r[n].kind # "cast" => \E x \in pairs : x[2] = n

MatchedUpTo(f, p, q) ==
    mods.arity.L[f] = mods.arity.R[f] /\ Matched(body.L[f], body.R[f], p, q)

SameBodies(f) == MatchedUpTo(f, Len(body.L[f]) + 1, Len(body.R[f]) + 1)

\* Functions found equal have as many parameters, and bodies that match.
EqualBodiesMatch ==
    \A f \in DOMAIN compared : Compared(f) /\ compared[f].kind = "equal" => SameBodies(f)

\* What a frame has matched at each place.
MatchedFrame(fr) ==
    /\ fr.at \in {"scan", "differ"} => MatchedUpTo(fr.fun, fr.pos.L, fr.pos.R)
    /\ fr.at = "equal" => SameBodies(fr.fun)
    /\ fr.at = "inline" => (compared[fr.fun].kind = "equal" => SameBodies(fr.fun))

MatchInv == (\A fr \in Range(stack) : MatchedFrame(fr)) /\ EqualBodiesMatch

\* At the beginning nothing has to match.
LEMMA MatchedNone ==
    ASSUME NEW l \in Seq(Instr), NEW r \in Seq(Instr)
    PROVE  Matched(l, r, 1, 1)
<1>1. (\A n \in DOMAIN l : ~(n < 1)) /\ (\A n \in DOMAIN r : ~(n < 1))
  OBVIOUS
<1>2. {} \in SUBSET ((DOMAIN l) \X (DOMAIN r))
  OBVIOUS
<1>. QED
  BY <1>1, <1>2 DEF Matched

\* The next two instructions are the same.
LEMMA MatchedPair ==
    ASSUME NEW l \in Seq(Instr), NEW r \in Seq(Instr), NEW p \in DOMAIN l, NEW q \in DOMAIN r,
           Matched(l, r, p, q), Same(l[p], r[q])
    PROVE  Matched(l, r, p + 1, q + 1)
<1>1. PICK pairs \in SUBSET ((DOMAIN l) \X (DOMAIN r)) :
        /\ \A x \in pairs : x[1] < p /\ x[2] < q /\ Same(l[x[1]], r[x[2]])
        /\ \A x, y \in pairs : x[1] < y[1] <=> x[2] < y[2]
        /\ \A n \in DOMAIN l : n < p /\ l[n].kind # "cast" => \E x \in pairs : x[1] = n
        /\ \A n \in DOMAIN r : n < q /\ r[n].kind # "cast" => \E x \in pairs : x[2] = n
  BY DEF Matched
<1>. DEFINE more == pairs \cup {<<p, q>>}
<1>2. DOMAIN l \subseteq Nat /\ DOMAIN r \subseteq Nat
  OBVIOUS
<1>3. more \in SUBSET ((DOMAIN l) \X (DOMAIN r))
  OBVIOUS
<1>4. \A x \in pairs : x[1] \in Nat /\ x[2] \in Nat /\ x[1] < p /\ x[2] < q
  BY <1>1, <1>2
<1>5. \A x \in more : x[1] < p + 1 /\ x[2] < q + 1 /\ Same(l[x[1]], r[x[2]])
  BY <1>1, <1>2, <1>4
<1>6. ASSUME NEW x \in more, NEW y \in more
      PROVE  x[1] < y[1] <=> x[2] < y[2]
  <2>1. CASE x \in pairs /\ y \in pairs
    BY <1>1, <2>1
  <2>2. CASE x \in pairs /\ y = <<p, q>>
    BY <1>4, <2>2
  <2>3. CASE x = <<p, q>> /\ y \in pairs
    BY <1>2, <1>4, <2>3
  <2>4. CASE x = <<p, q>> /\ y = <<p, q>>
    BY <1>2, <2>4
  <2>. QED
    BY <2>1, <2>2, <2>3, <2>4
<1>7. <<p, q>> \in more /\ <<p, q>>[1] = p /\ <<p, q>>[2] = q
  OBVIOUS
<1>8. ASSUME NEW n \in DOMAIN l, n < p + 1, l[n].kind # "cast"
      PROVE  \E x \in more : x[1] = n
  <2>1. n = p \/ n < p
    BY <1>2, <1>8
  <2>. QED
    BY <1>1, <1>7, <1>8, <2>1
<1>9. ASSUME NEW n \in DOMAIN r, n < q + 1, r[n].kind # "cast"
      PROVE  \E x \in more : x[2] = n
  <2>1. n = q \/ n < q
    BY <1>2, <1>9
  <2>. QED
    BY <1>1, <1>7, <1>9, <2>1
<1>. HIDE DEF more
<1>. QED
  BY <1>3, <1>5, <1>6, <1>8, <1>9 DEF Matched

\* The next instruction of one side is skipped, because it is a cast or is none.
LEMMA MatchedSkip ==
    ASSUME NEW l \in Seq(Instr), NEW r \in Seq(Instr), NEW p \in Nat, NEW q \in Nat,
           NEW u \in Nat, NEW v \in Nat, p <= u, q <= v, Matched(l, r, p, q),
           \A n \in DOMAIN l : p <= n /\ n < u => l[n].kind = "cast",
           \A n \in DOMAIN r : q <= n /\ n < v => r[n].kind = "cast"
    PROVE  Matched(l, r, u, v)
<1>1. PICK pairs \in SUBSET ((DOMAIN l) \X (DOMAIN r)) :
        /\ \A x \in pairs : x[1] < p /\ x[2] < q /\ Same(l[x[1]], r[x[2]])
        /\ \A x, y \in pairs : x[1] < y[1] <=> x[2] < y[2]
        /\ \A n \in DOMAIN l : n < p /\ l[n].kind # "cast" => \E x \in pairs : x[1] = n
        /\ \A n \in DOMAIN r : n < q /\ r[n].kind # "cast" => \E x \in pairs : x[2] = n
  BY DEF Matched
<1>2. DOMAIN l \subseteq Nat /\ DOMAIN r \subseteq Nat
  OBVIOUS
<1>3. \A x \in pairs : x[1] \in Nat /\ x[2] \in Nat
  BY <1>2
<1>4. \A x \in pairs : x[1] < u /\ x[2] < v /\ Same(l[x[1]], r[x[2]])
  BY <1>1, <1>3
<1>5. \A n \in DOMAIN l : n < u /\ l[n].kind # "cast" => n < p
  BY <1>2
<1>6. \A n \in DOMAIN r : n < v /\ r[n].kind # "cast" => n < q
  BY <1>2
<1>. QED
  BY <1>1, <1>4, <1>5, <1>6 DEF Matched

\* All instructions have been passed.
LEMMA MatchedEnd ==
    ASSUME NEW l \in Seq(Instr), NEW r \in Seq(Instr),
           NEW p \in (Nat \ {0}) \ DOMAIN l, NEW q \in (Nat \ {0}) \ DOMAIN r,
           Matched(l, r, p, q)
    PROVE  Matched(l, r, Len(l) + 1, Len(r) + 1)
<1>1. PICK pairs \in SUBSET ((DOMAIN l) \X (DOMAIN r)) :
        /\ \A x \in pairs : x[1] < p /\ x[2] < q /\ Same(l[x[1]], r[x[2]])
        /\ \A x, y \in pairs : x[1] < y[1] <=> x[2] < y[2]
        /\ \A n \in DOMAIN l : n < p /\ l[n].kind # "cast" => \E x \in pairs : x[1] = n
        /\ \A n \in DOMAIN r : n < q /\ r[n].kind # "cast" => \E x \in pairs : x[2] = n
  BY DEF Matched
<1>2. /\ \A n \in DOMAIN l : n < p /\ n < Len(l) + 1
      /\ \A n \in DOMAIN r : n < q /\ n < Len(r) + 1
  OBVIOUS
<1>3. \A x \in pairs : x[1] < Len(l) + 1 /\ x[2] < Len(r) + 1 /\ Same(l[x[1]], r[x[2]])
  BY <1>1, <1>2
<1>. QED
  BY <1>1, <1>2, <1>3 DEF Matched

\* What is matched stays so when neither bodies nor results change.
LEMMA MatchedFrameStays ==
    ASSUME NEW fr, mods' = mods, \A s \in Side : body'[s][fr.fun] = body[s][fr.fun],
           compared'[fr.fun] = compared[fr.fun]
    PROVE  MatchedFrame(fr)' <=> MatchedFrame(fr)
BY DEF MatchedFrame, SameBodies, MatchedUpTo, Side

\* A step about the last frame keeps what the others have matched.
LEMMA MatchStep ==
    ASSUME MatchInv, RecordedInv, stack # <<>>, OnlyTop,
           \A g \in Range(stack') : (\E n \in DOMAIN stack \ {1} : g = stack[n]) \/ MatchedFrame(g)',
           NEW last, last = Top.fun,
           last \in Ongoing' \/ (compared'[last].kind = "equal" => SameBodies(last)'),
           Ongoing \ {Top.fun} \subseteq Ongoing'
    PROVE  MatchInv'
<1>1. ASSUME NEW g \in Range(stack')
      PROVE  MatchedFrame(g)'
  <2>1. SUFFICES ASSUME NEW n \in DOMAIN stack \ {1}, g = stack[n]
                 PROVE  MatchedFrame(g)'
    OBVIOUS
  <2>2. g.fun \in DOMAIN compared \ {Top.fun}
    BY <2>1, WaitingFrame DEF FrameOK
  <2>3. MatchedFrame(g)
    BY <2>1 DEF MatchInv, Range
  <2>. QED
    BY <2>2, <2>3, MatchedFrameStays DEF OnlyTop
<1>2. ASSUME NEW f \in DOMAIN compared', Compared(f)', compared'[f].kind = "equal"
      PROVE  SameBodies(f)'
  <2>1. f \notin Ongoing'
    BY <1>2 DEF Compared, Ongoing
  <2>2. CASE f = last
    <3>1. SameBodies(last)'
      BY <1>2, <2>1, <2>2
    <3>. QED
      BY <2>2, <3>1
  <2>3. CASE f # last
    <3>1. f \in DOMAIN compared \ {Top.fun} /\ f \notin Ongoing
      BY <2>1, <2>3 DEF OnlyTop
    <3>2. Compared(f) /\ compared[f].kind = "equal"
      BY <1>2, <3>1 DEF Compared, Ongoing, OnlyTop
    <3>3. SameBodies(f)
      BY <3>1, <3>2 DEF MatchInv, EqualBodiesMatch
    <3>. QED
      BY <3>1, <3>3 DEF OnlyTop, SameBodies, MatchedUpTo, Side
  <2>. QED
    BY <2>2, <2>3
<1>. QED
  BY <1>1, <1>2 DEF MatchInv, EqualBodiesMatch

\* The last comparison goes on, in another place.
LEMMA MatchGoesOn ==
    ASSUME MatchInv, RecordedInv, stack # <<>>, OnlyTop,
           NEW fr \in Frame, fr.fun = Top.fun, MatchedFrame(fr)',
           stack' = <<fr>> \o Tail(stack)
    PROVE  MatchInv'
<1>1. stack \in Seq(Frame) /\ 1 \in DOMAIN stack /\ Top = stack[1]
  BY DEF RecordedInv, TypeOK, Top
<1>2. /\ DOMAIN stack' = DOMAIN stack
      /\ stack'[1] = fr
      /\ \A n \in DOMAIN stack \ {1} : stack'[n] = stack[n]
  BY <1>1, ReplaceTop
<1>3. Ongoing' = Ongoing /\ Top.fun \in Ongoing
  BY <1>1, OngoingGoesOn DEF RecordedInv, Ongoing
<1>4. \A g \in Range(stack') : (\E n \in DOMAIN stack \ {1} : g = stack[n]) \/ g = fr
  BY <1>2 DEF Range
<1>5. PICK last : last = Top.fun
  OBVIOUS
<1>. QED
  BY <1>3, <1>4, <1>5, MatchStep

\* It is over.
LEMMA MatchReturns ==
    ASSUME MatchInv, RecordedInv, stack # <<>>, OnlyTop,
           NEW last, last = Top.fun,
           compared'[last].kind = "equal" => SameBodies(last)',
           stack' = Tail(stack)
    PROVE  MatchInv'
<1>1. stack \in Seq(Frame) /\ DOMAIN stack = 1 .. Len(stack) /\ Len(stack) \in Nat \ {0}
  BY DEF RecordedInv, TypeOK
<1>2. /\ DOMAIN stack' = 1 .. Len(stack) - 1
      /\ \A n \in DOMAIN stack' : stack'[n] = stack[n + 1]
  BY <1>1, HeadTailProperties
<1>3. \A n \in DOMAIN stack' : n + 1 \in DOMAIN stack \ {1}
  BY <1>1, <1>2
<1>4. \A g \in Range(stack') : \E n \in DOMAIN stack \ {1} : g = stack[n]
  BY <1>2, <1>3 DEF Range
<1>5. Ongoing \ {Top.fun} \subseteq Ongoing'
  BY OngoingReturns
<1>. QED
  BY <1>4, <1>5, MatchStep

\* It waits for that of a new pair.
LEMMA MatchWaits ==
    ASSUME MatchInv, RecordedInv, stack # <<>>, OnlyTop,
           NEW fr \in Frame, fr.fun = Top.fun, MatchedFrame(fr)',
           NEW new \in Frame, new.at = "enter",
           stack' = <<new>> \o (<<fr>> \o Tail(stack))
    PROVE  MatchInv'
<1>. DEFINE t == <<fr>> \o Tail(stack)
<1>1. stack \in Seq(Frame) /\ 1 \in DOMAIN stack /\ Top = stack[1]
  BY DEF RecordedInv, TypeOK, Top
<1>2. /\ t \in Seq(Frame)
      /\ DOMAIN t = DOMAIN stack
      /\ t[1] = fr
      /\ \A n \in DOMAIN stack \ {1} : t[n] = stack[n]
  BY <1>1, ReplaceTop
<1>3. Ongoing' = Ongoing \cup {new.fun} /\ Top.fun \in Ongoing
  BY <1>1, OngoingWaits DEF RecordedInv, Ongoing
<1>4. stack' = <<new>> \o t
  OBVIOUS
<1>. HIDE DEF t
<1>5. /\ stack' \in Seq(Frame)
      /\ Len(stack') = Len(t) + 1
      /\ stack'[1] = new
      /\ \A n \in 2 .. Len(t) + 1 : stack'[n] = t[n - 1]
  <2>1. /\ <<new>> \o t \in Seq(Frame)
        /\ Len(<<new>> \o t) = Len(t) + 1
        /\ (<<new>> \o t)[1] = new
        /\ \A n \in 2 .. Len(t) + 1 : (<<new>> \o t)[n] = t[n - 1]
    BY <1>2, Push
  <2>. QED
    BY <1>4, <2>1
<1>6. ASSUME NEW g \in Range(stack')
      PROVE  (\E n \in DOMAIN stack \ {1} : g = stack[n]) \/ g = fr \/ g = new
  <2>1. PICK n \in DOMAIN stack' : g = stack'[n]
    BY DEF Range
  <2>2. CASE n = 1
    BY <1>5, <2>1, <2>2
  <2>3. CASE n # 1
    <3>1. n - 1 \in DOMAIN t /\ g = t[n - 1]
      BY <1>2, <1>5, <2>1, <2>3
    <3>. QED
      BY <1>2, <3>1
  <2>. QED
    BY <2>2, <2>3
<1>7. MatchedFrame(new)'
  BY DEF MatchedFrame
<1>8. PICK last : last = Top.fun
  OBVIOUS
<1>. QED
  BY <1>3, <1>6, <1>7, <1>8, MatchStep

\* No result changes, and the last comparison goes on.
LEMMA MatchMoves ==
    ASSUME MatchInv, RecordedInv, stack # <<>>, Top.at # "enter",
           mods' = mods, body' = body, compared' = compared,
           NEW fr \in Frame, fr.fun = Top.fun, MatchedFrame(fr),
           stack' = <<fr>> \o Tail(stack)
    PROVE  MatchInv'
<1>1. OnlyTop
  BY TopFacts DEF OnlyTop
<1>2. MatchedFrame(fr)'
  BY MatchedFrameStays
<1>. QED
  BY <1>1, <1>2, MatchGoesOn

\* What the last frame has matched, where it scans.
LEMMA TopMatched ==
    ASSUME MatchInv, RecordedInv, stack # <<>>
    PROVE  /\ Top \in Frame
           /\ Top.fun \in Funs
           /\ Top.pos \in [Side -> Nat \ {0}]
           /\ \A s \in Side : body[s][Top.fun] \in Seq(Instr)
           /\ body.L[Top.fun] \in Seq(Instr) /\ body.R[Top.fun] \in Seq(Instr)
           /\ Top.pos.L \in Nat /\ Top.pos.R \in Nat
           /\ Top.at \in {"scan", "differ"} => MatchedUpTo(Top.fun, Top.pos.L, Top.pos.R)
           /\ MatchedFrame(Top)
<1>1. Top \in Frame /\ TypeOK
  BY TopFacts DEF RecordedInv
<1>2. Top \in Range(stack)
  <2>1. Top = stack[1] /\ 1 \in DOMAIN stack
    BY <1>1 DEF TypeOK, Top
  <2>. QED
    BY <2>1 DEF Range
<1>3. MatchedFrame(Top)
  BY <1>2 DEF MatchInv
<1>4. Top.fun \in Funs /\ Top.pos \in [Side -> Nat \ {0}]
  BY <1>1 DEF Frame
<1>5. \A s \in Side : body[s][Top.fun] \in Seq(Instr) /\ Top.pos[s] \in Nat
  BY <1>1, <1>4 DEF TypeOK
<1>. QED
  BY <1>1, <1>3, <1>4, <1>5 DEF MatchedFrame, Side

\* Where no instruction is left, the comparator is at a return.
LEMMA AtReturn ==
    ASSUME RecordedInv, stack # <<>>, NEW s \in Side
    PROVE  At(s).kind = "ret" <=> Top.pos[s] \notin DOMAIN body[s][Top.fun]
<1>1. TypeOK /\ Top \in Frame
  BY TopFacts DEF RecordedInv
<1>2. body[s][Top.fun] \in Seq(Instr) /\ Top.pos[s] \in Nat \ {0}
  BY <1>1 DEF TypeOK, Frame
<1>3. CASE Top.pos[s] \in DOMAIN body[s][Top.fun]
  <2>1. At(s) = body[s][Top.fun][Top.pos[s]]
    BY <1>1, <1>3, AtTypes
  <2>2. body[s][Top.fun][Top.pos[s]] \in Instr
    BY <1>2, <1>3
  <2>3. At(s).kind # "ret"
    BY <2>1, <2>2 DEF Instr
  <2>. QED
    BY <1>3, <2>3
<1>4. CASE Top.pos[s] \notin DOMAIN body[s][Top.fun]
  <2>1. Top.pos[s] > Len(body[s][Top.fun])
    BY <1>2, <1>4
  <2>2. At(s) = Ret
    BY <2>1 DEF At
  <2>. QED
    BY <1>4, <2>2 DEF Ret
<1>. QED
  BY <1>3, <1>4

\* The steps.
LEMMA EnterMatch ==
    MatchInv /\ RecordedInv /\ (EnterCached \/ EnterDeclaration \/ EnterBodies) => MatchInv'
<1>. SUFFICES ASSUME MatchInv, RecordedInv, EnterCached \/ EnterDeclaration \/ EnterBodies
              PROVE  MatchInv'
  OBVIOUS
<1>. DEFINE assumed == [NewComparison EXCEPT !.kind = "assumed_equal"]
<1>1. stack # <<>> /\ InProgress("enter") /\ mods' = mods /\ body' = body
  BY DEF EnterCached, EnterDeclaration, EnterBodies, InProgress
<1>2. PICK last : last = Top.fun
  OBVIOUS
<1>3. assumed \in Comparison /\ assumed.kind = "assumed_equal" /\ NewComparison.kind = "unknown"
  BY DEF NewComparison, Comparison, Verdicts, Side
<1>4. CASE EnterCached \/ EnterDeclaration
  <2>1. PICK result \in {NewComparison, assumed} :
            compared' = WithResult(Top.fun, result) /\ stack' = Tail(stack)
    BY <1>4 DEF EnterCached, EnterDeclaration
  <2>2. result \in Comparison /\ result.kind # "equal"
    BY <1>3, <2>1, NewComparisonType
  <2>3. OnlyTop /\ compared'[last] = result
    BY <1>1, <1>2, <2>1, <2>2, Entered
  <2>. QED
    BY <1>1, <1>2, <2>1, <2>2, <2>3, MatchReturns
<1>5. CASE EnterBodies
  <2>1. OnlyTop
    BY <1>1, <1>5, Entered, NewComparisonType DEF EnterBodies
  <2>2. Top \in Frame
    BY <1>1, TopFacts
  <2>3. PICK fr \in Frame : fr = [Top EXCEPT !.at = "compare"]
    BY <2>2 DEF Frame, Places
  <2>4. fr.fun = Top.fun /\ fr.at = "compare"
    BY <2>2, <2>3 DEF Frame
  <2>5. MatchedFrame(fr)'
    BY <2>4 DEF MatchedFrame
  <2>6. stack' = <<fr>> \o Tail(stack)
    BY <1>5, <2>3 DEF EnterBodies
  <2>. QED
    BY <1>1, <2>1, <2>4, <2>5, <2>6, MatchGoesOn
<1>. QED
  BY <1>4, <1>5

LEMMA CompareMatch == MatchInv /\ RecordedInv /\ Compare => MatchInv'
<1>. SUFFICES ASSUME MatchInv, RecordedInv, Compare
              PROVE  MatchInv'
  OBVIOUS
<1>1. stack # <<>> /\ Top.at = "compare"
  BY DEF Compare, InProgress
<1>2. /\ Top \in Frame
      /\ \A s \in Side : Top.pos[s] = 1
      /\ body.L[Top.fun] \in Seq(Instr) /\ body.R[Top.fun] \in Seq(Instr)
  BY <1>1, TopFacts, TopMatched DEF FrameOK
<1>3. PICK fr \in Frame : fr = [Top EXCEPT !.at = IF mods.arity.L[Top.fun] = mods.arity.R[Top.fun]
                                                  THEN "scan" ELSE "unequal"]
  BY <1>2 DEF Frame, Places
<1>4. /\ fr.fun = Top.fun /\ fr.pos = Top.pos
      /\ fr.at \in {"scan", "unequal"}
      /\ fr.at = "scan" => mods.arity.L[Top.fun] = mods.arity.R[Top.fun]
  BY <1>2, <1>3 DEF Frame
<1>5. fr.pos.L = 1 /\ fr.pos.R = 1
  BY <1>2, <1>4 DEF Side
<1>6. MatchedFrame(fr)
  BY <1>2, <1>4, <1>5, MatchedNone DEF MatchedFrame, MatchedUpTo
<1>. QED
  BY <1>1, <1>3, <1>4, <1>6, MatchMoves DEF Compare

\* The scan moves past instructions that are the same, or past a cast.
LEMMA ScanAdvancesMatch ==
    ASSUME MatchInv, RecordedInv, InProgress("scan"), NEW sides \in SUBSET Side,
           \/ sides = Side /\ Same(At("L"), At("R")) /\ At("L").kind # "ret"
           \/ \A s \in sides : At(s).kind = "cast"
    PROVE  /\ Advance(sides) \in Frame
           /\ Advance(sides).fun = Top.fun
           /\ MatchedFrame(Advance(sides))
<1>1. stack # <<>> /\ Top.at = "scan" /\ TypeOK
  BY DEF InProgress, RecordedInv
<1>2. /\ Top \in Frame
      /\ body.L[Top.fun] \in Seq(Instr) /\ body.R[Top.fun] \in Seq(Instr)
      /\ Top.pos.L \in Nat /\ Top.pos.R \in Nat
      /\ mods.arity.L[Top.fun] = mods.arity.R[Top.fun]
      /\ Matched(body.L[Top.fun], body.R[Top.fun], Top.pos.L, Top.pos.R)
  BY <1>1, TopMatched DEF MatchedUpTo
<1>3. PICK fr \in Frame : fr = Advance(sides)
  BY <1>1, AdvanceType
<1>4. /\ fr.fun = Top.fun
      /\ fr.at = "scan"
      /\ \A s \in Side : fr.pos[s] = Top.pos[s] + (IF s \in sides THEN 1 ELSE 0)
  BY <1>1, <1>2, <1>3 DEF Advance, Frame
<1>5. Matched(body.L[Top.fun], body.R[Top.fun], fr.pos.L, fr.pos.R)
  <2>1. CASE sides = Side /\ Same(At("L"), At("R")) /\ At("L").kind # "ret"
    <3>1. At("R").kind = At("L").kind
      BY <2>1 DEF Same, EqualOperands, EqualInSource, SameOperation
    <3>2. Top.pos.L \in DOMAIN body.L[Top.fun] /\ Top.pos.R \in DOMAIN body.R[Top.fun]
      BY <1>1, <2>1, <3>1, AtReturn DEF Side
    <3>3. At("L") = body.L[Top.fun][Top.pos.L] /\ At("R") = body.R[Top.fun][Top.pos.R]
      BY <1>1, <3>2, AtTypes DEF Side
    <3>4. fr.pos.L = Top.pos.L + 1 /\ fr.pos.R = Top.pos.R + 1
      BY <1>4, <2>1 DEF Side
    <3>. QED
      BY <1>2, <2>1, <3>2, <3>3, <3>4, MatchedPair
  <2>2. CASE \A s \in sides : At(s).kind = "cast"
    <3>1. ASSUME NEW s \in Side, NEW n \in DOMAIN body[s][Top.fun], Top.pos[s] <= n, n < fr.pos[s]
          PROVE  body[s][Top.fun][n].kind = "cast"
      <4>1. n \in Nat /\ Top.pos[s] \in Nat
        <5>1. body[s][Top.fun] \in Seq(Instr) /\ Top.pos[s] \in Nat \ {0}
          BY <1>1, TopMatched
        <5>. QED
          BY <5>1
      <4>2. s \in sides /\ n = Top.pos[s]
        BY <1>4, <3>1, <4>1
      <4>3. At(s) = body[s][Top.fun][n]
        BY <1>1, <4>2, AtTypes
      <4>. QED
        BY <2>2, <4>2, <4>3
    <3>2. /\ \A n \in DOMAIN body.L[Top.fun] :
                Top.pos.L <= n /\ n < fr.pos.L => body.L[Top.fun][n].kind = "cast"
          /\ \A n \in DOMAIN body.R[Top.fun] :
                Top.pos.R <= n /\ n < fr.pos.R => body.R[Top.fun][n].kind = "cast"
      BY <3>1 DEF Side
    <3>3. /\ fr.pos.L \in Nat /\ fr.pos.R \in Nat
          /\ Top.pos.L <= fr.pos.L /\ Top.pos.R <= fr.pos.R
      BY <1>2, <1>4 DEF Side
    <3>. QED
      BY <1>2, <3>2, <3>3, MatchedSkip
  <2>. QED
    BY <2>1, <2>2
<1>6. MatchedFrame(fr)
  BY <1>2, <1>4, <1>5 DEF MatchedFrame, MatchedUpTo
<1>. QED
  BY <1>3, <1>4, <1>6

LEMMA ScanEqualMatch == MatchInv /\ RecordedInv /\ ScanEqual => MatchInv'
<1>. SUFFICES ASSUME MatchInv, RecordedInv, ScanEqual
              PROVE  MatchInv'
  OBVIOUS
<1>1. stack # <<>> /\ Top.at = "scan" /\ InProgress("scan") /\ Same(At("L"), At("R"))
  BY DEF ScanEqual, InProgress
<1>2. CASE At("L").kind # "ret"
  <2>1. PICK fr \in Frame : fr = Advance(Side) /\ fr.fun = Top.fun /\ MatchedFrame(fr)
    BY <1>1, <1>2, ScanAdvancesMatch
  <2>. QED
    BY <1>1, <1>2, <2>1, MatchMoves DEF ScanEqual
<1>3. CASE At("L").kind = "ret"
  <2>1. At("R").kind = "ret"
    BY <1>1, <1>3 DEF Same, EqualOperands, EqualInSource, SameOperation
  <2>2. /\ Top \in Frame
        /\ body.L[Top.fun] \in Seq(Instr) /\ body.R[Top.fun] \in Seq(Instr)
        /\ Top.pos.L \in Nat \ {0} /\ Top.pos.R \in Nat \ {0}
        /\ mods.arity.L[Top.fun] = mods.arity.R[Top.fun]
        /\ Matched(body.L[Top.fun], body.R[Top.fun], Top.pos.L, Top.pos.R)
    BY <1>1, TopMatched DEF MatchedUpTo, Side
  <2>3. Top.pos.L \notin DOMAIN body.L[Top.fun] /\ Top.pos.R \notin DOMAIN body.R[Top.fun]
    BY <1>1, <1>3, <2>1, AtReturn DEF Side
  <2>4. Matched(body.L[Top.fun], body.R[Top.fun], Len(body.L[Top.fun]) + 1, Len(body.R[Top.fun]) + 1)
    BY <2>2, <2>3, MatchedEnd
  <2>5. PICK fr \in Frame : fr = [Top EXCEPT !.at = "equal"]
    BY <2>2 DEF Frame, Places
  <2>6. fr.fun = Top.fun /\ fr.at = "equal"
    BY <2>2, <2>5 DEF Frame
  <2>7. MatchedFrame(fr)
    BY <2>2, <2>4, <2>6 DEF MatchedFrame, SameBodies, MatchedUpTo
  <2>. QED
    BY <1>1, <1>3, <2>5, <2>6, <2>7, MatchMoves DEF ScanEqual
<1>. QED
  BY <1>2, <1>3

LEMMA ScanSkipMatch == MatchInv /\ RecordedInv /\ ScanSkip => MatchInv'
<1>. SUFFICES ASSUME MatchInv, RecordedInv, ScanSkip
              PROVE  MatchInv'
  OBVIOUS
<1>1. stack # <<>> /\ Top.at = "scan" /\ InProgress("scan")
  BY DEF ScanSkip, InProgress
<1>2. PICK sides \in SUBSET Side :
        (\A s \in sides : At(s).kind = "cast") /\ stack' = <<Advance(sides)>> \o Tail(stack)
  BY DEF ScanSkip, Side
<1>3. PICK fr \in Frame : fr = Advance(sides) /\ fr.fun = Top.fun /\ MatchedFrame(fr)
  BY <1>1, <1>2, ScanAdvancesMatch
<1>. QED
  BY <1>1, <1>2, <1>3, MatchMoves DEF ScanSkip

\* A difference is found: what has been matched is kept, or not needed any more.
LEMMA MatchAt ==
    ASSUME MatchInv, RecordedInv, stack # <<>>, Top.at \in {"scan", "differ"},
           NEW place \in {"differ", "unequal"}
    PROVE  /\ [Top EXCEPT !.at = place] \in Frame
           /\ [Top EXCEPT !.at = place].fun = Top.fun
           /\ MatchedFrame([Top EXCEPT !.at = place])
<1>1. Top \in Frame /\ MatchedUpTo(Top.fun, Top.pos.L, Top.pos.R)
  BY TopMatched
<1>2. PICK fr \in Frame : fr = [Top EXCEPT !.at = place]
  BY <1>1 DEF Frame, Places
<1>3. fr.fun = Top.fun /\ fr.pos = Top.pos /\ fr.at = place
  BY <1>1, <1>2 DEF Frame
<1>4. MatchedFrame(fr)
  BY <1>1, <1>3 DEF MatchedFrame
<1>. QED
  BY <1>2, <1>3, <1>4

LEMMA DifferenceMatch == MatchInv /\ RecordedInv /\ (ScanDiffers \/ TryCalls) => MatchInv'
<1>. SUFFICES ASSUME MatchInv, RecordedInv, ScanDiffers \/ TryCalls
              PROVE  MatchInv'
  OBVIOUS
<1>1. /\ stack # <<>> /\ Top.at \in {"scan", "differ"}
      /\ stack' = <<[Top EXCEPT !.at = "unequal"]>> \o Tail(stack)
      /\ mods' = mods /\ body' = body /\ compared' = compared
  BY DEF ScanDiffers, TryCalls, InProgress
<1>2. PICK fr \in Frame : fr = [Top EXCEPT !.at = "unequal"] /\ fr.fun = Top.fun /\ MatchedFrame(fr)
  BY <1>1, MatchAt
<1>. QED
  BY <1>1, <1>2, MatchMoves

\* The callees are compared, first if they are new.
LEMMA CompareCalleesMatch ==
    ASSUME MatchInv, RecordedInv, InProgress("scan"),
           NEW f \in Funs, NEW fr \in Frame, fr.fun = Top.fun, fr.at \in {"scan", "differ"},
           MatchedFrame(fr), CompareCallees(f, fr), mods' = mods, body' = body
    PROVE  MatchInv'
<1>1. /\ stack # <<>> /\ TypeOK
      /\ Top.fun \in DOMAIN compared
      /\ Known = DOMAIN compared
  BY TopFacts DEF InProgress, RecordedInv, FrameOK
<1>2. DOMAIN compared' = DOMAIN compared
  BY <1>1 DEF CompareCallees
<1>3. OnlyTop
  BY <1>1, <1>2 DEF OnlyTop, CompareCallees
<1>4. MatchedFrame(fr)'
  BY DEF MatchedFrame, MatchedUpTo
<1>5. CASE f \in Abstractions \cup DOMAIN compared
  <2>1. stack' = <<fr>> \o Tail(stack)
    <3>1. <<>> \o <<fr>> = <<fr>>
      OBVIOUS
    <3>. QED
      BY <1>5, <3>1 DEF CompareCallees
  <2>. QED
    BY <1>1, <1>3, <1>4, <2>1, MatchGoesOn
<1>6. CASE f \notin Abstractions \cup DOMAIN compared
  <2>1. PICK new \in Frame : new = NewFrame(f)
    BY NewFrameType
  <2>2. new.at = "enter"
    BY <2>1 DEF NewFrame
  <2>3. stack' = <<new>> \o (<<fr>> \o Tail(stack))
    <3>1. stack' = <<new>> \o <<fr>> \o Tail(stack)
      BY <1>6, <2>1 DEF CompareCallees
    <3>2. <<new>> \in Seq(Frame) /\ <<fr>> \in Seq(Frame) /\ Tail(stack) \in Seq(Frame)
      BY <1>1, TopTypes
    <3>. QED
      BY <3>1, <3>2, ConcatAssociative
  <2>. QED
    BY <1>1, <1>3, <1>4, <2>2, <2>3, MatchWaits
<1>. QED
  BY <1>5, <1>6

LEMMA ScanCallsMatch == MatchInv /\ RecordedInv /\ ScanCalls => MatchInv'
<1>. SUFFICES ASSUME MatchInv, RecordedInv, ScanCalls
              PROVE  MatchInv'
  OBVIOUS
<1>1. /\ stack # <<>> /\ TypeOK /\ InProgress("scan")
      /\ CompareCallees(At("L").fun, Advance(Side))
      /\ mods' = mods /\ body' = body
      /\ IsCall(At("L")) /\ Same(At("L"), At("R"))
  BY DEF ScanCalls, InProgress, RecordedInv, Same
<1>2. At("L").fun \in Funs
  BY <1>1, AtTypes DEF Side
<1>3. At("L").kind # "ret"
  BY <1>1 DEF IsCall
<1>4. PICK fr \in Frame : fr = Advance(Side) /\ fr.fun = Top.fun /\ MatchedFrame(fr)
  BY <1>1, <1>3, ScanAdvancesMatch
<1>5. fr.at = "scan"
  BY <1>1, <1>4, TopFacts DEF Advance, Frame, InProgress
<1>. QED
  BY <1>1, <1>2, <1>4, <1>5, CompareCalleesMatch

LEMMA ScanCallsDifferMatch == MatchInv /\ RecordedInv /\ ScanCallsDiffer => MatchInv'
<1>. SUFFICES ASSUME MatchInv, RecordedInv, ScanCallsDiffer
              PROVE  MatchInv'
  OBVIOUS
<1>1. /\ stack # <<>> /\ TypeOK /\ InProgress("scan") /\ Top.at = "scan"
      /\ mods' = mods /\ body' = body
      /\ IsCall(At("L"))
  BY DEF ScanCallsDiffer, InProgress, RecordedInv
<1>2. At("L").fun \in Funs
  BY <1>1, AtTypes DEF Side
<1>3. PICK fr \in Frame : fr = [Top EXCEPT !.at = "differ"] /\ fr.fun = Top.fun /\ MatchedFrame(fr)
  BY <1>1, MatchAt
<1>4. CASE At("L").fun = At("R").fun
  <2>1. fr.at = "differ"
    BY <1>1, <1>3, TopFacts DEF Frame
  <2>2. CompareCallees(At("L").fun, fr)
    BY <1>3, <1>4 DEF ScanCallsDiffer
  <2>. QED
    BY <1>1, <1>2, <1>3, <2>1, <2>2, CompareCalleesMatch
<1>5. CASE At("L").fun # At("R").fun
  <2>1. stack' = <<fr>> \o Tail(stack) /\ compared' = compared
    BY <1>3, <1>5 DEF ScanCallsDiffer
  <2>. QED
    BY <1>1, <1>3, <2>1, MatchMoves
<1>. QED
  BY <1>4, <1>5

\* The verdict is set: "equal" only for bodies that match.
LEMMA VerdictMatch ==
    ASSUME MatchInv, RecordedInv, stack # <<>>, Top.at \in {"equal", "unequal"},
           NEW verdict \in {"equal", "not_equal"}, verdict = "equal" => Top.at = "equal",
           NEW result, result.kind = verdict,
           compared' = [compared EXCEPT ![Top.fun] = result],
           mods' = mods, body' = body,
           \/ stack' = <<[Top EXCEPT !.at = "inline"]>> \o Tail(stack)
           \/ stack' = <<>> \o Tail(stack)
    PROVE  MatchInv'
<1>1. /\ TypeOK
      /\ Top \in Frame
      /\ Known = DOMAIN compared
      /\ Top.fun \in DOMAIN compared
      /\ MatchedFrame(Top)
  BY TopFacts, TopMatched DEF RecordedInv, FrameOK
<1>2. PICK last \in DOMAIN compared : last = Top.fun
  BY <1>1
<1>3. /\ DOMAIN compared' = DOMAIN compared
      /\ compared'[last] = result
      /\ \A f \in DOMAIN compared \ {last} : compared'[f] = compared[f]
  BY <1>1, <1>2
<1>4. OnlyTop
  BY <1>1, <1>2, <1>3 DEF OnlyTop
<1>5. compared'[last].kind = "equal" => SameBodies(last)'
  <2>1. verdict = "equal" => SameBodies(last)
    BY <1>1, <1>2 DEF MatchedFrame
  <2>. QED
    BY <1>3, <2>1 DEF SameBodies, MatchedUpTo
<1>6. CASE stack' = <<[Top EXCEPT !.at = "inline"]>> \o Tail(stack)
  <2>1. PICK fr \in Frame : fr = [Top EXCEPT !.at = "inline"]
    BY <1>1 DEF Frame, Places
  <2>2. fr.fun = Top.fun /\ fr.fun = last /\ fr.at = "inline"
    BY <1>1, <1>2, <2>1 DEF Frame
  <2>3. MatchedFrame(fr)'
    BY <1>5, <2>2 DEF MatchedFrame
  <2>. QED
    BY <1>4, <1>6, <2>1, <2>2, <2>3, MatchGoesOn
<1>7. CASE stack' = <<>> \o Tail(stack)
  <2>1. stack' = Tail(stack)
    BY <1>1, <1>7, TopTypes, ConcatEmptySeq
  <2>. QED
    BY <1>2, <1>4, <1>5, <2>1, MatchReturns
<1>. QED
  BY <1>6, <1>7

LEMMA SetMatch == MatchInv /\ RecordedInv /\ (SetEqual \/ SetUnequal) => MatchInv'
<1>. SUFFICES ASSUME MatchInv, RecordedInv, SetEqual \/ SetUnequal
              PROVE  MatchInv'
  OBVIOUS
<1>1. stack # <<>> /\ mods' = mods /\ body' = body
  BY DEF SetEqual, SetUnequal, InProgress
<1>2. Top.at \in {"equal", "unequal"}
  BY DEF SetEqual, SetUnequal, InProgress
<1>3. Top.fun \in DOMAIN compared /\ compared[Top.fun] \in Comparison
  BY <1>1, <1>2, TopFacts DEF FrameOK, RecordedInv, TypeOK
<1>4. CASE SetEqual
  <2>. DEFINE calls == [s \in Side |-> Weaken(compared[Top.fun].calls[s], Top.inlined[s])]
  <2>1. compared' = [compared EXCEPT ![Top.fun] = [compared[Top.fun] EXCEPT !.kind = "equal", !.calls = calls]]
    BY <1>3, <1>4 DEF SetEqual
  <2>2. PICK result : result = [compared[Top.fun] EXCEPT !.kind = "equal", !.calls = calls]
    OBVIOUS
  <2>. HIDE DEF calls
  <2>3. result.kind = "equal" /\ compared' = [compared EXCEPT ![Top.fun] = result]
    BY <1>3, <2>1, <2>2 DEF Comparison
  <2>4. \/ stack' = <<[Top EXCEPT !.at = "inline"]>> \o Tail(stack)
        \/ stack' = <<>> \o Tail(stack)
    BY <1>4 DEF SetEqual
  <2>5. Top.at = "equal"
    BY <1>4 DEF SetEqual, InProgress
  <2>. QED
    BY <1>1, <1>2, <2>3, <2>4, <2>5, VerdictMatch
<1>5. CASE SetUnequal
  <2>1. PICK result : result = [compared[Top.fun] EXCEPT !.kind = "not_equal"]
    OBVIOUS
  <2>2. result.kind = "not_equal" /\ compared' = [compared EXCEPT ![Top.fun] = result]
    BY <1>3, <1>5, <2>1 DEF Comparison, SetUnequal
  <2>3. stack' = <<[Top EXCEPT !.at = "inline"]>> \o Tail(stack)
    BY <1>5 DEF SetUnequal
  <2>. QED
    BY <1>1, <1>2, <2>2, <2>3, VerdictMatch
<1>. QED
  BY <1>4, <1>5

\* compareFunctions returns with the verdict it has.
LEMMA LeavesMatch ==
    ASSUME MatchInv, RecordedInv, InProgress("inline"),
           mods' = mods, body' = body, compared' = compared, stack' = Tail(stack)
    PROVE  MatchInv'
<1>1. stack # <<>> /\ Top.at = "inline"
  BY DEF InProgress
<1>2. Known = DOMAIN compared /\ MatchedFrame(Top)
  BY <1>1, TopFacts, TopMatched
<1>3. OnlyTop
  BY <1>2 DEF OnlyTop
<1>4. PICK last : last = Top.fun
  OBVIOUS
<1>5. compared'[last].kind = "equal" => SameBodies(last)'
  BY <1>1, <1>2, <1>4 DEF MatchedFrame, SameBodies, MatchedUpTo
<1>. QED
  BY <1>1, <1>3, <1>4, <1>5, MatchReturns

\* After an inlining, the verdict and what was matched are forgotten together.
LEMMA InlineMatch == MatchInv /\ RecordedInv /\ Inline => MatchInv'
<1>. SUFFICES ASSUME MatchInv, RecordedInv, Inline
              PROVE  MatchInv'
  OBVIOUS
<1>1. stack # <<>> /\ Top.at = "inline" /\ TypeOK /\ InProgress("inline") /\ mods' = mods
  BY DEF Inline, InProgress, RecordedInv
<1>2. /\ Top \in Frame
      /\ Top.fun \in Funs
      /\ Top.fun \in DOMAIN compared
      /\ Known = DOMAIN compared
  BY <1>1, TopFacts DEF FrameOK, Frame
<1>3. body' = [s \in Side |->
                  IF s \in Inlinable
                  THEN [body[s] EXCEPT ![Top.fun] =
                            InlineAt(body[s][Top.fun], tryInline[s].pos, body[s][Called(s)])]
                  ELSE body[s]]
  BY DEF Inline
<1>4. CASE Inlinable = {}
  <2>1. body' = body
    BY <1>1, <1>3, <1>4 DEF TypeOK
  <2>. QED
    BY <1>1, <1>4, <2>1, LeavesMatch DEF Inline
<1>5. CASE Inlinable # {}
  <2>1. compared' = [compared EXCEPT ![Top.fun].kind = "unknown"]
    BY <1>5 DEF Inline
  <2>2. DOMAIN compared' = DOMAIN compared /\ \A f \in DOMAIN compared \ {Top.fun} : compared'[f] = compared[f]
    BY <1>2, <2>1
  <2>3. OnlyTop
    <3>1. ASSUME NEW s \in Side, NEW f \in DOMAIN compared \ {Top.fun}
          PROVE  body'[s][f] = body[s][f]
      BY <1>1, <1>3 DEF TypeOK
    <3>. QED
      BY <1>1, <1>2, <2>2, <3>1 DEF OnlyTop
  <2>4. PICK fr \in Frame : fr = [NewFrame(Top.fun) EXCEPT
                                    !.at = "compare",
                                    !.inlined = [s \in Side |-> Called(s)],
                                    !.rerun = TRUE]
    <3>1. [s \in Side |-> Called(s)] \in [Side -> Funs \cup {NoFun}]
      BY <1>1, CalledTypes DEF Called
    <3>. QED
      BY <1>2, <3>1, NewFrameType DEF Frame, Places
  <2>5. fr.fun = Top.fun /\ fr.at = "compare"
    BY <1>2, <2>4, NewFrameType DEF NewFrame, Frame
  <2>6. MatchedFrame(fr)'
    BY <2>5 DEF MatchedFrame
  <2>7. stack' = <<fr>> \o Tail(stack)
    BY <1>5, <2>4 DEF Inline
  <2>. QED
    BY <1>1, <2>3, <2>5, <2>6, <2>7, MatchGoesOn
<1>. QED
  BY <1>4, <1>5

LEMMA InitMatch == Init => MatchInv
<1>. SUFFICES ASSUME Init
              PROVE  MatchInv
  OBVIOUS
<1>1. DOMAIN compared = {}
  BY DEF Init
<1>2. \A fr \in Range(stack) : fr.at = "enter"
  BY DEF Init, NewFrame, Range
<1>. QED
  BY <1>1, <1>2 DEF MatchInv, EqualBodiesMatch, MatchedFrame

LEMMA NextMatch == MatchInv /\ RecordedInv /\ [Next]_vars => MatchInv'
<1>. SUFFICES ASSUME MatchInv, RecordedInv, [Next]_vars
              PROVE  MatchInv'
  OBVIOUS
<1>1. CASE EnterCached \/ EnterDeclaration \/ EnterBodies
  BY <1>1, EnterMatch
<1>2. CASE Compare
  BY <1>2, CompareMatch
<1>3. CASE ScanEqual
  BY <1>3, ScanEqualMatch
<1>4. CASE ScanCalls
  BY <1>4, ScanCallsMatch
<1>5. CASE ScanSkip
  BY <1>5, ScanSkipMatch
<1>6. CASE ScanDiffers \/ TryCalls
  BY <1>6, DifferenceMatch
<1>7. CASE ScanCallsDiffer
  BY <1>7, ScanCallsDifferMatch
<1>8. CASE SetEqual \/ SetUnequal
  BY <1>8, SetMatch
<1>9. CASE Inline
  BY <1>9, InlineMatch
<1>10. CASE Return
  BY <1>10, LeavesMatch DEF Return
<1>11. CASE Done \/ UNCHANGED vars
  <2>1. /\ mods' = mods /\ body' = body /\ stack' = stack /\ compared' = compared
    BY <1>11 DEF Done, vars
  <2>2. \A f : SameBodies(f) => SameBodies(f)'
    BY <2>1 DEF SameBodies, MatchedUpTo
  <2>3. \A fr : MatchedFrame(fr) => MatchedFrame(fr)'
    BY <2>1, <2>2 DEF MatchedFrame, MatchedUpTo
  <2>4. \A f : Compared(f)' => Compared(f)
    BY <2>1 DEF Compared
  <2>. QED
    BY <2>1, <2>2, <2>3, <2>4 DEF MatchInv, EqualBodiesMatch, Range
<1>. QED
  BY <1>1, <1>2, <1>3, <1>4, <1>5, <1>6, <1>7, <1>8, <1>9, <1>10, <1>11 DEF Next

\* Two functions that SimpLL calls equal have the same number of parameters and, as
\* inlining has left them, bodies that match: in the same order, and but for casts,
\* each instruction is one that the comparator takes for equal to its counterpart.
\* No comparison that was nested in theirs, no verdict from before an inlining and no
\* recursion leaves an "equal" that its bodies do not justify (compareFunctions of
\* ModuleComparator.cpp).
THEOREM EqualFunctionsMatch == Spec => []EqualBodiesMatch
<1>1. Init => RecordedInv /\ MatchInv
  BY InitRecorded, InitMatch
<1>2. RecordedInv /\ MatchInv /\ [Next]_vars => RecordedInv' /\ MatchInv'
  BY NextRecorded, NextMatch
<1>3. RecordedInv /\ MatchInv => EqualBodiesMatch
  BY DEF MatchInv
<1>. QED
  BY <1>1, <1>2, <1>3, PTL DEF Spec

=============================================================================
