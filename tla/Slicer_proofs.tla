--------------------------- MODULE Slicer_proofs ---------------------------
(***************************************************************************)
(* Proofs about the slice that the first pass of Slicer leaves: what       *)
(* depends on the variable stays in it, and it goes through its blocks as  *)
(* the function does.                                                      *)
(***************************************************************************)
EXTENDS Slicer, TLAPS, FiniteSetTheorems, SequenceTheorems, WellFoundedInduction

-----------------------------------------------------------------------------
(* Numbers and sequences. *)

LEMMA LeastExists ==
    ASSUME NEW S \in SUBSET Nat, S # {}
    PROVE  \E n \in S : \A m \in S : n <= m
<1>. DEFINE R == OpToRel(<, Nat)
<1>1. IsWellFoundedOn(R, Nat)
  BY NatLessThanWellFounded
<1>2. PICK n \in S : \A m \in S : <<m, n>> \notin R
  BY <1>1, WFMin
<1>3. ASSUME NEW m \in S, m < n
      PROVE  <<m, n>> \in R
  BY <1>3 DEF OpToRel
<1>. HIDE DEF R
<1>4. ASSUME NEW m \in S
      PROVE  n <= m
  <2>1. ~(m < n)
    BY <1>2, <1>3
  <2>2. m \in Nat /\ n \in Nat
    OBVIOUS
  <2>. QED
    BY <2>1, <2>2
<1>. QED
  BY <1>4

LEMMA AllNumbers ==
    ASSUME NEW T, 0 \in T, \A i \in Nat : i \in T => i + 1 \in T
    PROVE  \A i \in Nat : i \in T
<1>. SUFFICES ASSUME Nat \ T # {}
              PROVE  FALSE
  OBVIOUS
<1>1. PICK i \in Nat \ T : \A j \in Nat \ T : i <= j
  BY LeastExists
<1>2. i # 0 /\ i - 1 \in Nat /\ i - 1 + 1 = i
  BY <1>1
<1>3. i - 1 \in T
  BY <1>1, <1>2
<1>. QED
  BY <1>1, <1>2, <1>3

\* An element is removed: what comes after it moves up.
LEMMA RemoveAtMeaning ==
    ASSUME NEW T, NEW s \in Seq(T), NEW i \in DOMAIN s
    PROVE  /\ RemoveAt(s, i) \in Seq(T)
           /\ Len(s) \in Nat /\ i \in 1 .. Len(s)
           /\ DOMAIN RemoveAt(s, i) = 1 .. (Len(s) - 1)
           /\ Len(RemoveAt(s, i)) = Len(s) - 1
           /\ \A j \in 1 .. (Len(s) - 1) : RemoveAt(s, i)[j] = IF j < i THEN s[j] ELSE s[j + 1]
<1>. DEFINE a == SubSeq(s, 1, i - 1)
            b == SubSeq(s, i + 1, Len(s))
<1>1. Len(s) \in Nat /\ DOMAIN s = 1 .. Len(s) /\ i \in 1 .. Len(s)
  BY LenProperties
<1>2. a \in Seq(T) /\ Len(a) = i - 1 /\ \A j \in 1 .. (i - 1) : a[j] = s[j]
  BY <1>1, SubSeqProperties
<1>3. b \in Seq(T) /\ Len(b) = Len(s) - i /\ \A j \in 1 .. (Len(s) - i) : b[j] = s[j + i]
  BY <1>1, SubSeqProperties
<1>4. RemoveAt(s, i) = a \o b
  BY DEF RemoveAt
<1>. HIDE DEF a, b
<1>5. RemoveAt(s, i) \in Seq(T) /\ Len(RemoveAt(s, i)) = Len(s) - 1
  <2>1. a \o b \in Seq(T) /\ Len(a \o b) = Len(a) + Len(b)
    BY <1>2, <1>3, ConcatProperties
  <2>. QED
    BY <1>1, <1>2, <1>3, <1>4, <2>1
<1>6. ASSUME NEW j \in 1 .. (Len(s) - 1)
      PROVE  RemoveAt(s, i)[j] = IF j < i THEN s[j] ELSE s[j + 1]
  <2>1. CASE j < i
    BY <2>1, <1>1, <1>2, <1>3, <1>4, ConcatProperties
  <2>2. CASE ~(j < i)
    <3>1. RemoveAt(s, i)[j] = b[j - (i - 1)]
      BY <2>2, <1>1, <1>2, <1>3, <1>4, ConcatProperties
    <3>2. j - (i - 1) \in 1 .. (Len(s) - i) /\ j - (i - 1) + i = j + 1
      BY <2>2, <1>1
    <3>. QED
      BY <2>2, <1>3, <3>1, <3>2
  <2>. QED
    BY <2>1, <2>2
<1>. QED
  BY <1>1, <1>5, <1>6, LenProperties

\* From a sequence without repetition an element is gone.
LEMMA RemovedOnce ==
    ASSUME NEW T, NEW s \in Seq(T), IsInjective(s), NEW i \in DOMAIN s
    PROVE  /\ IsInjective(RemoveAt(s, i))
           /\ Range(RemoveAt(s, i)) = Range(s) \ {s[i]}
           /\ i # 1 => 1 \in DOMAIN RemoveAt(s, i) /\ RemoveAt(s, i)[1] = s[1]
<1>. DEFINE r == RemoveAt(s, i)
<1>1. /\ Len(s) \in Nat /\ i \in 1 .. Len(s) /\ DOMAIN s = 1 .. Len(s)
      /\ DOMAIN r = 1 .. (Len(s) - 1)
      /\ \A j \in 1 .. (Len(s) - 1) : r[j] = IF j < i THEN s[j] ELSE s[j + 1]
  BY RemoveAtMeaning, LenProperties
<1>. HIDE DEF r
<1>. DEFINE old(j) == IF j < i THEN j ELSE j + 1
<1>2. \A j \in 1 .. (Len(s) - 1) : old(j) \in DOMAIN s /\ old(j) # i /\ r[j] = s[old(j)]
  BY <1>1
<1>3. \A j, k \in DOMAIN s : s[j] = s[k] => j = k
  BY DEF IsInjective
<1>4. \A j, k \in 1 .. (Len(s) - 1) : old(j) = old(k) => j = k
  BY <1>1
<1>5. IsInjective(r)
  BY <1>1, <1>2, <1>3, <1>4 DEF IsInjective
<1>6. ASSUME NEW k \in DOMAIN s, k # i
      PROVE  s[k] \in Range(r)
  <2>. DEFINE j == IF k < i THEN k ELSE k - 1
  <2>1. j \in DOMAIN r /\ old(j) = k
    BY <1>1, <1>6
  <2>2. r[j] = s[k]
    BY <1>1, <1>2, <2>1
  <2>. QED
    BY <2>1, <2>2 DEF Range
<1>7. ASSUME NEW x \in Range(r)
      PROVE  x \in Range(s) \ {s[i]}
  <2>1. PICK j \in DOMAIN r : x = r[j]
    BY DEF Range
  <2>2. old(j) \in DOMAIN s /\ old(j) # i /\ x = s[old(j)]
    BY <1>1, <1>2, <2>1
  <2>. QED
    BY <1>3, <2>2 DEF Range
<1>8. i # 1 => 1 \in DOMAIN r /\ r[1] = s[1]
  BY <1>1
<1>9. Range(r) = Range(s) \ {s[i]}
  BY <1>6, <1>7 DEF Range
<1>. QED
  BY <1>5, <1>8, <1>9 DEF r

-----------------------------------------------------------------------------
(* Parts of a function: it without some blocks, edges and instructions. *)

Fields == {"op", "ops", "from", "callee"}

\* g has the instructions of o on other operands, in the same places.
SameCode(g, o) ==
    /\ DOMAIN g.code = DOMAIN o.code
    /\ \A b \in DOMAIN o.code :
        /\ g.code[b] = [n \in 1 .. Len(o.code[b]) |-> g.code[b][n]]
        /\ \A n \in 1 .. Len(o.code[b]) :
            DOMAIN g.code[b][n] = Fields /\ g.code[b][n].op = o.code[b][n].op

\* A block that is gone leads nowhere.
Part(g, o) ==
    /\ g = [code |-> g.code, succ |-> g.succ, order |-> g.order, live |-> g.live]
    /\ SameCode(g, o)
    /\ g.succ \in [DOMAIN o.code -> Seq(DOMAIN o.code)]
    /\ \A b \in DOMAIN o.code : Len(g.succ[b]) <= 2
    /\ \A b \in DOMAIN o.code \ Blocks(g) : g.succ[b] = <<>>
    /\ g.order \in Seq(DOMAIN o.code) /\ IsInjective(g.order)
    /\ g.live \subseteq o.live

LEMMA LengthFromDomain ==
    ASSUME NEW s, NEW n \in Nat, s = [k \in 1 .. n |-> s[k]]
    PROVE  Len(s) = n /\ DOMAIN s = 1 .. n
<1>. DEFINE T == {s[k] : k \in 1 .. n}
<1>1. s \in [1 .. n -> T]
  OBVIOUS
<1>2. s \in Seq(T)
  BY <1>1, SeqDef
<1>. QED
  BY <1>1, <1>2, LenProperties

LEMMA PartCode ==
    ASSUME NEW o, Proper(o), NEW g, SameCode(g, o), NEW b \in DOMAIN o.code
    PROVE  /\ Len(g.code[b]) = Len(o.code[b]) /\ Len(o.code[b]) \in Nat \ {0}
           /\ DOMAIN g.code[b] = 1 .. Len(o.code[b])
           /\ DOMAIN o.code[b] = 1 .. Len(o.code[b])
<1>1. /\ Len(o.code[b]) \in Nat \ {0}
      /\ o.code[b] = [n \in 1 .. Len(o.code[b]) |-> o.code[b][n]]
      /\ DOMAIN o.code[b] = 1 .. Len(o.code[b])
  BY DEF Proper
<1>2. g.code[b] = [n \in 1 .. Len(o.code[b]) |-> g.code[b][n]]
  BY DEF SameCode
<1>3. Len(g.code[b]) = Len(o.code[b]) /\ DOMAIN g.code[b] = 1 .. Len(o.code[b])
  BY <1>1, <1>2, LengthFromDomain
<1>. QED
  BY <1>1, <1>3

\* The instructions of a function are the places in its blocks.
LEMMA Places ==
    ASSUME NEW o, Proper(o)
    PROVE  /\ \A i \in o.live : /\ i[1] \in DOMAIN o.code /\ i[2] \in 1 .. Len(o.code[i[1]])
                               /\ i = <<i[1], i[2]>>
           /\ \A b \in DOMAIN o.code : \A n \in 1 .. Len(o.code[b]) : <<b, n>> \in o.live
<1>1. o.live = UNION {{<<b, n>> : n \in DOMAIN o.code[b]} : b \in DOMAIN o.code}
  BY DEF Proper
<1>2. ASSUME NEW b \in DOMAIN o.code
      PROVE  DOMAIN o.code[b] = 1 .. Len(o.code[b])
  <2>1. o.code[b] = [n \in 1 .. Len(o.code[b]) |-> o.code[b][n]]
    BY DEF Proper
  <2>. QED
    BY <2>1
<1>3. ASSUME NEW i \in o.live
      PROVE  i[1] \in DOMAIN o.code /\ i[2] \in 1 .. Len(o.code[i[1]]) /\ i = <<i[1], i[2]>>
  <2>1. PICK b \in DOMAIN o.code : i \in {<<b, n>> : n \in DOMAIN o.code[b]}
    BY <1>1
  <2>2. PICK n \in DOMAIN o.code[b] : i = <<b, n>>
    BY <2>1
  <2>. QED
    BY <1>2, <2>2
<1>4. ASSUME NEW b \in DOMAIN o.code, NEW n \in 1 .. Len(o.code[b])
      PROVE  <<b, n>> \in o.live
  BY <1>1, <1>2
<1>. QED
  BY <1>3, <1>4

LEMMA ErasePart ==
    ASSUME NEW o, Proper(o), NEW g, Part(g, o), NEW S, NEW v
    PROVE  /\ Part(Erase(g, S, v), o)
           /\ Erase(g, S, v).succ = g.succ /\ Erase(g, S, v).order = g.order
           /\ Erase(g, S, v).live = g.live \ S
<1>. DEFINE Replaced(ops) == [k \in DOMAIN ops |-> IF IsInstr(ops[k]) /\ InstrOf(ops[k]) \in S THEN v ELSE ops[k]]
            Without(instr) == [instr EXCEPT !.ops = Replaced(@)]
            X == [b \in DOMAIN g.code |-> [n \in DOMAIN g.code[b] |-> Without(g.code[b][n])]]
            h == Erase(g, S, v)
<1>0. SameCode(g, o) /\ g = [code |-> g.code, succ |-> g.succ, order |-> g.order, live |-> g.live]
  BY DEF Part
<1>1. h = [code |-> X, succ |-> g.succ, order |-> g.order, live |-> g.live \ S]
  <2>1. h = [g EXCEPT !.live = g.live \ S, !.code = X]
    BY Zenon DEF Erase
  <2>. HIDE DEF h, X
  <2>. QED
    BY <1>0, <2>1
<1>2. DOMAIN g.code = DOMAIN o.code
  BY <1>0 DEF SameCode
<1>3. ASSUME NEW b \in DOMAIN o.code
      PROVE  /\ X[b] = [n \in 1 .. Len(o.code[b]) |-> X[b][n]]
             /\ \A n \in 1 .. Len(o.code[b]) : DOMAIN X[b][n] = Fields /\ X[b][n].op = o.code[b][n].op
  <2>1. DOMAIN g.code[b] = 1 .. Len(o.code[b])
    BY <1>0, PartCode
  <2>2. X[b] = [n \in 1 .. Len(o.code[b]) |-> Without(g.code[b][n])]
    BY <1>2, <2>1
  <2>3. ASSUME NEW n \in 1 .. Len(o.code[b])
        PROVE  DOMAIN X[b][n] = Fields /\ X[b][n].op = o.code[b][n].op
    <3>1. X[b][n] = [g.code[b][n] EXCEPT !.ops = Replaced(g.code[b][n].ops)]
      BY <2>2
    <3>2. DOMAIN g.code[b][n] = Fields /\ g.code[b][n].op = o.code[b][n].op
      BY <1>0 DEF SameCode
    <3>. HIDE DEF X, Replaced
    <3>. QED
      BY <3>1, <3>2 DEF Fields
  <2>. HIDE DEF X
  <2>. QED
    BY <2>2, <2>3
<1>. HIDE DEF h, X
<1>4. DOMAIN X = DOMAIN o.code
  BY <1>2 DEF X
<1>5. SameCode(h, o)
  BY <1>1, <1>3, <1>4 DEF SameCode
<1>6. h.succ = g.succ /\ h.order = g.order /\ h.live = g.live \ S /\ h.code = X
  BY <1>1
<1>7. Part(h, o)
  <2>1. Blocks(h) = Blocks(g)
    BY <1>6 DEF Blocks
  <2>. QED
    BY <1>1, <1>5, <1>6, <2>1 DEF Part
<1>. QED
  BY <1>6, <1>7 DEF h

\* Instructions that get other operands in their places.
LEMMA NewCodePart ==
    ASSUME NEW o, Proper(o), NEW g, Part(g, o), NEW X, DOMAIN X = DOMAIN o.code,
           \A b \in DOMAIN o.code :
              /\ X[b] = [n \in 1 .. Len(o.code[b]) |-> X[b][n]]
              /\ \A n \in 1 .. Len(o.code[b]) :
                    DOMAIN X[b][n] = DOMAIN g.code[b][n] /\ X[b][n].op = g.code[b][n].op,
           NEW h, h = [g EXCEPT !.code = X]
    PROVE  /\ Part(h, o)
           /\ h.succ = g.succ /\ h.order = g.order /\ h.live = g.live /\ h.code = X
<1>0. SameCode(g, o) /\ g = [code |-> g.code, succ |-> g.succ, order |-> g.order, live |-> g.live]
  BY DEF Part
<1>1. h = [code |-> X, succ |-> g.succ, order |-> g.order, live |-> g.live]
  BY <1>0
<1>2. h.succ = g.succ /\ h.order = g.order /\ h.live = g.live /\ h.code = X
  BY <1>1
<1>3. SameCode(h, o)
  BY <1>0, <1>2 DEF SameCode
<1>4. Blocks(h) = Blocks(g)
  BY <1>2 DEF Blocks
<1>. QED
  BY <1>1, <1>2, <1>3, <1>4 DEF Part

LEMMA LosePredecessorPart ==
    ASSUME NEW o, Proper(o), NEW g, Part(g, o), NEW S, NEW p
    PROVE  /\ Part(LosePredecessor(g, S, p), o)
           /\ LosePredecessor(g, S, p).succ = g.succ /\ LosePredecessor(g, S, p).order = g.order
           /\ LosePredecessor(g, S, p).live = g.live
<1>. DEFINE Kept(phi) == SelectSeq([k \in DOMAIN phi.ops |-> k], LAMBDA k : phi.from[k] # p)
            Less(phi) == [phi EXCEPT !.ops = [k \in DOMAIN Kept(phi) |-> phi.ops[Kept(phi)[k]]],
                                     !.from = [k \in DOMAIN Kept(phi) |-> phi.from[Kept(phi)[k]]]]
            New(b, n) == IF b \in S /\ <<b, n>> \in Phis(g, b) THEN Less(g.code[b][n]) ELSE g.code[b][n]
            X == [b \in DOMAIN g.code |-> [n \in DOMAIN g.code[b] |-> New(b, n)]]
            h == LosePredecessor(g, S, p)
<1>0. SameCode(g, o)
  BY DEF Part
<1>1. h = [g EXCEPT !.code = X]
  BY Zenon DEF LosePredecessor
<1>2. DOMAIN X = DOMAIN o.code
  BY <1>0 DEF SameCode
<1>3. ASSUME NEW b \in DOMAIN o.code
      PROVE  /\ X[b] = [n \in 1 .. Len(o.code[b]) |-> X[b][n]]
             /\ \A n \in 1 .. Len(o.code[b]) :
                    DOMAIN X[b][n] = DOMAIN g.code[b][n] /\ X[b][n].op = g.code[b][n].op
  <2>. HIDE DEF New
  <2>1. DOMAIN g.code[b] = 1 .. Len(o.code[b])
    BY <1>0, PartCode
  <2>2. X[b] = [n \in 1 .. Len(o.code[b]) |-> New(b, n)]
    BY <1>0, <2>1 DEF SameCode
  <2>. HIDE DEF X
  <2>3. ASSUME NEW n \in 1 .. Len(o.code[b])
        PROVE  DOMAIN X[b][n] = DOMAIN g.code[b][n] /\ X[b][n].op = g.code[b][n].op
    <3>1. X[b][n] = New(b, n)
      BY <2>2
    <3>2. "op" \in DOMAIN g.code[b][n]
      BY <1>0 DEF SameCode, Fields
    <3>3. DOMAIN Less(g.code[b][n]) = DOMAIN g.code[b][n] /\ Less(g.code[b][n]).op = g.code[b][n].op
      <4>. HIDE DEF Kept
      <4>. QED
        BY <3>2
    <3>. HIDE DEF Less
    <3>. QED
      BY <3>1, <3>3 DEF New
  <2>. QED
    BY <2>2, <2>3
<1>. HIDE DEF h, X
<1>. QED
  BY <1>1, <1>2, <1>3, NewCodePart DEF h

LEMMA FoldPhiPart ==
    ASSUME NEW o, Proper(o), NEW g, Part(g, o), NEW i \in o.live
    PROVE  /\ Part(FoldPhi(g, i), o)
           /\ FoldPhi(g, i).succ = g.succ /\ FoldPhi(g, i).order = g.order
           /\ FoldPhi(g, i).live \subseteq g.live
           /\ g.live \ FoldPhi(g, i).live \subseteq {i}
           /\ g.live \ FoldPhi(g, i).live # {} => Instr(o, i).op = "phi"
<1>1. CASE FoldPhi(g, i) = g
  BY <1>1
<1>2. CASE FoldPhi(g, i) # g
  <2>. DEFINE values == Ops(g, i) \ {Ref(i)}
              v == IF values = {} THEN Undef ELSE CHOOSE v \in values : TRUE
  <2>1. i \in Phis(g, i[1]) /\ FoldPhi(g, i) = Erase(g, {i}, v)
    BY <1>2 DEF FoldPhi
  <2>. HIDE DEF v
  <2>2. Instr(g, i).op = "phi"
    BY <2>1 DEF Phis
  <2>3. Instr(o, i).op = Instr(g, i).op
    <3>1. i[1] \in DOMAIN o.code /\ i[2] \in 1 .. Len(o.code[i[1]])
      BY Places
    <3>. QED
      BY <3>1 DEF Part, SameCode, Instr
  <2>. QED
    BY <2>1, <2>2, <2>3, ErasePart
<1>. QED
  BY <1>1, <1>2

\* Of the instructions of the block s, phis may go.
Folded(o, g, h, s) ==
    /\ Part(h, o) /\ h.succ = g.succ /\ h.order = g.order /\ h.live \subseteq g.live
    /\ \A i \in g.live \ h.live : i[1] = s /\ Instr(o, i).op = "phi"

\* The loop of removePredecessor over the instructions of s.
FoldLoop(g, s, p, h, n) == IF n = 0 THEN LosePredecessor(g, {s}, p) ELSE FoldPhi(h[n - 1], <<s, n>>)

LEMMA FoldsExist ==
    ASSUME NEW g, NEW s, NEW p
    PROVE  \A m \in Nat : \E h : h = [n \in 0 .. m |-> FoldLoop(g, s, p, h, n)]
<1>. DEFINE Good(h, m) == h = [n \in 0 .. m |-> FoldLoop(g, s, p, h, n)]
            T == {m \in Nat : \E h : Good(h, m)}
<1>1. 0 \in T
  <2>. DEFINE h == [n \in 0 .. 0 |-> LosePredecessor(g, {s}, p)]
  <2>1. Good(h, 0)
    BY DEF FoldLoop
  <2>. QED
    BY <2>1
<1>2. ASSUME NEW m \in Nat, m \in T
      PROVE  m + 1 \in T
  <2>1. PICK h : Good(h, m)
    BY <1>2
  <2>. DEFINE k == [n \in 0 .. (m + 1) |-> IF n = m + 1 THEN FoldPhi(h[m], <<s, m + 1>>) ELSE h[n]]
  <2>2. ASSUME NEW n \in 0 .. (m + 1)
        PROVE  k[n] = FoldLoop(g, s, p, k, n)
    <3>1. CASE n = m + 1
      <4>1. n # 0 /\ n - 1 = m /\ k[n - 1] = h[m] /\ k[n] = FoldPhi(h[m], <<s, n>>)
        BY <3>1
      <4>. QED
        BY <4>1 DEF FoldLoop
    <3>2. CASE n \in 0 .. m
      <4>1. k[n] = h[n] /\ (n # 0 => k[n - 1] = h[n - 1])
        BY <3>2
      <4>2. h[n] = FoldLoop(g, s, p, h, n)
        BY <2>1, <3>2
      <4>. QED
        BY <4>1, <4>2 DEF FoldLoop
    <3>. QED
      BY <3>1, <3>2
  <2>3. Good(k, m + 1)
    BY <2>2
  <2>. HIDE DEF Good, k
  <2>. QED
    BY <2>3
<1>. HIDE DEF T
<1>3. \A m \in Nat : m \in T
  BY <1>1, <1>2, AllNumbers
<1>. QED
  BY <1>3 DEF T

LEMMA RemovePredecessorPart ==
    ASSUME NEW o, Proper(o), NEW g, Part(g, o), NEW s \in DOMAIN o.code, NEW p
    PROVE  Folded(o, g, RemovePredecessor(g, s, p), s)
<1>. DEFINE m == Len(g.code[s])
            Good(h) == h = [n \in 0 .. m |-> FoldLoop(g, s, p, h, n)]
            R == CHOOSE h : Good(h)
<1>1. m = Len(o.code[s]) /\ m \in Nat /\ \A n \in 1 .. m : <<s, n>> \in o.live
  <2>1. m = Len(o.code[s]) /\ m \in Nat
    BY PartCode DEF Part
  <2>. HIDE DEF m
  <2>. QED
    BY <2>1, Places
<1>2. RemovePredecessor(g, s, p) = R[m]
  BY DEF RemovePredecessor, FoldLoop
<1>. HIDE DEF m
<1>3. Good(R)
  BY <1>1, FoldsExist
<1>. HIDE DEF R
<1>4. ASSUME NEW n \in 0 .. m
      PROVE  R[n] = FoldLoop(g, s, p, R, n)
  BY <1>3
<1>. DEFINE T == {n \in Nat : n <= m => Folded(o, g, R[n], s)}
<1>5. 0 \in T
  <2>0. 0 \in 0 .. m
    BY <1>1
  <2>1. R[0] = LosePredecessor(g, {s}, p)
    BY <1>4, <2>0 DEF FoldLoop
  <2>. QED
    BY <2>1, LosePredecessorPart DEF Folded
<1>6. ASSUME NEW n \in Nat, n \in T
      PROVE  n + 1 \in T
  <2>1. CASE ~(n + 1 <= m)
    BY <2>1
  <2>2. CASE n + 1 <= m
    <3>1. Folded(o, g, R[n], s) /\ n + 1 \in 0 .. m /\ n + 1 # 0 /\ n + 1 - 1 = n /\ n + 1 \in 1 .. m
      BY <1>1, <1>6, <2>2
    <3>2. R[n + 1] = FoldPhi(R[n], <<s, n + 1>>)
      BY <1>4, <3>1 DEF FoldLoop
    <3>3. Part(R[n], o) /\ <<s, n + 1>> \in o.live
      BY <1>1, <3>1 DEF Folded
    <3>4. /\ Part(R[n + 1], o) /\ R[n + 1].succ = R[n].succ /\ R[n + 1].order = R[n].order
          /\ R[n + 1].live \subseteq R[n].live
          /\ R[n].live \ R[n + 1].live \subseteq {<<s, n + 1>>}
          /\ R[n].live \ R[n + 1].live # {} => Instr(o, <<s, n + 1>>).op = "phi"
      BY <3>2, <3>3, FoldPhiPart
    <3>5. Folded(o, g, R[n + 1], s)
      <4>1. <<s, n + 1>>[1] = s
        OBVIOUS
      <4>2. ASSUME NEW i \in g.live \ R[n + 1].live
            PROVE  i[1] = s /\ Instr(o, i).op = "phi"
        <5>1. CASE i \notin R[n].live
          BY <3>1, <5>1 DEF Folded
        <5>2. CASE i \in R[n].live
          <6>1. i = <<s, n + 1>> /\ Instr(o, <<s, n + 1>>).op = "phi"
            BY <3>4, <5>2
          <6>. QED
            BY <4>1, <6>1
        <5>. QED
          BY <5>1, <5>2
      <4>. QED
        BY <3>1, <3>4, <4>2 DEF Folded
    <3>. QED
      BY <3>5
  <2>. QED
    BY <2>1, <2>2
<1>. HIDE DEF T
<1>7. m \in T
  BY <1>1, <1>5, <1>6, AllNumbers
<1>. QED
  BY <1>1, <1>2, <1>7 DEF T

\* A block that is there.
LEMMA PositionIsIn ==
    ASSUME NEW g, NEW b \in Blocks(g)
    PROVE  Position(g, b) \in DOMAIN g.order /\ g.order[Position(g, b)] = b
<1>1. \E n \in DOMAIN g.order : g.order[n] = b
  BY DEF Blocks, Range
<1>. QED
  BY <1>1 DEF Position

\* h is g without the block b, and perhaps without some phis.
LosesBlock(o, g, h, b) ==
    /\ Part(h, o) /\ h.order = RemoveAt(g.order, Position(g, b)) /\ h.live \subseteq g.live
    /\ Blocks(h) = Blocks(g) \ {b}
    /\ \A i \in g.live \ h.live : i[1] = b \/ Instr(o, i).op = "phi"

LEMMA OrderWithout ==
    ASSUME NEW o, NEW g, Part(g, o), NEW b \in Blocks(g), NEW h, h.order = RemoveAt(g.order, Position(g, b))
    PROVE  /\ h.order \in Seq(DOMAIN o.code) /\ IsInjective(h.order) /\ Blocks(h) = Blocks(g) \ {b}
           /\ Len(g.order) \in Nat /\ Len(h.order) = Len(g.order) - 1
           /\ DOMAIN h.order = 1 .. Len(h.order)
           /\ b # g.order[1] => Len(h.order) > 0 /\ h.order[1] = g.order[1]
<1>1. g.order \in Seq(DOMAIN o.code) /\ IsInjective(g.order)
  BY DEF Part
<1>2. Position(g, b) \in DOMAIN g.order /\ g.order[Position(g, b)] = b
  BY PositionIsIn
<1>. DEFINE i == Position(g, b)
<1>. HIDE DEF i
<1>3. h.order \in Seq(DOMAIN o.code) /\ Len(g.order) \in Nat /\ Len(h.order) = Len(g.order) - 1
      /\ DOMAIN h.order = 1 .. Len(h.order)
  BY <1>1, <1>2, RemoveAtMeaning DEF i
<1>4. /\ IsInjective(h.order) /\ Range(h.order) = Range(g.order) \ {b}
      /\ Position(g, b) # 1 => 1 \in DOMAIN h.order /\ h.order[1] = g.order[1]
  BY <1>1, <1>2, RemovedOnce DEF i
<1>5. b # g.order[1] => Position(g, b) # 1
  BY <1>2
<1>6. 1 \in DOMAIN h.order => Len(h.order) > 0
  BY <1>3
<1>. QED
  BY <1>3, <1>4, <1>5, <1>6 DEF Blocks

LEMMA DeleteBlockPart ==
    ASSUME NEW o, Proper(o), NEW g, Part(g, o), NEW b \in Blocks(g)
    PROVE  /\ LosesBlock(o, g, DeleteBlock(g, b), b)
           /\ DeleteBlock(g, b).succ = [g.succ EXCEPT ![b] = <<>>]
<1>. DEFINE Free(h, k) == IF k \in DOMAIN g.succ[b] /\ g.succ[b][k] # b
                          THEN RemovePredecessor(h, g.succ[b][k], b) ELSE h
            one == Free(g, 1)
            two == Free(one, 2)
            rest == Erase(two, InBlock(two, b), Undef)
            h == DeleteBlock(g, b)
            Loose(x) == /\ Part(x, o) /\ x.succ = g.succ /\ x.order = g.order /\ x.live \subseteq g.live
                        /\ \A i \in g.live \ x.live : Instr(o, i).op = "phi"
<1>1. b \in DOMAIN o.code /\ g.succ[b] \in Seq(DOMAIN o.code)
  BY ElementOfSeq DEF Part, Blocks, Range
<1>2. ASSUME NEW x, Loose(x), NEW k
      PROVE  Loose(Free(x, k))
  <2>1. CASE Free(x, k) = x
    BY <1>2, <2>1
  <2>2. CASE k \in DOMAIN g.succ[b] /\ Free(x, k) = RemovePredecessor(x, g.succ[b][k], b)
    <3>1. g.succ[b][k] \in DOMAIN o.code
      BY <1>1, <2>2, ElementOfSeq
    <3>2. Folded(o, x, Free(x, k), g.succ[b][k])
      BY <1>2, <2>2, <3>1, RemovePredecessorPart
    <3>. HIDE DEF Free
    <3>. QED
      BY <1>2, <3>2 DEF Folded
  <2>. QED
    BY <2>1, <2>2
<1>3. h = [rest EXCEPT !.order = RemoveAt(rest.order, Position(g, b)), !.succ[b] = <<>>]
  BY Zenon DEF DeleteBlock
<1>4. Loose(one)
  BY <1>2
<1>. HIDE DEF one, Free
<1>5. Loose(two)
  BY <1>2, <1>4
<1>. HIDE DEF two
<1>6. /\ Part(rest, o) /\ rest.succ = g.succ /\ rest.order = g.order
      /\ rest.live = two.live \ InBlock(two, b)
  BY <1>5, ErasePart
<1>. HIDE DEF rest, h
<1>7. rest = [code |-> rest.code, succ |-> rest.succ, order |-> rest.order, live |-> rest.live]
  BY <1>6 DEF Part
<1>8. h = [code |-> rest.code, succ |-> [g.succ EXCEPT ![b] = <<>>],
           order |-> RemoveAt(g.order, Position(g, b)), live |-> rest.live]
  BY <1>3, <1>6, <1>7
<1>9. /\ h.code = rest.code /\ h.succ = [g.succ EXCEPT ![b] = <<>>]
      /\ h.order = RemoveAt(g.order, Position(g, b)) /\ h.live = rest.live
  BY <1>8
<1>10. h.order \in Seq(DOMAIN o.code) /\ IsInjective(h.order) /\ Blocks(h) = Blocks(g) \ {b}
  BY <1>9, OrderWithout
<1>11. Part(h, o)
  <2>1. h.succ \in [DOMAIN o.code -> Seq(DOMAIN o.code)]
    BY <1>1, <1>9, EmptySeq DEF Part
  <2>2. \A x \in DOMAIN o.code : Len(h.succ[x]) <= 2
    BY <1>1, <1>9, EmptySeq DEF Part
  <2>3. \A x \in DOMAIN o.code \ Blocks(h) : h.succ[x] = <<>>
    BY <1>1, <1>9, <1>10 DEF Part
  <2>4. SameCode(h, o)
    BY <1>6, <1>9 DEF Part, SameCode
  <2>5. h.live \subseteq o.live
    BY <1>6, <1>9 DEF Part
  <2>6. h = [code |-> h.code, succ |-> h.succ, order |-> h.order, live |-> h.live]
    BY <1>8
  <2>. QED
    BY <1>10, <2>1, <2>2, <2>3, <2>4, <2>5, <2>6 DEF Part
<1>12. h.live \subseteq g.live /\ \A i \in g.live \ h.live : i[1] = b \/ Instr(o, i).op = "phi"
  BY <1>5, <1>6, <1>9 DEF InBlock
<1>. QED
  BY <1>9, <1>10, <1>11, <1>12 DEF LosesBlock, h

LEMMA BypassPart ==
    ASSUME NEW o, Proper(o), NEW g, Part(g, o), NEW b \in Blocks(g), Len(g.succ[b]) = 1
    PROVE  /\ LosesBlock(o, g, Bypass(g, b), b)
           /\ g.succ[b][1] \in DOMAIN o.code
           /\ Bypass(g, b).succ = [p \in DOMAIN o.code |->
                    IF p = b THEN <<>> ELSE Redirected(g.succ[p], b, g.succ[b][1])]
<1>. DEFINE s == g.succ[b][1]
            preds == SetToSeq(Preds(g, b))
            Moved(phi) ==
                LET value == phi.ops[CHOOSE k \in DOMAIN phi.ops : phi.from[k] = b]
                    rest == SelectSeq([k \in DOMAIN phi.ops |-> k], LAMBDA k : phi.from[k] # b)
                IN  [phi EXCEPT !.ops = [k \in DOMAIN rest |-> phi.ops[rest[k]]] \o [k \in DOMAIN preds |-> value],
                                !.from = [k \in DOMAIN rest |-> phi.from[rest[k]]] \o preds]
            New(n) == IF <<s, n>> \in Phis(g, s) THEN Moved(g.code[s][n]) ELSE g.code[s][n]
            X == [g.code EXCEPT ![s] = [n \in DOMAIN g.code[s] |-> New(n)]]
            S == [p \in DOMAIN g.succ |-> IF p = b THEN <<>> ELSE Redirected(g.succ[p], b, s)]
            h == Bypass(g, b)
<1>1. b \in DOMAIN o.code /\ g.succ[b] \in Seq(DOMAIN o.code)
  BY ElementOfSeq DEF Part, Blocks, Range
<1>2. s \in DOMAIN o.code
  BY <1>1, ElementOfSeq, LenProperties
<1>3. h = [g EXCEPT !.code = X, !.succ = S, !.order = RemoveAt(g.order, Position(g, b)),
                    !.live = g.live \ InBlock(g, b)]
  BY Zenon DEF Bypass
<1>. HIDE DEF h, s
<1>4. DOMAIN X = DOMAIN o.code
  BY DEF Part, SameCode
<1>5. ASSUME NEW x \in DOMAIN o.code
      PROVE  /\ X[x] = [n \in 1 .. Len(o.code[x]) |-> X[x][n]]
             /\ \A n \in 1 .. Len(o.code[x]) : DOMAIN X[x][n] = Fields /\ X[x][n].op = o.code[x][n].op
  <2>. HIDE DEF New
  <2>1. CASE x # s
    BY <2>1 DEF Part, SameCode
  <2>2. CASE x = s
    <3>1. DOMAIN g.code[s] = 1 .. Len(o.code[s])
      BY <1>2, PartCode DEF Part
    <3>2. X[x] = [n \in 1 .. Len(o.code[x]) |-> New(n)]
      BY <1>2, <2>2, <3>1 DEF Part, SameCode
    <3>. HIDE DEF X
    <3>3. ASSUME NEW n \in 1 .. Len(o.code[x])
          PROVE  DOMAIN X[x][n] = Fields /\ X[x][n].op = o.code[x][n].op
      <4>1. X[x][n] = New(n)
        BY <3>2
      <4>2. DOMAIN g.code[s][n] = Fields /\ g.code[s][n].op = o.code[s][n].op
        BY <2>2, <3>3 DEF Part, SameCode
      <4>3. DOMAIN Moved(g.code[s][n]) = DOMAIN g.code[s][n] /\ Moved(g.code[s][n]).op = g.code[s][n].op
        <5>1. "op" \in DOMAIN g.code[s][n]
          BY <4>2 DEF Fields
        <5>. QED
          BY <5>1
      <4>. HIDE DEF Moved
      <4>. QED
        BY <2>2, <4>1, <4>2, <4>3 DEF New
    <3>. QED
      BY <3>2, <3>3
  <2>. QED
    BY <2>1, <2>2
<1>. HIDE DEF X
<1>6. S = [p \in DOMAIN o.code |-> IF p = b THEN <<>> ELSE Redirected(g.succ[p], b, s)]
  BY DEF Part
<1>. HIDE DEF S
<1>7. h = [code |-> X, succ |-> S, order |-> RemoveAt(g.order, Position(g, b)), live |-> g.live \ InBlock(g, b)]
  <2>1. g = [code |-> g.code, succ |-> g.succ, order |-> g.order, live |-> g.live]
    BY DEF Part
  <2>. QED
    BY <1>3, <2>1
<1>8. h.code = X /\ h.succ = S /\ h.order = RemoveAt(g.order, Position(g, b)) /\ h.live = g.live \ InBlock(g, b)
  BY <1>7
<1>9. h.order \in Seq(DOMAIN o.code) /\ IsInjective(h.order) /\ Blocks(h) = Blocks(g) \ {b}
  BY <1>8, OrderWithout
<1>10. ASSUME NEW p \in DOMAIN o.code
       PROVE  S[p] \in Seq(DOMAIN o.code) /\ Len(S[p]) <= 2 /\ (g.succ[p] = <<>> => S[p] = <<>>)
  <2>1. CASE p = b
    <3>1. S[p] = <<>>
      BY <1>6, <2>1
    <3>2. <<>> \in Seq(DOMAIN o.code) /\ Len(<<>>) <= 2
      BY EmptySeq
    <3>. QED
      BY <3>1, <3>2
  <2>2. CASE p # b
    <3>1. S[p] = [k \in DOMAIN g.succ[p] |-> IF g.succ[p][k] = b THEN s ELSE g.succ[p][k]]
      BY <1>6, <2>2 DEF Redirected
    <3>2. g.succ[p] \in Seq(DOMAIN o.code) /\ Len(g.succ[p]) <= 2
      BY DEF Part
    <3>3. Len(g.succ[p]) \in Nat /\ DOMAIN g.succ[p] = 1 .. Len(g.succ[p])
          /\ \A k \in DOMAIN g.succ[p] : g.succ[p][k] \in DOMAIN o.code
      BY <3>2, ElementOfSeq, LenProperties
    <3>4. S[p] \in [1 .. Len(g.succ[p]) -> DOMAIN o.code]
      BY <1>2, <3>1, <3>3
    <3>5. S[p] \in Seq(DOMAIN o.code) /\ Len(S[p]) = Len(g.succ[p])
      BY <3>3, <3>4, LenProperties, SeqDef
    <3>6. g.succ[p] = <<>> => Len(S[p]) = 0
      BY <3>5, EmptySeq
    <3>. QED
      BY <3>2, <3>5, <3>6, EmptySeq
  <2>. QED
    BY <2>1, <2>2
<1>11. Part(h, o)
  <2>1. h.succ \in [DOMAIN o.code -> Seq(DOMAIN o.code)]
    BY <1>6, <1>8, <1>10
  <2>2. \A x \in DOMAIN o.code : Len(h.succ[x]) <= 2
    BY <1>8, <1>10
  <2>3. \A x \in DOMAIN o.code \ Blocks(h) : h.succ[x] = <<>>
    BY <1>6, <1>8, <1>9, <1>10 DEF Part
  <2>4. SameCode(h, o)
    BY <1>4, <1>5, <1>8 DEF SameCode
  <2>5. h.live \subseteq o.live
    BY <1>8 DEF Part
  <2>6. h = [code |-> h.code, succ |-> h.succ, order |-> h.order, live |-> h.live]
    BY <1>7
  <2>. QED
    BY <1>9, <2>1, <2>2, <2>3, <2>4, <2>5, <2>6 DEF Part
<1>12. h.live \subseteq g.live /\ \A i \in g.live \ h.live : i[1] = b
  BY <1>8 DEF InBlock
<1>. QED
  BY <1>2, <1>6, <1>8, <1>9, <1>11, <1>12 DEF LosesBlock, h, s

-----------------------------------------------------------------------------
(* What is reached. *)

LEMMA SuccsIn ==
    ASSUME NEW D, NEW g, g.succ \in [D -> Seq(D)], NEW b \in D
    PROVE  Succs(g, b) \subseteq D
BY ElementOfSeq DEF Succs, Range

\* Reach is the least set of blocks with those of S that none leads out of.
LEMMA ReachMeaning ==
    ASSUME NEW D, NEW g, g.succ \in [D -> Seq(D)], NEW S \in SUBSET D
    PROVE  /\ S \subseteq Reach(g, S) /\ Reach(g, S) \subseteq D
           /\ \A b \in Reach(g, S) : Succs(g, b) \subseteq Reach(g, S)
           /\ \A T \in SUBSET D : S \subseteq T /\ (\A b \in T : Succs(g, b) \subseteq T) => Reach(g, S) \subseteq T
<1>1. DOMAIN g.succ = D
  OBVIOUS
<1>2. \A b \in D : Succs(g, b) \subseteq D
  BY SuccsIn
<1>. DEFINE Closed == {T \in SUBSET D : S \subseteq T /\ \A b \in T : Succs(g, b) \subseteq T}
<1>3. Reach(g, S) = {b \in D : \A T \in Closed : b \in T}
  BY <1>1, Zenon DEF Reach
<1>4. ASSUME NEW b \in Reach(g, S), NEW x \in Succs(g, b)
      PROVE  x \in Reach(g, S)
  <2>1. b \in D /\ x \in D
    BY <1>2, <1>3
  <2>2. ASSUME NEW T \in Closed
        PROVE  x \in T
    BY <1>3
  <2>. QED
    BY <1>3, <2>1, <2>2
<1>5. S \subseteq Reach(g, S) /\ Reach(g, S) \subseteq D
  BY <1>3
<1>6. ASSUME NEW T \in SUBSET D, S \subseteq T, \A b \in T : Succs(g, b) \subseteq T
      PROVE  Reach(g, S) \subseteq T
  <2>1. T \in Closed
    BY <1>6
  <2>. QED
    BY <1>3, <2>1
<1>. QED
  BY <1>4, <1>5, <1>6

LEMMA ReachFrom ==
    ASSUME NEW D, NEW g, g.succ \in [D -> Seq(D)], NEW e \in D
    PROVE  /\ e \in Reach(g, {e}) /\ Reach(g, {e}) \subseteq D
           /\ \A b \in Reach(g, {e}) : Succs(g, b) \subseteq Reach(g, {e})
<1>. DEFINE S == {e}
<1>1. S \in SUBSET D /\ e \in S
  OBVIOUS
<1>. HIDE DEF S
<1>2. /\ S \subseteq Reach(g, S) /\ Reach(g, S) \subseteq D
      /\ \A b \in Reach(g, S) : Succs(g, b) \subseteq Reach(g, S)
  BY <1>1, ReachMeaning
<1>. QED
  BY <1>1, <1>2 DEF S

LEMMA ReachLeast ==
    ASSUME NEW D, NEW g, g.succ \in [D -> Seq(D)], NEW e \in D,
           NEW T \in SUBSET D, e \in T, \A b \in T : Succs(g, b) \subseteq T
    PROVE  Reach(g, {e}) \subseteq T
<1>. DEFINE S == {e}
<1>1. S \in SUBSET D /\ S \subseteq T
  OBVIOUS
<1>. HIDE DEF S
<1>2. Reach(g, S) \subseteq T
  BY <1>1, ReachMeaning
<1>. QED
  BY <1>2 DEF S

\* When a branch keeps one way, what is reached no more is reached the other way from it,
\* and what it keeps is reached.
LEMMA ReachOneWay ==
    ASSUME NEW D, NEW g, g.succ \in [D -> Seq(D)], NEW e \in D, NEW b \in D,
           g = [code |-> g.code, succ |-> g.succ, order |-> g.order, live |-> g.live],
           NEW new \in D, NEW old \in D, Succs(g, b) = {new, old},
           NEW h, h.succ = [g.succ EXCEPT ![b] = <<new>>],
           NEW x \in Reach(g, {e})
    PROVE  \/ x \in Reach(h, {e})
           \/ /\ x \in reachableBlocksThroughSucc(g, b, old)
              /\ reachableBlocksThroughSucc(g, b, new) \subseteq Reach(h, {e})
<1>. DEFINE k == [g EXCEPT !.succ[b] = <<old>>]
            l == [g EXCEPT !.succ[b] = <<new>>]
            H == Reach(h, {e})
            K == Reach(k, {b})
            L == Reach(l, {b})
<1>1. k.succ = [g.succ EXCEPT ![b] = <<old>>] /\ l.succ = h.succ
  OBVIOUS
<1>2. <<old>> \in Seq(D) /\ <<new>> \in Seq(D)
  OBVIOUS
<1>3. k.succ \in [D -> Seq(D)] /\ h.succ \in [D -> Seq(D)] /\ l.succ \in [D -> Seq(D)]
  BY <1>1, <1>2
<1>4. reachableBlocksThroughSucc(g, b, old) = K \ {b} /\ reachableBlocksThroughSucc(g, b, new) = L \ {b}
  BY Zenon DEF reachableBlocksThroughSucc
<1>5. Succs(h, b) = {new} /\ Succs(l, b) = {new} /\ Succs(k, b) = {old}
  <2>1. \A y : Range(<<y>>) = {y}
    BY DEF Range
  <2>2. h.succ[b] = <<new>> /\ l.succ[b] = <<new>> /\ k.succ[b] = <<old>>
    BY <1>1
  <2>. QED
    BY <2>1, <2>2 DEF Succs
<1>6. \A y \in D \ {b} : Succs(h, y) = Succs(g, y) /\ Succs(l, y) = Succs(g, y) /\ Succs(k, y) = Succs(g, y)
  BY <1>1 DEF Succs
<1>. HIDE DEF k, l
<1>7. /\ e \in H /\ H \subseteq D /\ \A y \in H : Succs(h, y) \subseteq H
  BY <1>3, ReachFrom
<1>8. /\ b \in K /\ K \subseteq D /\ \A y \in K : Succs(k, y) \subseteq K
  BY <1>3, ReachFrom
<1>9. \A T \in SUBSET D : e \in T /\ (\A y \in T : Succs(g, y) \subseteq T) => x \in T
  BY ReachLeast
<1>10. \A T \in SUBSET D : b \in T /\ (\A y \in T : Succs(l, y) \subseteq T) => L \subseteq T
  BY <1>3, ReachLeast
<1>. HIDE DEF H, K, L
<1>11. CASE b \notin H
  <2>1. \A y \in H : Succs(g, y) \subseteq H
    BY <1>6, <1>7, <1>11
  <2>. QED
    BY <1>7, <1>9, <2>1 DEF H
<1>12. CASE b \in H
  <2>. DEFINE T == H \cup K
  <2>1. ASSUME NEW y \in T
        PROVE  Succs(g, y) \subseteq T
    <3>1. CASE y = b
      BY <1>5, <1>7, <1>8, <1>12, <3>1
    <3>2. CASE y # b
      BY <1>6, <1>7, <1>8, <3>2
    <3>. QED
      BY <3>1, <3>2
  <2>2. x \in T
    BY <1>7, <1>8, <1>9, <2>1
  <2>3. \A y \in H : Succs(l, y) \subseteq H
    BY <1>5, <1>6, <1>7
  <2>4. L \subseteq H
    BY <1>7, <1>10, <1>12, <2>3
  <2>5. x \in H \/ x \in K \ {b}
    BY <1>12, <2>2
  <2>. QED
    BY <1>4, <2>4, <2>5 DEF H, K, L
<1>. QED
  BY <1>11, <1>12

\* A block that nothing leads to is not missed, ...
LEMMA ReachWithoutDead ==
    ASSUME NEW D, NEW g, g.succ \in [D -> Seq(D)], NEW e \in D, NEW b \in D \ {e},
           \A y \in D : b \notin Succs(g, y),
           NEW h, h.succ = [g.succ EXCEPT ![b] = <<>>]
    PROVE  Reach(g, {e}) \subseteq Reach(h, {e})
<1>1. h.succ \in [D -> Seq(D)]
  BY EmptySeq
<1>. DEFINE H == Reach(h, {e})
            T == H \ {b}
<1>2. e \in H /\ H \subseteq D /\ \A y \in H : Succs(h, y) \subseteq H
  BY <1>1, ReachFrom
<1>3. \A y \in D \ {b} : Succs(h, y) = Succs(g, y)
  BY DEF Succs
<1>4. T \in SUBSET D /\ e \in T /\ \A y \in T : Succs(g, y) \subseteq T
  BY <1>2, <1>3
<1>. HIDE DEF T
<1>5. Reach(g, {e}) \subseteq T
  BY <1>4, ReachLeast
<1>. QED
  BY <1>5 DEF T

\* ... nor is one that is not reached, ...
Emptied(D, g, h, b) == g.succ \in [D -> Seq(D)] /\ h.succ = [g.succ EXCEPT ![b] = <<>>]

LEMMA ReachWithoutUnreached ==
    ASSUME NEW D, NEW g, NEW h, NEW b, Emptied(D, g, h, b), NEW e \in D, b \notin Reach(g, {e})
    PROVE  Reach(h, {e}) = Reach(g, {e})
<1>. USE DEF Emptied
<1>1. h.succ \in [D -> Seq(D)]
  BY EmptySeq
<1>. DEFINE H == Reach(h, {e})
            G == Reach(g, {e})
            T == H \cap G
<1>2. e \in H /\ H \subseteq D /\ \A y \in H : Succs(h, y) \subseteq H
  BY <1>1, ReachFrom
<1>3. e \in G /\ G \subseteq D /\ \A y \in G : Succs(g, y) \subseteq G
  BY ReachFrom
<1>4. \A y \in G : Succs(h, y) = Succs(g, y)
  BY <1>3 DEF Succs
<1>5. T \in SUBSET D /\ e \in T /\ \A y \in T : Succs(g, y) \subseteq T
  BY <1>2, <1>3, <1>4
<1>6. G \in SUBSET D /\ \A y \in G : Succs(h, y) \subseteq G
  BY <1>3, <1>4
<1>. HIDE DEF T
<1>7. Reach(g, {e}) \subseteq T
  BY <1>5, ReachLeast
<1>8. H \subseteq G
  <2>. HIDE DEF G
  <2>. QED
    BY ONLY <1>1, <1>3, <1>6, e \in D, ReachLeast DEF H
<1>. QED
  BY <1>7, <1>8 DEF T

\* ... nor one that is bypassed: h is g with s after the blocks before b.
Bypassed(D, g, h, b, s) ==
    /\ g.succ \in [D -> Seq(D)] /\ h.succ \in [D -> Seq(D)]
    /\ b \in D /\ s \in D \ {b} /\ Succs(g, b) = {s}
    /\ \A p \in D \ {b} : h.succ[p] = Redirected(g.succ[p], b, s)

LEMMA ReachBypassed ==
    ASSUME NEW D, NEW g, NEW h, NEW b, NEW s, Bypassed(D, g, h, b, s), NEW e \in D \ {b}
    PROVE  Reach(g, {e}) \ {b} \subseteq Reach(h, {e})
<1>. USE DEF Bypassed
<1>. DEFINE H == Reach(h, {e})
            T == IF s \in H THEN H \cup {b} ELSE H \ {b}
<1>1. e \in H /\ H \subseteq D /\ \A y \in H : Succs(h, y) \subseteq H
  BY ReachFrom
<1>2. ASSUME NEW y \in D \ {b}, NEW z \in Succs(g, y)
      PROVE  (IF z = b THEN s ELSE z) \in Succs(h, y)
  <2>1. PICK k \in DOMAIN g.succ[y] : z = g.succ[y][k]
    BY DEF Succs, Range
  <2>2. h.succ[y] = [j \in DOMAIN g.succ[y] |-> IF g.succ[y][j] = b THEN s ELSE g.succ[y][j]]
    BY DEF Redirected
  <2>3. k \in DOMAIN h.succ[y] /\ h.succ[y][k] = IF z = b THEN s ELSE z
    BY <2>1, <2>2
  <2>. QED
    BY <2>3 DEF Succs, Range
<1>. HIDE DEF H
<1>3. ASSUME NEW y \in T
      PROVE  Succs(g, y) \subseteq T
  <2>1. CASE y = b
    BY <1>1, <2>1
  <2>2. CASE y # b
    <3>1. y \in H /\ y \in D \ {b}
      BY <1>1, <2>2
    <3>2. ASSUME NEW z \in Succs(g, y)
          PROVE  z \in T
      <4>1. CASE z = b
        BY <1>1, <1>2, <3>1, <4>1
      <4>2. CASE z # b
        BY <1>1, <1>2, <3>1, <4>2
      <4>. QED
        BY <4>1, <4>2
    <3>. QED
      BY <3>2
  <2>. QED
    BY <2>1, <2>2
<1>4. T \in SUBSET D /\ e \in T
  BY <1>1
<1>. HIDE DEF T
<1>5. Reach(g, {e}) \subseteq T
  BY <1>3, <1>4, ReachLeast
<1>. QED
  BY <1>5 DEF T, H

-----------------------------------------------------------------------------
(* The ways of the function through blocks that are gone. *)

Gone(o, B) == [o EXCEPT !.succ = [x \in DOMAIN @ |-> IF x \in B THEN <<>> ELSE @[x]]]

\* When the blocks of B are there.
GoneVia(o, B, S) == Reach(Gone(o, B), S)

LEMMA GoneSuccs ==
    ASSUME NEW o, Proper(o), NEW B
    PROVE  /\ Gone(o, B).succ \in [DOMAIN o.code -> Seq(DOMAIN o.code)]
           /\ \A x \in DOMAIN o.code : Succs(Gone(o, B), x) = IF x \in B THEN {} ELSE Succs(o, x)
<1>1. /\ o = [code |-> o.code, succ |-> o.succ, order |-> o.order, live |-> o.live]
      /\ o.succ \in [DOMAIN o.code -> Seq(DOMAIN o.code)]
  BY DEF Proper
<1>2. Gone(o, B).succ = [x \in DOMAIN o.code |-> IF x \in B THEN <<>> ELSE o.succ[x]]
  BY <1>1 DEF Gone
<1>3. Range(<<>>) = {}
  BY DEF Range
<1>. QED
  BY <1>1, <1>2, <1>3, EmptySeq DEF Succs

\* Ways are reflexive and transitive, ...
LEMMA GoneViaMeaning ==
    ASSUME NEW o, Proper(o), NEW B, NEW S \in SUBSET DOMAIN o.code
    PROVE  /\ S \subseteq GoneVia(o, B, S) /\ GoneVia(o, B, S) \subseteq DOMAIN o.code
           /\ \A x \in GoneVia(o, B, S) \ B : Succs(o, x) \subseteq GoneVia(o, B, S)
           /\ \A T \in SUBSET DOMAIN o.code :
                 S \subseteq T /\ (\A x \in T \ B : Succs(o, x) \subseteq T) => GoneVia(o, B, S) \subseteq T
<1>. DEFINE g == Gone(o, B)
            D == DOMAIN o.code
<1>1. g.succ \in [D -> Seq(D)]
  BY GoneSuccs
<1>2. \A x \in D : Succs(g, x) = IF x \in B THEN {} ELSE Succs(o, x)
  BY GoneSuccs
<1>. HIDE DEF g
<1>3. /\ S \subseteq Reach(g, S) /\ Reach(g, S) \subseteq D
      /\ \A x \in Reach(g, S) : Succs(g, x) \subseteq Reach(g, S)
      /\ \A T \in SUBSET D : S \subseteq T /\ (\A b \in T : Succs(g, b) \subseteq T) => Reach(g, S) \subseteq T
  <2>. HIDE DEF D
  <2>1. S \in SUBSET D
    BY DEF D
  <2>. QED
    BY <1>1, <2>1, ReachMeaning
<1>4. GoneVia(o, B, S) = Reach(g, S)
  BY DEF GoneVia, g
<1>. HIDE DEF D
<1>5. \A x \in Reach(g, S) \ B : Succs(o, x) \subseteq Reach(g, S)
  BY <1>2, <1>3
<1>6. ASSUME NEW T \in SUBSET D, S \subseteq T, \A x \in T \ B : Succs(o, x) \subseteq T
      PROVE  Reach(g, S) \subseteq T
  <2>1. \A x \in T : Succs(g, x) \subseteq T
    BY <1>2, <1>6
  <2>. QED
    BY <1>3, <1>6, <2>1
<1>. QED
  BY <1>3, <1>4, <1>5, <1>6 DEF D

\* ... there are more when more is gone, ...
LEMMA GoneViaGrows ==
    ASSUME NEW o, Proper(o), NEW B, NEW C \in SUBSET B, NEW S \in SUBSET DOMAIN o.code
    PROVE  GoneVia(o, B, S) \subseteq GoneVia(o, C, S)
<1>1. /\ S \subseteq GoneVia(o, C, S) /\ GoneVia(o, C, S) \subseteq DOMAIN o.code
      /\ \A x \in GoneVia(o, C, S) \ C : Succs(o, x) \subseteq GoneVia(o, C, S)
  BY GoneViaMeaning
<1>2. \A x \in GoneVia(o, C, S) \ B : Succs(o, x) \subseteq GoneVia(o, C, S)
  BY <1>1
<1>. QED
  BY <1>1, <1>2, GoneViaMeaning

\* ... and they go on after a block that is gone.
LEMMA GoneViaJoins ==
    ASSUME NEW o, Proper(o), NEW B, NEW C \in SUBSET B, NEW S \in SUBSET DOMAIN o.code,
           NEW b \in GoneVia(o, B, S) \ C, NEW s \in GoneVia(o, B, Succs(o, b))
    PROVE  s \in GoneVia(o, C, S)
<1>. DEFINE W == GoneVia(o, C, S)
<1>1. b \in W /\ W \subseteq DOMAIN o.code /\ \A x \in W \ C : Succs(o, x) \subseteq W
  BY GoneViaGrows, GoneViaMeaning
<1>2. Succs(o, b) \subseteq W /\ Succs(o, b) \in SUBSET DOMAIN o.code
  BY <1>1
<1>3. \A x \in W \ B : Succs(o, x) \subseteq W
  BY <1>1
<1>. HIDE DEF W
<1>4. GoneVia(o, B, Succs(o, b)) \subseteq W
  BY <1>1, <1>2, <1>3, GoneViaMeaning
<1>. QED
  BY <1>4 DEF W

-----------------------------------------------------------------------------
(***************************************************************************)
(* The inductive invariant of the pass that slices for a variable.         *)
(***************************************************************************)

whole == source.fun

\* The phases in which no instruction is gone, and those before blocks that are not
\* reached are.
First == {"scan", "operands", "branches", "phis", "debug", "clear"}
Early == First \cup {"dead", "erase", "entry"}

\* What the phases leave as it was read, and where they are.
PhasesInOrder ==
    /\ pc \in Early \cup {"unreachable", "return", "done"}
    /\ Part(f, whole)
    /\ pc \in {"scan", "operands"} => f = whole
    /\ pc \in First => f.order = whole.order /\ f.live = whole.live
    /\ pc = "branches" => \A b \in DOMAIN whole.code : whole.succ[b] # <<>> => f.succ[b] # <<>>
    /\ pc = "scan" => at = NoPlace \/ at \in whole.live
    /\ pc \in {"branches", "dead", "erase"} => at[1] \in DOMAIN f.order
    /\ pc \in {"dead", "erase"} => at[1] > 1

\* The entry goes last of the blocks that are not included.
EntryFirst ==
    /\ pc \in Early => f.order # <<>> /\ f.order[1] = Entry
    /\ Entry \in Blocks(f) => f.order[1] = Entry

\* A block of a dependent instruction is included.
DependentsIncluded ==
    /\ DependentInstrs \subseteq whole.live
    /\ \A i \in DependentInstrs : i[1] \in IncludedBasicBlocks
    /\ pc \notin {"scan", "operands", "branches", "phis"} => DependentInstrs \subseteq IncludedInstrs
    /\ \A i \in DependentInstrs : i[1] \in Blocks(f) => i \in f.live \/ Instr(whole, i).op = "phi"

\* While the entry stays, each of these blocks is reached, but perhaps the return block.
Wanted == ({i[1] : i \in DependentInstrs} \cap Reach(whole, {Entry})) \ {RetBB}
WantedReached ==
    Entry \in Blocks(f) => Wanted \subseteq Blocks(f) /\ Wanted \subseteq Reach(f, {Entry})

\* Nothing leads to a block that is gone, but perhaps from what is not reached itself.
PathsKept ==
    /\ \A b \in Blocks(f) : Succs(f, b) \subseteq GoneVia(whole, Blocks(f), Succs(whole, b))
    /\ pc \in Early => \A b \in Blocks(f) : Succs(f, b) \subseteq Blocks(f) \ {Entry}
    /\ f.order # <<>> =>
        /\ \A b \in Blocks(f) \cap Reach(f, {f.order[1]}) : Succs(f, b) \subseteq Blocks(f)
        /\ pc \in {"return", "done"} => Blocks(f) \subseteq Reach(f, {f.order[1]})

SliceInv == PhasesInOrder /\ EntryFirst /\ DependentsIncluded /\ WantedReached /\ PathsKept

\* The other pass is a step of its own.
IInv ==
    /\ source \in Functions
    /\ source.pass = "scan" => SliceInv
    /\ source.pass = "control flow" => pc \in {"control flow", "done"}

-----------------------------------------------------------------------------
(* The beginning, and the phases that leave the function as it is. *)

LEMMA ProperWhole ==
    ASSUME NEW o, Proper(o)
    PROVE  /\ Part(o, o) /\ Blocks(o) = DOMAIN o.code
           /\ 1 \in DOMAIN o.order /\ o.order[1] \in DOMAIN o.code
           /\ \A b \in DOMAIN o.code : Succs(o, b) \subseteq DOMAIN o.code \ {o.order[1]}
<1>1. /\ o = [code |-> o.code, succ |-> o.succ, order |-> o.order, live |-> o.live]
      /\ o.order \in Seq(DOMAIN o.code) /\ o.order # <<>> /\ IsInjective(o.order)
      /\ Blocks(o) = DOMAIN o.code /\ Preds(o, o.order[1]) = {}
      /\ o.succ \in [DOMAIN o.code -> Seq(DOMAIN o.code)]
      /\ \A b \in DOMAIN o.code : Len(o.succ[b]) <= 2
  BY DEF Proper
<1>2. SameCode(o, o)
  <2>1. ASSUME NEW b \in DOMAIN o.code
        PROVE  /\ o.code[b] = [n \in 1 .. Len(o.code[b]) |-> o.code[b][n]]
               /\ \A n \in 1 .. Len(o.code[b]) : DOMAIN o.code[b][n] = Fields
    <3>1. o.code[b] = [n \in 1 .. Len(o.code[b]) |-> o.code[b][n]]
      BY DEF Proper
    <3>2. ASSUME NEW n \in 1 .. Len(o.code[b])
          PROVE  DOMAIN o.code[b][n] = Fields
      <4>1. <<b, n>> \in o.live
        BY Places
      <4>2. DOMAIN Instr(o, <<b, n>>) = {"op", "ops", "from", "callee"}
        BY <4>1 DEF Proper
      <4>. QED
        BY <4>2 DEF Instr, Fields
    <3>. QED
      BY <3>1, <3>2
  <2>. QED
    BY <2>1 DEF SameCode
<1>3. Part(o, o)
  BY <1>1, <1>2 DEF Part
<1>4. 1 \in DOMAIN o.order
  BY <1>1, EmptySeq, LenProperties
<1>5. o.order[1] \in DOMAIN o.code
  BY <1>1, <1>4, ElementOfSeq
<1>6. ASSUME NEW b \in DOMAIN o.code
      PROVE  Succs(o, b) \subseteq DOMAIN o.code \ {o.order[1]}
  <2>1. Succs(o, b) \subseteq DOMAIN o.code
    BY <1>1, SuccsIn
  <2>2. o.order[1] \notin Succs(o, b)
    BY <1>1 DEF Preds
  <2>. QED
    BY <2>1, <2>2
<1>. QED
  BY <1>1, <1>3, <1>4, <1>5, <1>6

LEMMA SliceBegins ==
    ASSUME Init, source.pass = "scan"
    PROVE  SliceInv
<1>1. source \in Functions /\ f = whole /\ pc = "scan" /\ at = NoPlace /\ DependentInstrs = {}
  BY DEF Init, whole
<1>2. Proper(whole)
  BY <1>1, FunctionsAssumption DEF whole
<1>3. /\ Part(f, whole) /\ Blocks(f) = DOMAIN whole.code
      /\ 1 \in DOMAIN f.order /\ f.order[1] = Entry
      /\ \A b \in Blocks(f) : Succs(f, b) \subseteq Blocks(f) \ {Entry}
  BY <1>1, <1>2, ProperWhole DEF Entry, whole
<1>4. f.order # <<>>
  BY <1>3
<1>5. ASSUME NEW b \in Blocks(f)
      PROVE  Succs(f, b) \subseteq GoneVia(whole, Blocks(f), Succs(whole, b))
  <2>1. Succs(whole, b) \in SUBSET DOMAIN whole.code
    BY <1>1, <1>3
  <2>. QED
    BY <1>1, <1>2, <2>1, GoneViaMeaning
<1>6. PhasesInOrder
  BY <1>1, <1>3 DEF PhasesInOrder, Early, First
<1>7. EntryFirst
  BY <1>3, <1>4 DEF EntryFirst
<1>8. DependentsIncluded
  BY <1>1 DEF DependentsIncluded
<1>9. WantedReached
  BY <1>1 DEF WantedReached, Wanted
<1>10. PathsKept
  BY <1>1, <1>3, <1>5 DEF PathsKept
<1>. QED
  BY <1>6, <1>7, <1>8, <1>9, <1>10 DEF SliceInv

\* What is kept when the function stays as it is.
LEMMA FunctionStays ==
    ASSUME SliceInv, UNCHANGED <<source, f>>,
           pc' \in Early => pc \in Early,
           pc' \in {"return", "done"} => pc \in {"return", "done"}
    PROVE  EntryFirst' /\ PathsKept' /\ (UNCHANGED DependentInstrs => WantedReached')
<1>1. Blocks(f)' = Blocks(f) /\ Entry' = Entry /\ whole' = whole /\ RetBB' = RetBB
  BY DEF Blocks, Entry, whole, RetBB
<1>2. UNCHANGED DependentInstrs => Wanted' = Wanted
  BY <1>1 DEF Wanted
<1>3. EntryFirst'
  BY <1>1 DEF SliceInv, EntryFirst
<1>4. UNCHANGED DependentInstrs => WantedReached'
  BY <1>1, <1>2 DEF SliceInv, WantedReached
<1>5. PathsKept'
  BY <1>1 DEF SliceInv, PathsKept
<1>. QED
  BY <1>3, <1>4, <1>5

\* The first phase goes on at an instruction.
LEMMA PlaceAfterIsIn ==
    ASSUME NEW o, Proper(o), f = o, NEW i \in o.live, NEW affected
    PROVE  PlaceAfter(i, affected) = NoPlace \/ PlaceAfter(i, affected) \in o.live
<1>1. i[1] \in DOMAIN o.code /\ i[2] \in 1 .. Len(o.code[i[1]]) /\ i = <<i[1], i[2]>>
  BY Places
<1>2. Len(o.code[i[1]]) \in Nat
  BY <1>1 DEF Proper
<1>3. CASE i[2] < Len(f.code[i[1]])
  <2>1. i[2] + 1 \in 1 .. Len(o.code[i[1]])
    BY <1>1, <1>2, <1>3
  <2>2. <<i[1], i[2] + 1>> \in o.live
    BY <1>1, <2>1, Places
  <2>. QED
    BY <1>3, <2>2 DEF PlaceAfter
<1>4. CASE ~(i[2] < Len(f.code[i[1]]))
  <2>. DEFINE n == Position(f, i[1]) + 1
              rest == {m \in n .. Len(f.order) : f.order[m] \notin affected}
              k == CHOOSE m \in rest : \A l \in rest : m <= l
  <2>1. PlaceAfter(i, affected) = StartFrom(n, affected)
    BY <1>4 DEF PlaceAfter
  <2>2. o.order \in Seq(DOMAIN o.code) /\ Blocks(o) = DOMAIN o.code
    BY DEF Proper
  <2>3. Position(f, i[1]) \in DOMAIN f.order
    BY <1>1, <2>2, PositionIsIn
  <2>4. Len(f.order) \in Nat /\ DOMAIN f.order = 1 .. Len(f.order)
    BY <2>2, LenProperties
  <2>5. n \in Nat /\ n >= 1
    BY <2>3, <2>4
  <2>. HIDE DEF n
  <2>6. CASE rest = {}
    BY <2>1, <2>6 DEF StartFrom
  <2>7. CASE rest # {}
    <3>1. rest \in SUBSET Nat
      BY <2>5, <2>4
    <3>2. k \in rest
      <4>. HIDE DEF rest
      <4>1. \E m \in rest : \A l \in rest : m <= l
        BY <2>7, <3>1, LeastExists
      <4>. QED
        BY <4>1
    <3>3. PlaceAfter(i, affected) = <<f.order[k], 1>>
      BY <2>1, <2>7 DEF StartFrom
    <3>. HIDE DEF k
    <3>4. k \in DOMAIN f.order
      BY <2>4, <2>5, <3>2
    <3>5. f.order[k] \in DOMAIN o.code
      BY <2>2, <3>4, ElementOfSeq
    <3>6. 1 \in 1 .. Len(o.code[f.order[k]])
      BY <3>5 DEF Proper
    <3>. QED
      BY <3>3, <3>5, <3>6, Places
  <2>. QED
    BY <2>6, <2>7
<1>. QED
  BY <1>3, <1>4

LEMMA ScanKeeps ==
    ASSUME SliceInv, source \in Functions, Scan
    PROVE  SliceInv'
<1>1. /\ pc = "scan" /\ f = whole /\ UNCHANGED <<source, f, IncludedInstrs>>
      /\ pc' \in {"scan", "operands"}
  BY DEF Scan, SliceInv, PhasesInOrder, MoveTo
<1>2. Proper(whole)
  BY FunctionsAssumption DEF whole
<1>3. whole' = whole /\ Entry' = Entry /\ RetBB' = RetBB
  BY <1>1 DEF whole, Entry, RetBB
<1>. DEFINE i == IF at = NoPlace THEN <<f.order[1], 1>> ELSE at
            instr == Instr(f, i)
            affected == IF instr.op = "br" THEN affectedBasicBlocks(i[1]) ELSE {}
            pointer == IF instr.op = "store" /\ IsInstr(instr.ops[2]) THEN {InstrOf(instr.ops[2])} ELSE {}
            added == {i} \cup pointer
<1>4. i \in whole.live
  <2>1. CASE at # NoPlace
    BY <1>1, <2>1 DEF SliceInv, PhasesInOrder
  <2>2. CASE at = NoPlace
    <3>1. whole.order[1] \in DOMAIN whole.code
      BY <1>2, ProperWhole
    <3>2. 1 \in 1 .. Len(whole.code[whole.order[1]])
      BY <1>2, <3>1 DEF Proper
    <3>. QED
      BY <1>1, <1>2, <2>2, <3>1, <3>2, Places
  <2>. QED
    BY <2>1, <2>2
<1>. HIDE DEF i
<1>5. pointer \subseteq whole.live
  <2>1. SUFFICES ASSUME instr.op = "store", IsInstr(instr.ops[2])
                 PROVE  InstrOf(instr.ops[2]) \in whole.live
    OBVIOUS
  <2>2. 2 \in DOMAIN instr.ops /\ InstrOps(whole, i) \subseteq whole.live
    BY <1>1, <1>2, <1>4, <2>1 DEF Proper
  <2>3. instr.ops[2] \in Ops(whole, i)
    BY <1>1, <2>2 DEF Ops, Range
  <2>4. InstrOf(instr.ops[2]) \in InstrOps(whole, i)
    BY <2>1, <2>3 DEF InstrOps
  <2>. QED
    BY <2>2, <2>4
<1>6. \/ /\ DependentInstrs' = DependentInstrs \cup added \cup UNION {InBlock(f, b) : b \in affected}
         /\ IncludedBasicBlocks' = IncludedBasicBlocks \cup affected \cup {j[1] : j \in added}
         /\ MoveTo(PlaceAfter(i, AffectedBasicBlocks \cup affected))
      \/ /\ UNCHANGED <<DependentInstrs, IncludedBasicBlocks>>
         /\ MoveTo(PlaceAfter(i, AffectedBasicBlocks))
  BY Zenon DEF Scan, i
<1>. HIDE DEF affected, pointer
<1>7. pc' = "scan" => at' \in whole.live
  <2>1. PICK place : MoveTo(place) /\ (place = NoPlace \/ place \in whole.live)
    BY <1>1, <1>2, <1>4, <1>6, PlaceAfterIsIn
  <2>. QED
    BY <2>1 DEF MoveTo
<1>8. /\ DependentInstrs' \subseteq whole.live
      /\ \A j \in DependentInstrs' : j[1] \in IncludedBasicBlocks'
  <2>1. /\ DependentInstrs \subseteq whole.live
        /\ \A j \in DependentInstrs : j[1] \in IncludedBasicBlocks
    BY DEF SliceInv, DependentsIncluded
  <2>2. CASE UNCHANGED <<DependentInstrs, IncludedBasicBlocks>>
    BY <2>1, <2>2
  <2>3. CASE /\ DependentInstrs' = DependentInstrs \cup added \cup UNION {InBlock(f, b) : b \in affected}
             /\ IncludedBasicBlocks' = IncludedBasicBlocks \cup affected \cup {j[1] : j \in added}
    <3>1. added \subseteq whole.live
      BY <1>4, <1>5
    <3>. HIDE DEF added
    <3>2. ASSUME NEW j \in UNION {InBlock(f, b) : b \in affected}
          PROVE  j \in whole.live /\ j[1] \in affected
      BY <1>1 DEF InBlock
    <3>. QED
      BY <2>1, <2>3, <3>1, <3>2
  <2>. QED
    BY <1>6, <2>2, <2>3
<1>9. PhasesInOrder'
  <2>1. Part(f, whole)' /\ f'.order = whole'.order /\ f'.live = whole'.live
    BY <1>1, <1>3 DEF SliceInv, PhasesInOrder
  <2>. QED
    BY <1>1, <1>3, <1>7, <2>1 DEF PhasesInOrder, Early, First
<1>10. DependentsIncluded'
  BY <1>1, <1>3, <1>8 DEF DependentsIncluded
<1>11. EntryFirst' /\ PathsKept'
  BY <1>1, FunctionStays DEF Early, First
<1>12. WantedReached'
  <2>1. Reach(whole, {Entry}) \subseteq DOMAIN whole.code /\ Blocks(f) = DOMAIN whole.code
    <3>1. whole.succ \in [DOMAIN whole.code -> Seq(DOMAIN whole.code)] /\ Blocks(whole) = DOMAIN whole.code
      BY <1>2 DEF Proper
    <3>2. Entry \in DOMAIN whole.code
      BY <1>2, ProperWhole DEF Entry, whole
    <3>. QED
      BY <1>1, <3>1, <3>2, ReachFrom
  <2>2. Wanted' \subseteq Reach(whole, {Entry})
    BY <1>3 DEF Wanted
  <2>3. Blocks(f)' = Blocks(f) /\ Reach(f, {Entry})' = Reach(whole, {Entry})
    BY <1>1, <1>3
  <2>. QED
    BY <2>1, <2>2, <2>3 DEF WantedReached
<1>. QED
  BY <1>9, <1>10, <1>11, <1>12 DEF SliceInv

\* More is included.
LEMMA IncludeMore ==
    ASSUME SliceInv, UNCHANGED <<source, f, DependentInstrs>>,
           IncludedInstrs \subseteq IncludedInstrs', IncludedBasicBlocks \subseteq IncludedBasicBlocks',
           pc' \notin {"scan", "operands", "branches", "phis"} => DependentInstrs \subseteq IncludedInstrs'
    PROVE  DependentsIncluded'
<1>1. whole' = whole /\ Blocks(f)' = Blocks(f)
  BY DEF whole, Blocks
<1>. QED
  BY <1>1 DEF SliceInv, DependentsIncluded

LEMMA IncludesMore ==
    ASSUME NEW S, NEW users, Include(f, S, users)
    PROVE  IncludedInstrs \subseteq IncludedInstrs' /\ IncludedBasicBlocks \subseteq IncludedBasicBlocks'
BY DEF Include

\* The phases that include what else is needed.
LEMMA PhasesKeep ==
    ASSUME SliceInv, source \in Functions, AddOperands \/ AddPhiInputs \/ AddDebugInfo \/ ChangeToVoid
    PROVE  SliceInv'
<1>1. UNCHANGED <<source, f, DependentInstrs>>
  BY DEF AddOperands, AddPhiInputs, AddDebugInfo, ChangeToVoid, sets
<1>2. whole' = whole /\ Part(f, whole)' /\ Blocks(f)' = Blocks(f)
  BY <1>1 DEF whole, SliceInv, PhasesInOrder, Blocks
<1>3. \/ pc = "operands" /\ pc' = "branches" /\ at' = <<1, 0>>
      \/ pc = "phis" /\ pc' = "debug"
      \/ pc = "debug" /\ pc' = "clear"
      \/ pc = "return" /\ pc' = "done"
  <2>1. CASE AddOperands
    BY <2>1 DEF AddOperands
  <2>2. CASE AddPhiInputs
    BY <2>2, Zenon DEF AddPhiInputs
  <2>3. CASE AddDebugInfo
    BY <2>3 DEF AddDebugInfo
  <2>4. CASE ChangeToVoid
    BY <2>4 DEF ChangeToVoid
  <2>. QED
    BY <2>1, <2>2, <2>3, <2>4
<1>4. IncludedInstrs \subseteq IncludedInstrs' /\ IncludedBasicBlocks \subseteq IncludedBasicBlocks'
  <2>1. CASE AddOperands
    <3>1. PICK users : Include(f, {}, users)
      BY <2>1 DEF AddOperands
    <3>. QED
      BY <3>1, IncludesMore
  <2>2. CASE AddPhiInputs
    BY <2>2 DEF AddPhiInputs
  <2>3. CASE AddDebugInfo
    BY <2>3 DEF AddDebugInfo
  <2>4. CASE ChangeToVoid
    BY <2>4 DEF ChangeToVoid, sets
  <2>. QED
    BY <2>1, <2>2, <2>3, <2>4
<1>5. pc' \notin {"scan", "operands", "branches", "phis"} => DependentInstrs \subseteq IncludedInstrs'
  <2>1. CASE AddPhiInputs
    BY <2>1 DEF AddPhiInputs
  <2>2. CASE ~AddPhiInputs
    <3>1. pc \in {"operands", "debug", "return"}
      BY <2>2 DEF AddOperands, AddDebugInfo, ChangeToVoid
    <3>. QED
      BY <1>3, <1>4, <3>1 DEF SliceInv, DependentsIncluded
  <2>. QED
    BY <2>1, <2>2
<1>6. DependentsIncluded'
  BY <1>1, <1>4, <1>5, IncludeMore
<1>7. EntryFirst' /\ PathsKept' /\ WantedReached'
  BY <1>1, <1>3, FunctionStays DEF Early, First
<1>8. PhasesInOrder'
  <2>1. pc = "operands" => 1 \in DOMAIN f.order
    <3>1. Proper(whole)
      BY FunctionsAssumption DEF whole
    <3>. QED
      BY <3>1, ProperWhole DEF SliceInv, PhasesInOrder
  <2>2. <<1, 0>>[1] = 1
    OBVIOUS
  <2>3. f' = f
    BY <1>1
  <2>. QED
    BY <1>2, <1>3, <2>1, <2>2, <2>3 DEF SliceInv, PhasesInOrder, Early, First
<1>. QED
  BY <1>6, <1>7, <1>8 DEF SliceInv

-----------------------------------------------------------------------------
(* Branches that keep one way. *)

KeptWays(b, s) == (reachableBlocksThroughSucc(f, b, s) \cap IncludedBasicBlocks) \ {RetBB}

\* The way that is kept leads to each block that the other one leads to and that matters.
LEMMA includedSuccessorsMeaning ==
    ASSUME NEW D, NEW b, f.succ[b] \in Seq(D), f.succ[b] # <<>>, Len(f.succ[b]) <= 2
    PROVE  /\ IsFiniteSet(includedSuccessors(b)) /\ Succs(f, b) \subseteq D
           /\ \A new : includedSuccessors(b) = {new} =>
                \E old \in D : Succs(f, b) = {new, old} /\ KeptWays(b, old) \subseteq KeptWays(b, new)
<1>. DEFINE true == f.succ[b][1]
            false == f.succ[b][2]
            Reached(s) == (reachableBlocksThroughSucc(f, b, s) \cap IncludedBasicBlocks) \ {RetBB}
            some == {IF true = RetBB THEN false ELSE true}
            keep == includedSuccessors(b)
<1>1. Len(f.succ[b]) \in {1, 2} /\ DOMAIN f.succ[b] = 1 .. Len(f.succ[b])
  <2>1. Len(f.succ[b]) \in Nat \ {0}
    BY EmptySeq
  <2>2. DOMAIN f.succ[b] = 1 .. Len(f.succ[b])
    BY LenProperties
  <2>3. \A n \in Nat \ {0} : n <= 2 => n \in {1, 2}
    OBVIOUS
  <2>. QED
    BY <2>1, <2>2, <2>3
<1>2. CASE Len(f.succ[b]) = 1
  <2>1. keep = Succs(f, b)
    BY <1>2 DEF includedSuccessors
  <2>2. true \in D /\ Succs(f, b) = {true}
    BY <1>1, <1>2, ElementOfSeq DEF Succs, Range
  <2>3. IsFiniteSet(keep)
    <3>1. keep = {true}
      BY <2>1, <2>2
    <3>. HIDE DEF keep, true
    <3>. QED
      BY <3>1, FS_Singleton
  <2>. HIDE DEF true, keep
  <2>4. ASSUME NEW new, keep = {new}
        PROVE  Succs(f, b) = {new, true} /\ KeptWays(b, true) \subseteq KeptWays(b, new)
    <3>1. new = true
      BY <2>1, <2>2, <2>4
    <3>. QED
      BY <2>2, <3>1
  <2>. QED
    BY <2>2, <2>3, <2>4 DEF keep
<1>3. CASE Len(f.succ[b]) = 2
  <2>1. true \in D /\ false \in D /\ Succs(f, b) = {true, false}
    BY <1>1, <1>3, ElementOfSeq DEF Succs, Range
  <2>2. keep = IF Len(f.succ[b]) = 1 THEN Succs(f, b)
               ELSE IF Reached(true) # Reached(false)
               THEN IF Reached(false) \subseteq Reached(true) THEN {true}
                    ELSE IF Reached(true) \subseteq Reached(false) THEN {false}
                    ELSE {true, false}
               ELSE IF Reached(true) = {} THEN some
               ELSE IF ~isPotentiallyReachable(f, true, b) THEN {true}
               ELSE IF ~isPotentiallyReachable(f, false, b) THEN {false}
               ELSE some
    BY Zenon DEF includedSuccessors
  <2>3. \A s : KeptWays(b, s) = Reached(s)
    BY DEF KeptWays
  <2>. HIDE DEF Reached, keep, true, false
  <2>4. \/ keep = {true} /\ Reached(false) \subseteq Reached(true)
        \/ keep = {false} /\ Reached(true) \subseteq Reached(false)
        \/ keep = {true, false} /\ true # false
    BY <1>3, <2>2
  <2>5. IsFiniteSet(keep)
    <3>1. IsFiniteSet({true}) /\ IsFiniteSet({false})
      BY FS_Singleton
    <3>2. {true, false} = {true} \cup {false}
      OBVIOUS
    <3>3. IsFiniteSet({true, false})
      BY <3>1, <3>2, FS_Union
    <3>. QED
      BY <2>4, <3>1, <3>3
  <2>6. ASSUME NEW new, keep = {new}
        PROVE  \E old \in D : Succs(f, b) = {new, old} /\ KeptWays(b, old) \subseteq KeptWays(b, new)
    <3>1. CASE keep = {true} /\ Reached(false) \subseteq Reached(true)
      <4>1. new = true
        BY <2>6, <3>1
      <4>. QED
        BY <2>1, <2>3, <3>1, <4>1
    <3>2. CASE keep = {false} /\ Reached(true) \subseteq Reached(false)
      <4>1. new = false
        BY <2>6, <3>2
      <4>2. Succs(f, b) = {new, true}
        BY <2>1, <4>1
      <4>. QED
        BY <2>1, <2>3, <3>2, <4>1, <4>2
    <3>3. CASE keep = {true, false} /\ true # false
      BY <2>6, <3>3
    <3>. QED
      BY <2>4, <3>1, <3>2, <3>3
  <2>. QED
    BY <2>1, <2>5, <2>6 DEF keep
<1>. QED
  BY <1>1, <1>2, <1>3

LEMMA FieldsOf ==
    ASSUME NEW h, NEW c, NEW s, NEW r, NEW l, h = [code |-> c, succ |-> s, order |-> r, live |-> l]
    PROVE  h.code = c /\ h.succ = s /\ h.order = r /\ h.live = l
OBVIOUS

\* The last instruction of b, at n, becomes a jump.
NewBranch(g, b, new, n) == [g EXCEPT !.succ[b] = <<new>>, !.code[b][n].ops = <<>>]

LEMMA NewBranchPart ==
    ASSUME NEW o, Proper(o), NEW g, Part(g, o), NEW b \in Blocks(g), NEW new \in DOMAIN o.code, NEW n,
           NEW h, h = NewBranch(g, b, new, n)
    PROVE  /\ Part(h, o) /\ h.succ = [g.succ EXCEPT ![b] = <<new>>]
           /\ h.order = g.order /\ h.live = g.live
<1>. DEFINE X == [g.code EXCEPT ![b][n].ops = <<>>]
<1>1. g = [code |-> g.code, succ |-> g.succ, order |-> g.order, live |-> g.live]
  BY DEF Part
<1>2. h = [code |-> X, succ |-> [g.succ EXCEPT ![b] = <<new>>], order |-> g.order, live |-> g.live]
  BY <1>1 DEF NewBranch
<1>3. /\ DOMAIN X = DOMAIN g.code /\ \A x \in DOMAIN g.code \ {b} : X[x] = g.code[x]
      /\ b \in DOMAIN g.code => X[b] = [g.code[b] EXCEPT ![n].ops = <<>>]
  OBVIOUS
<1>. HIDE DEF X
<1>. DEFINE s == [g.succ EXCEPT ![b] = <<new>>]
<1>4. h.succ = s /\ h.order = g.order /\ h.live = g.live /\ h.code = X
  <2>. HIDE DEF s
  <2>1. h = [code |-> X, succ |-> s, order |-> g.order, live |-> g.live]
    BY <1>2 DEF s
  <2>. QED
    BY ONLY <2>1, FieldsOf
<1>5. SameCode(h, o)
  <2>1. DOMAIN g.code = DOMAIN o.code
    BY DEF Part, SameCode
  <2>2. ASSUME NEW x \in DOMAIN o.code
        PROVE  /\ h.code[x] = [k \in 1 .. Len(o.code[x]) |-> h.code[x][k]]
               /\ \A k \in 1 .. Len(o.code[x]) : DOMAIN h.code[x][k] = Fields /\ h.code[x][k].op = o.code[x][k].op
    <3>0. h.code = X
      BY <1>4
    <3>1. CASE x # b
      <4>1. h.code[x] = g.code[x]
        BY <1>3, <2>1, <3>0, <3>1
      <4>2. SameCode(g, o)
        BY DEF Part
      <4>. QED
        BY <4>1, <4>2 DEF SameCode
    <3>2. CASE x = b
      <4>1. g.code[x] = [k \in 1 .. Len(o.code[x]) |-> g.code[x][k]]
        BY DEF Part, SameCode
      <4>2. X[x] = [k \in 1 .. Len(o.code[x]) |-> IF k = n THEN [g.code[x][n] EXCEPT !.ops = <<>>] ELSE g.code[x][k]]
        BY <1>3, <2>1, <3>2, <4>1
      <4>3. ASSUME NEW k \in 1 .. Len(o.code[x])
            PROVE  DOMAIN X[x][k] = Fields /\ X[x][k].op = o.code[x][k].op
        <5>1. DOMAIN g.code[x][k] = Fields /\ g.code[x][k].op = o.code[x][k].op
          BY DEF Part, SameCode
        <5>2. X[x][k] = IF k = n THEN [g.code[x][n] EXCEPT !.ops = <<>>] ELSE g.code[x][k]
          BY <4>2
        <5>. QED
          BY <5>1, <5>2 DEF Fields
      <4>4. X[x] = [k \in 1 .. Len(o.code[x]) |-> X[x][k]]
        BY <4>2
      <4>. QED
        BY <3>0, <4>3, <4>4
    <3>. QED
      BY <3>1, <3>2
  <2>. QED
    BY <1>3, <1>4, <2>1, <2>2, Zenon DEF SameCode
<1>6. Blocks(h) = Blocks(g)
  BY <1>4 DEF Blocks
<1>7. b \in DOMAIN o.code
  BY ElementOfSeq DEF Part, Blocks, Range
<1>8. <<new>> \in Seq(DOMAIN o.code) /\ Len(<<new>>) = 1
  <2>. DEFINE D == DOMAIN o.code
  <2>1. new \in D
    OBVIOUS
  <2>. HIDE DEF D
  <2>2. <<new>> \in Seq(D) /\ Len(<<new>>) = 1
    BY <2>1
  <2>. QED
    BY <2>2 DEF D
<1>9. /\ h.succ \in [DOMAIN o.code -> Seq(DOMAIN o.code)]
      /\ \A x \in DOMAIN o.code : Len(h.succ[x]) <= 2
      /\ \A x \in DOMAIN o.code \ Blocks(h) : h.succ[x] = <<>>
  BY <1>4, <1>6, <1>7, <1>8 DEF Part
<1>10. h = [code |-> h.code, succ |-> h.succ, order |-> h.order, live |-> h.live]
  BY <1>2
<1>11. Part(h, o)
  BY <1>4, <1>5, <1>6, <1>9, <1>10 DEF Part
<1>. QED
  BY <1>4, <1>11

\* The next block is one of those that are there.
LEMMA NextBlockIsIn ==
    ASSUME NEW D, f.order \in Seq(D), NEW g, g.order \in Seq(D), NEW here, at[1] \in DOMAIN f.order,
           Len(g.order) = IF here \in Blocks(g) THEN Len(f.order) ELSE Len(f.order) - 1,
           NEW next, NextBlock(g, here, next)
    PROVE  \/ pc' = pc /\ at'[1] \in DOMAIN g.order /\ (at[1] > 1 => at'[1] > 1)
           \/ pc' = next /\ at' = <<IF next = "erase" THEN 2 ELSE 1, 0>>
<1>1. Len(f.order) \in Nat /\ DOMAIN f.order = 1 .. Len(f.order) /\ DOMAIN g.order = 1 .. Len(g.order)
  BY LenProperties
<1>2. CASE at[1] < Len(f.order)
  <2>. DEFINE n == IF here \in Blocks(g) THEN at[1] + 1 ELSE at[1]
  <2>1. pc' = pc /\ at' = <<n, 0>>
    BY <1>2 DEF NextBlock
  <2>2. n \in DOMAIN g.order /\ (at[1] > 1 => n > 1)
    BY <1>1, <1>2
  <2>. HIDE DEF n
  <2>3. at'[1] = n
    BY <2>1
  <2>. QED
    BY <2>1, <2>2, <2>3
<1>3. CASE ~(at[1] < Len(f.order))
  BY <1>3 DEF NextBlock
<1>. QED
  BY <1>2, <1>3

LEMMA VisitBranchKeeps ==
    ASSUME SliceInv, source \in Functions, VisitBranch
    PROVE  SliceInv'
<1>. DEFINE b == Here
            D == DOMAIN whole.code
            term == Term(f, b)
            keep == includedSuccessors(b)
            new == CHOOSE s \in keep : TRUE
            free == LosePredecessor(f, Succs(f, b) \ {new}, b)
            branch == [free EXCEPT !.succ[b] = <<new>>, !.code[b][term[2]].ops = <<>>]
<1>1. pc = "branches" /\ UNCHANGED <<source, DependentInstrs>> /\ NextBlock(f, b, "phis")
  BY DEF VisitBranch
<1>2. Proper(whole) /\ whole' = whole /\ Entry' = Entry /\ RetBB' = RetBB
  BY <1>1, FunctionsAssumption DEF whole, Entry, RetBB
<1>3. /\ Part(f, whole) /\ f.order = whole.order /\ f.live = whole.live /\ at[1] \in DOMAIN f.order
      /\ \A x \in D : whole.succ[x] # <<>> => f.succ[x] # <<>>
  BY <1>1 DEF SliceInv, PhasesInOrder, First
<1>4. b \in Blocks(f) /\ b \in D /\ Blocks(f) = D /\ f.order \in Seq(D)
  <2>1. Blocks(whole) = D
    BY <1>2, ProperWhole
  <2>. QED
    BY <1>3, <2>1 DEF Blocks, Range, Here, Part
<1>5. \/ UNCHANGED f /\ IncludedInstrs \subseteq IncludedInstrs' /\ IncludedBasicBlocks \subseteq IncludedBasicBlocks'
      \/ /\ Instr(f, term).op = "br" /\ Cardinality(keep) = 1
         /\ f' = branch /\ IncludedInstrs \subseteq IncludedInstrs' /\ UNCHANGED IncludedBasicBlocks
  <2>1. \/ UNCHANGED <<f, IncludedInstrs, IncludedBasicBlocks>>
        \/ /\ Instr(f, term).op = "br" /\ Cardinality(keep) = 1
           /\ f' = branch
           /\ IncludedInstrs' = IncludedInstrs \cup {term} /\ UNCHANGED IncludedBasicBlocks
        \/ Include(f, {term}, {term}) /\ UNCHANGED f
    BY Zenon DEF VisitBranch
  <2>2. CASE Include(f, {term}, {term}) /\ UNCHANGED f
    BY <2>2, IncludesMore
  <2>. HIDE DEF term, keep, branch
  <2>. QED
    BY <2>1, <2>2
<1>6. \/ pc' = "branches" /\ at'[1] \in DOMAIN f.order
      \/ pc' = "phis"
  <2>1. DOMAIN f.order = 1 .. Len(f.order) /\ Len(f.order) = IF b \in Blocks(f) THEN Len(f.order) ELSE Len(f.order) - 1
    BY <1>4, LenProperties
  <2>. HIDE DEF b, D
  <2>. QED
    BY <1>1, <1>3, <1>4, <2>1, NextBlockIsIn
<1>. HIDE DEF b, branch
<1>7. CASE UNCHANGED f
  <2>1. EntryFirst' /\ PathsKept' /\ WantedReached'
    BY <1>1, <1>6, <1>7, FunctionStays DEF Early, First
  <2>2. DependentsIncluded'
    BY <1>1, <1>5, <1>6, <1>7, IncludeMore
  <2>3. PhasesInOrder'
    BY <1>2, <1>3, <1>6, <1>7 DEF PhasesInOrder, Early, First
  <2>. QED
    BY <2>1, <2>2, <2>3 DEF SliceInv
<1>8. CASE f' # f
  <2>. HIDE DEF D
  <2>1. f.succ[b] \in Seq(D) /\ Len(f.succ[b]) <= 2
    BY <1>3, <1>4 DEF Part, D
  <2>2. f.succ[b] # <<>>
    <3>1. Len(f.code[b]) = Len(whole.code[b]) /\ Len(whole.code[b]) \in Nat \ {0}
      BY <1>2, <1>3, <1>4, PartCode DEF Part, D
    <3>2. term = Term(whole, b) /\ Len(whole.code[b]) \in 1 .. Len(whole.code[b])
      BY <3>1 DEF Term
    <3>3. Instr(f, term).op = Instr(whole, Term(whole, b)).op
      <4>. DEFINE n == Len(whole.code[b])
      <4>1. f.code[b][n].op = whole.code[b][n].op
        BY <1>3, <1>4, <3>2 DEF Part, SameCode, D
      <4>2. term = <<b, n>> /\ Term(whole, b) = <<b, n>>
        BY <3>2 DEF Term
      <4>. HIDE DEF term, n
      <4>. QED
        BY <4>1, <4>2 DEF Instr
    <3>4. whole.succ[b] # <<>>
      BY <1>2, <1>4, <1>5, <1>8, <3>3 DEF Proper, D
    <3>. QED
      BY <1>3, <1>4, <3>4
  <2>3. PICK old \in D : /\ Succs(f, b) = {new, old} /\ KeptWays(b, old) \subseteq KeptWays(b, new)
                         /\ Succs(f, b) \subseteq D
    <3>1. /\ IsFiniteSet(keep) /\ Succs(f, b) \subseteq D
          /\ \A x : keep = {x} =>
                \E old \in D : Succs(f, b) = {x, old} /\ KeptWays(b, old) \subseteq KeptWays(b, x)
      BY <2>1, <2>2, includedSuccessorsMeaning
    <3>. HIDE DEF keep
    <3>2. \E x : keep = {x}
      BY <1>5, <1>8, <3>1, FS_Singleton
    <3>3. keep = {new}
      BY <3>2
    <3>. QED
      BY <3>1, <3>3
  <2>4. new \in D
    BY <2>3
  <2>. HIDE DEF new
  <2>5. Part(free, whole) /\ free.succ = f.succ /\ free.order = f.order /\ free.live = f.live
    BY <1>2, <1>3, LosePredecessorPart
  <2>. HIDE DEF free
  <2>6. /\ Part(f', whole) /\ f'.succ = [f.succ EXCEPT ![b] = <<new>>]
        /\ f'.order = f.order /\ f'.live = f.live
    <3>. DEFINE n == term[2]
    <3>1. b \in Blocks(free)
      BY <1>4, <2>5 DEF Blocks
    <3>2. f' = NewBranch(free, b, new, n)
      BY <1>5, <1>8 DEF branch, NewBranch
    <3>. HIDE DEF n
    <3>3. /\ Part(f', whole) /\ f'.succ = [free.succ EXCEPT ![b] = <<new>>]
          /\ f'.order = free.order /\ f'.live = free.live
      BY <1>2, <2>4, <2>5, <3>1, <3>2, NewBranchPart DEF D
    <3>. QED
      BY <2>5, <3>3
  <2>7. Blocks(f)' = Blocks(f)
    BY <2>6 DEF Blocks
  <2>8. f.succ \in [D -> Seq(D)] /\ f'.succ \in [D -> Seq(D)]
        /\ f = [code |-> f.code, succ |-> f.succ, order |-> f.order, live |-> f.live]
    BY <1>3, <2>6 DEF Part, D
  <2>9. \A y \in D : Succs(f, y)' \subseteq Succs(f, y)
    <3>1. Range(<<new>>) = {new}
      BY DEF Range
    <3>. QED
      BY <1>4, <2>3, <2>6, <2>8, <3>1 DEF Succs
  <2>10. PhasesInOrder'
    <3>1. pc' = "branches" => \A x \in D : whole.succ[x] # <<>> => f'.succ[x] # <<>>
      BY <1>3, <2>6, <2>8
    <3>. QED
      BY <1>2, <1>3, <1>6, <2>6, <3>1 DEF PhasesInOrder, Early, First, D
  <2>11. EntryFirst'
    BY <1>1, <1>2, <2>6, <2>7 DEF SliceInv, EntryFirst, Early, First
  <2>12. DependentsIncluded'
    BY <1>1, <1>2, <1>5, <1>6, <1>8, <2>6, <2>7 DEF SliceInv, DependentsIncluded
  <2>13. WantedReached'
    <3>1. Wanted' = Wanted
      BY <1>1, <1>2 DEF Wanted
    <3>2. Entry \in D /\ Wanted \subseteq Reach(f, {Entry}) /\ Wanted \subseteq Blocks(f)
      BY <1>2, <1>4, ProperWhole DEF SliceInv, WantedReached, Entry, whole, D
    <3>3. ASSUME NEW x \in Wanted
          PROVE  x \in Reach(f', {Entry})
      <4>1. x \in IncludedBasicBlocks /\ x # RetBB
        BY DEF SliceInv, DependentsIncluded, Wanted
      <4>2. \/ x \in Reach(f', {Entry})
            \/ /\ x \in reachableBlocksThroughSucc(f, b, old)
               /\ reachableBlocksThroughSucc(f, b, new) \subseteq Reach(f', {Entry})
        BY <1>4, <2>3, <2>4, <2>6, <2>8, <3>2, ReachOneWay
      <4>3. x \in reachableBlocksThroughSucc(f, b, old) => x \in reachableBlocksThroughSucc(f, b, new)
        BY <2>3, <4>1 DEF KeptWays
      <4>. QED
        BY <4>2, <4>3
    <3>. QED
      BY <1>2, <2>7, <3>1, <3>2, <3>3 DEF WantedReached
  <2>14. PathsKept'
    <3>1. /\ \A x \in Blocks(f) : Succs(f, x) \subseteq GoneVia(whole, Blocks(f), Succs(whole, x))
          /\ \A x \in Blocks(f) : Succs(f, x) \subseteq Blocks(f) \ {Entry}
      BY <1>1 DEF SliceInv, PathsKept, Early, First
    <3>2. /\ \A x \in Blocks(f) : Succs(f', x) \subseteq GoneVia(whole, Blocks(f), Succs(whole, x))
          /\ \A x \in Blocks(f) : Succs(f', x) \subseteq Blocks(f) \ {Entry}
      BY <1>4, <2>9, <3>1
    <3>. QED
      BY <1>2, <1>6, <2>7, <3>2 DEF PathsKept, Early, First
  <2>. QED
    BY <2>10, <2>11, <2>12, <2>13, <2>14 DEF SliceInv
<1>. QED
  BY <1>7, <1>8

-----------------------------------------------------------------------------
(* Instructions and blocks that go. *)

LEMMA ClearKeeps ==
    ASSUME SliceInv, source \in Functions, Clear
    PROVE  SliceInv'
<1>. DEFINE unneeded == {i \in f.live : ~isIncluded(i) /\ i # Term(f, i[1])}
<1>1. /\ pc = "clear" /\ UNCHANGED <<source, DependentInstrs, IncludedInstrs, IncludedBasicBlocks>>
      /\ f' = Erase(f, unneeded, Undef) /\ at' = <<2, 0>>
      /\ pc' = IF Len(f.order) > 1 THEN "dead" ELSE "entry"
  BY DEF Clear, sets
<1>2. Proper(whole) /\ whole' = whole /\ Entry' = Entry /\ RetBB' = RetBB /\ Wanted' = Wanted
  BY <1>1, FunctionsAssumption DEF whole, Entry, RetBB, Wanted
<1>3. Part(f, whole) /\ f.live = whole.live
  BY <1>1 DEF SliceInv, PhasesInOrder, First
<1>4. DependentInstrs \cap unneeded = {}
  BY <1>1 DEF SliceInv, DependentsIncluded, isIncluded
<1>. HIDE DEF unneeded
<1>5. /\ Part(f', whole) /\ f'.succ = f.succ /\ f'.order = f.order
      /\ f'.live = f.live \ unneeded
  BY <1>1, <1>2, <1>3, ErasePart
<1>6. Blocks(f') = Blocks(f) /\ \A S : Reach(f', S) = Reach(f, S)
  BY <1>5 DEF Blocks, Reach, Succs
<1>7. \A b : Succs(f', b) = Succs(f, b)
  BY <1>5 DEF Succs
<1>8. PhasesInOrder'
  <2>1. Len(f.order) > 1 => 2 \in DOMAIN f.order
    <3>1. f.order \in Seq(DOMAIN whole.code)
      BY <1>3 DEF Part
    <3>. QED
      BY <3>1, LenProperties
  <2>2. <<2, 0>>[1] = 2
    OBVIOUS
  <2>. QED
    BY <1>1, <1>2, <1>5, <2>1, <2>2 DEF PhasesInOrder, Early, First
<1>9. EntryFirst'
  BY <1>1, <1>2, <1>5, <1>6 DEF SliceInv, EntryFirst, Early, First
<1>10. DependentsIncluded'
  <2>1. \A i \in DependentInstrs : i \in f'.live
    BY <1>3, <1>4, <1>5 DEF SliceInv, DependentsIncluded
  <2>. QED
    BY <1>1, <1>2, <2>1 DEF SliceInv, DependentsIncluded
<1>11. WantedReached'
  BY <1>2, <1>6 DEF SliceInv, WantedReached
<1>12. PathsKept'
  BY <1>1, <1>2, <1>5, <1>6, <1>7 DEF SliceInv, PathsKept, Early, First
<1>. QED
  BY <1>8, <1>9, <1>10, <1>11, <1>12 DEF SliceInv

\* What is kept when a block goes.
LEMMA BlockGoes ==
    ASSUME SliceInv, source \in Functions, UNCHANGED <<source, sets>>, pc \notin First, pc' \notin First,
           NEW b \in Blocks(f), LosesBlock(whole, f, f', b)
    PROVE  /\ DependentsIncluded' /\ Wanted' = Wanted
           /\ whole' = whole /\ Entry' = Entry /\ Proper(whole) /\ b \in DOMAIN whole.code
           /\ Blocks(f') = Blocks(f) \ {b}
           /\ Len(f'.order) = Len(f.order) - 1
           /\ b # f.order[1] => Len(f'.order) > 0 /\ f'.order[1] = f.order[1] /\ f'.order # <<>>
           /\ \A x \in DOMAIN whole.code : GoneVia(whole, Blocks(f), Succs(whole, x))
                                                \subseteq GoneVia(whole, Blocks(f'), Succs(whole, x))
           /\ f.succ \in [DOMAIN whole.code -> Seq(DOMAIN whole.code)]
           /\ f'.succ \in [DOMAIN whole.code -> Seq(DOMAIN whole.code)]
           /\ Blocks(f) \subseteq DOMAIN whole.code
<1>1. whole' = whole /\ Entry' = Entry /\ RetBB' = RetBB /\ Proper(whole)
  BY FunctionsAssumption DEF whole, Entry, RetBB
<1>2. Wanted' = Wanted
  BY <1>1 DEF Wanted, sets
<1>3. Part(f, whole) /\ Part(f', whole)
  BY DEF SliceInv, PhasesInOrder, LosesBlock
<1>4. Blocks(f) \subseteq DOMAIN whole.code
  BY <1>3, ElementOfSeq DEF Part, Blocks, Range
<1>5. DependentsIncluded'
  <2>1. ASSUME NEW i \in DependentInstrs, i[1] \in Blocks(f')
        PROVE  i \in f'.live \/ Instr(whole, i).op = "phi"
    <3>1. i[1] \in Blocks(f) /\ i[1] # b
      BY <2>1 DEF LosesBlock
    <3>2. i \in f.live \/ Instr(whole, i).op = "phi"
      BY <3>1 DEF SliceInv, DependentsIncluded
    <3>. QED
      BY <3>1, <3>2 DEF LosesBlock
  <2>2. DependentInstrs \subseteq IncludedInstrs
    BY DEF SliceInv, DependentsIncluded, First
  <2>. QED
    BY <1>1, <2>1, <2>2 DEF SliceInv, DependentsIncluded, sets
<1>6. /\ Blocks(f') = Blocks(f) \ {b} /\ Len(f'.order) = Len(f.order) - 1
      /\ b # f.order[1] => Len(f'.order) > 0 /\ f'.order[1] = f.order[1]
  BY <1>3, OrderWithout DEF LosesBlock
<1>7. Len(f'.order) > 0 => f'.order # <<>>
  BY EmptySeq
<1>8. ASSUME NEW x \in DOMAIN whole.code
      PROVE  GoneVia(whole, Blocks(f), Succs(whole, x)) \subseteq GoneVia(whole, Blocks(f'), Succs(whole, x))
  <2>1. Succs(whole, x) \in SUBSET DOMAIN whole.code
    BY <1>1, ProperWhole
  <2>2. Blocks(f') \in SUBSET Blocks(f)
    BY <1>6
  <2>. QED
    BY <1>1, <2>1, <2>2, GoneViaGrows
<1>. QED
  BY <1>1, <1>2, <1>3, <1>4, <1>5, <1>6, <1>7, <1>8 DEF Part

\* The loops over the blocks after the entry, of which one may go.
LEMMA RemovalMoves ==
    ASSUME SliceInv, pc \in {"dead", "erase"}, NEW next \in {"erase", "entry"}, Part(f', whole),
           Len(f'.order) = IF Here \in Blocks(f') THEN Len(f.order) ELSE Len(f.order) - 1,
           Len(f'.order) > 0,
           IF Len(f'.order) = 1 THEN pc' = "entry" /\ at' = <<1, 0>> ELSE NextBlock(f', Here, next)
    PROVE  /\ pc' \in {"dead", "erase", "entry"}
           /\ pc' \in {"dead", "erase"} => at'[1] \in DOMAIN f'.order /\ at'[1] > 1
<1>1. CASE Len(f'.order) = 1
  BY <1>1
<1>2. CASE Len(f'.order) # 1
  <2>1. f.order \in Seq(DOMAIN whole.code) /\ f'.order \in Seq(DOMAIN whole.code)
        /\ at[1] \in DOMAIN f.order /\ at[1] > 1
    BY DEF SliceInv, PhasesInOrder, Part
  <2>2. \/ pc' = pc /\ at'[1] \in DOMAIN f'.order /\ (at[1] > 1 => at'[1] > 1)
        \/ pc' = next /\ at' = <<IF next = "erase" THEN 2 ELSE 1, 0>>
    BY <1>2, <2>1, NextBlockIsIn
  <2>3. 2 \in DOMAIN f'.order
    <3>. DEFINE n == Len(f'.order)
    <3>1. n \in Nat /\ DOMAIN f'.order = 1 .. n
      BY <2>1, LenProperties
    <3>2. n > 0 /\ n # 1
      BY <1>2
    <3>. HIDE DEF n
    <3>3. n >= 2
      BY <3>1, <3>2
    <3>. QED
      BY <3>1, <3>3
  <2>4. \A n : <<n, 0>>[1] = n
    OBVIOUS
  <2>. QED
    BY <2>1, <2>2, <2>3, <2>4
<1>. QED
  BY <1>1, <1>2

LEMMA LaterIsNotEntry ==
    ASSUME SliceInv, pc \in {"dead", "erase"}
    PROVE  /\ Here \in Blocks(f) /\ Here # Entry /\ f.order[1] = Entry /\ Entry \in Blocks(f)
           /\ Len(f.order) > 1 /\ f.order # <<>>
<1>1. f.order \in Seq(DOMAIN whole.code) /\ IsInjective(f.order) /\ at[1] \in DOMAIN f.order /\ at[1] > 1
  BY DEF SliceInv, PhasesInOrder, Part
<1>2. f.order[1] = Entry /\ f.order # <<>>
  BY DEF SliceInv, EntryFirst, Early
<1>3. Len(f.order) > 1 /\ 1 \in DOMAIN f.order
  BY <1>1, LenProperties
<1>4. Here \in Blocks(f) /\ Entry \in Blocks(f)
  BY <1>1, <1>2, <1>3 DEF Here, Blocks, Range
<1>5. Here # Entry
  BY <1>1, <1>2, <1>3 DEF Here, IsInjective
<1>. QED
  BY <1>2, <1>3, <1>4, <1>5

LEMMA DeleteDeadBlocksKeeps ==
    ASSUME SliceInv, source \in Functions, DeleteDeadBlocks
    PROVE  SliceInv'
<1>. DEFINE b == Here
            D == DOMAIN whole.code
<1>1. /\ pc = "dead" /\ UNCHANGED <<source, sets>>
      /\ f' = IF isDead(b) THEN DeleteBlock(f, b) ELSE f
      /\ IF Len(f'.order) = 1 THEN pc' = "entry" /\ at' = <<1, 0>> ELSE NextBlock(f', b, "erase")
  BY DEF DeleteDeadBlocks
<1>2. /\ b \in Blocks(f) /\ b # Entry /\ f.order[1] = Entry /\ Entry \in Blocks(f)
      /\ Len(f.order) > 1 /\ f.order # <<>>
  BY <1>1, LaterIsNotEntry
<1>3. Proper(whole) /\ whole' = whole /\ Part(f, whole)
  BY <1>1, FunctionsAssumption DEF whole, SliceInv, PhasesInOrder
<1>. HIDE DEF b
<1>4. CASE f' = f
  <2>1. Part(f', whole) /\ Len(f'.order) = IF b \in Blocks(f') THEN Len(f.order) ELSE Len(f.order) - 1
    BY <1>2, <1>3, <1>4
  <2>2. /\ pc' \in {"dead", "erase", "entry"}
        /\ pc' \in {"dead", "erase"} => at'[1] \in DOMAIN f'.order /\ at'[1] > 1
    BY <1>1, <1>2, <1>4, <2>1, RemovalMoves DEF b
  <2>3. EntryFirst' /\ PathsKept' /\ WantedReached'
    BY <1>1, <1>4, <2>2, FunctionStays DEF Early, sets
  <2>4. DependentsIncluded'
    BY <1>1, <1>4, IncludeMore DEF sets, SliceInv, DependentsIncluded
  <2>5. PhasesInOrder'
    BY <1>3, <2>1, <2>2 DEF PhasesInOrder, Early, First
  <2>. QED
    BY <2>3, <2>4, <2>5 DEF SliceInv
<1>5. CASE f' # f
  <2>1. isDead(b) /\ f' = DeleteBlock(f, b)
    BY <1>1, <1>5
  <2>2. LosesBlock(whole, f, f', b) /\ f'.succ = [f.succ EXCEPT ![b] = <<>>]
    BY <1>2, <1>3, <2>1, DeleteBlockPart
  <2>3. pc' \in {"dead", "erase", "entry"}
    BY <1>1 DEF NextBlock
  <2>4. /\ DependentsIncluded' /\ Wanted' = Wanted /\ Entry' = Entry /\ b \in D
        /\ Blocks(f') = Blocks(f) \ {b} /\ Len(f'.order) = Len(f.order) - 1
        /\ Len(f'.order) > 0 /\ f'.order[1] = Entry /\ f'.order # <<>>
        /\ \A x \in D : GoneVia(whole, Blocks(f), Succs(whole, x)) \subseteq GoneVia(whole, Blocks(f'), Succs(whole, x))
        /\ f.succ \in [D -> Seq(D)] /\ f'.succ \in [D -> Seq(D)] /\ Blocks(f) \subseteq D
    BY <1>1, <1>2, <2>2, <2>3, BlockGoes DEF First
  <2>5. Part(f', whole)
    BY <2>2 DEF LosesBlock
  <2>6. pc' \in {"dead", "erase"} => at'[1] \in DOMAIN f'.order /\ at'[1] > 1
    BY <1>1, <2>4, <2>5, RemovalMoves DEF b
  <2>7. PhasesInOrder'
    BY <1>3, <2>3, <2>5, <2>6 DEF PhasesInOrder, Early, First
  <2>8. EntryFirst'
    BY <2>4 DEF EntryFirst
  <2>9. \A x \in D \ {b} : Succs(f', x) = Succs(f, x)
    BY <2>2, <2>4 DEF Succs
  <2>10. \A x \in D : b \notin Succs(f, x)
    <3>1. Preds(f, b) = {}
      BY <2>1 DEF isDead
    <3>2. \A x \in D \ Blocks(f) : f.succ[x] = <<>>
      BY <1>3 DEF Part
    <3>. QED
      BY <3>1, <3>2 DEF Preds, Succs, Range
  <2>11. WantedReached'
    <3>1. Reach(f, {Entry}) \subseteq Reach(f', {Entry})
      BY <1>2, <2>2, <2>4, <2>10, ReachWithoutDead
    <3>2. Wanted \subseteq Blocks(f) /\ Wanted \subseteq Reach(f, {Entry})
      BY <1>2 DEF SliceInv, WantedReached
    <3>3. b \notin Wanted
      BY <2>1 DEF isDead, Unneeded, Wanted, SliceInv, DependentsIncluded
    <3>. QED
      BY <2>4, <3>1, <3>2, <3>3 DEF WantedReached
  <2>12. PathsKept'
    <3>1. /\ \A x \in Blocks(f) : Succs(f, x) \subseteq GoneVia(whole, Blocks(f), Succs(whole, x))
          /\ \A x \in Blocks(f) : Succs(f, x) \subseteq Blocks(f) \ {Entry}
      BY <1>1 DEF SliceInv, PathsKept, Early
    <3>2. ASSUME NEW x \in Blocks(f')
          PROVE  /\ Succs(f', x) \subseteq GoneVia(whole, Blocks(f'), Succs(whole, x))
                 /\ Succs(f', x) \subseteq Blocks(f') \ {Entry}
      <4>1. x \in Blocks(f) /\ x \in D \ {b}
        BY <2>4
      <4>2. Succs(f', x) = Succs(f, x) /\ b \notin Succs(f, x)
        BY <2>9, <2>10, <4>1
      <4>3. GoneVia(whole, Blocks(f), Succs(whole, x)) \subseteq GoneVia(whole, Blocks(f'), Succs(whole, x))
        BY <2>4, <4>1
      <4>4. Blocks(f') = Blocks(f) \ {b}
        BY <2>4
      <4>. QED
        BY <3>1, <4>1, <4>2, <4>3, <4>4
    <3>. QED
      BY <1>3, <2>3, <2>4, <3>2 DEF PathsKept
  <2>. QED
    BY <2>4, <2>7, <2>8, <2>11, <2>12 DEF SliceInv
<1>. QED
  BY <1>4, <1>5

LEMMA EraseBlocksKeeps ==
    ASSUME SliceInv, source \in Functions, EraseBlocks
    PROVE  SliceInv'
<1>. DEFINE b == Here
            D == DOMAIN whole.code
            goes == Unneeded(b) /\ canRemoveBlock(b) /\ f.succ[b] # <<b>>
<1>1. /\ pc = "erase" /\ UNCHANGED <<source, sets>>
      /\ f' = IF goes THEN Bypass(f, b) ELSE f
      /\ IF Len(f'.order) = 1 THEN pc' = "entry" /\ at' = <<1, 0>> ELSE NextBlock(f', b, "entry")
  BY DEF EraseBlocks
<1>2. /\ b \in Blocks(f) /\ b # Entry /\ f.order[1] = Entry /\ Entry \in Blocks(f)
      /\ Len(f.order) > 1 /\ f.order # <<>>
  BY <1>1, LaterIsNotEntry
<1>3. Proper(whole) /\ whole' = whole /\ Part(f, whole)
  BY <1>1, FunctionsAssumption DEF whole, SliceInv, PhasesInOrder
<1>. HIDE DEF b
<1>4. CASE f' = f
  <2>1. Part(f', whole) /\ Len(f'.order) = IF b \in Blocks(f') THEN Len(f.order) ELSE Len(f.order) - 1
    BY <1>2, <1>3, <1>4
  <2>2. /\ pc' \in {"dead", "erase", "entry"}
        /\ pc' \in {"dead", "erase"} => at'[1] \in DOMAIN f'.order /\ at'[1] > 1
    BY <1>1, <1>2, <1>4, <2>1, RemovalMoves DEF b
  <2>3. EntryFirst' /\ PathsKept' /\ WantedReached'
    BY <1>1, <1>4, <2>2, FunctionStays DEF Early, sets
  <2>4. DependentsIncluded'
    BY <1>1, <1>4, IncludeMore DEF sets, SliceInv, DependentsIncluded
  <2>5. PhasesInOrder'
    BY <1>3, <2>1, <2>2 DEF PhasesInOrder, Early, First
  <2>. QED
    BY <2>3, <2>4, <2>5 DEF SliceInv
<1>5. CASE f' # f
  <2>. DEFINE s == f.succ[b][1]
  <2>1. goes /\ f' = Bypass(f, b)
    BY <1>1, <1>5
  <2>2. Len(f.succ[b]) = 1
    BY <2>1 DEF canRemoveBlock
  <2>3. /\ LosesBlock(whole, f, f', b) /\ s \in D
        /\ f'.succ = [p \in D |-> IF p = b THEN <<>> ELSE Redirected(f.succ[p], b, s)]
    BY <1>2, <1>3, <2>1, <2>2, BypassPart
  <2>4. pc' \in {"erase", "entry"}
    BY <1>1 DEF NextBlock
  <2>5. /\ DependentsIncluded' /\ Wanted' = Wanted /\ Entry' = Entry /\ b \in D
        /\ Blocks(f') = Blocks(f) \ {b} /\ Len(f'.order) = Len(f.order) - 1
        /\ Len(f'.order) > 0 /\ f'.order[1] = Entry /\ f'.order # <<>>
        /\ \A x \in D : GoneVia(whole, Blocks(f), Succs(whole, x)) \subseteq GoneVia(whole, Blocks(f'), Succs(whole, x))
        /\ f.succ \in [D -> Seq(D)] /\ f'.succ \in [D -> Seq(D)] /\ Blocks(f) \subseteq D
    BY <1>1, <1>2, <2>3, <2>4, BlockGoes DEF First
  <2>6. Part(f', whole)
    BY <2>3 DEF LosesBlock
  <2>7. f.succ[b] \in Seq(D) /\ DOMAIN f.succ[b] = 1 .. 1
    BY <2>2, <2>5, LenProperties
  <2>8. Succs(f, b) = {s}
    BY <2>7 DEF Succs, Range
  <2>9. s # b
    <3>1. f.succ[b] = <<s>>
      BY <2>2, <2>7, <2>5
    <3>. QED
      BY <2>1, <3>1
  <2>. HIDE DEF s
  <2>10. pc' \in {"dead", "erase"} => at'[1] \in DOMAIN f'.order /\ at'[1] > 1
    BY <1>1, <2>5, <2>6, RemovalMoves DEF b
  <2>11. PhasesInOrder'
    BY <1>3, <2>4, <2>6, <2>10 DEF PhasesInOrder, Early, First
  <2>12. EntryFirst'
    BY <2>5 DEF EntryFirst
  <2>13. WantedReached'
    <3>1. Reach(f, {Entry}) \ {b} \subseteq Reach(f', {Entry})
      <4>1. Entry \in D /\ b \in D \ {Entry} /\ s \in D \ {b}
        BY <1>2, <2>3, <2>5, <2>9
      <4>2. \A p \in D \ {b} : f'.succ[p] = Redirected(f.succ[p], b, s)
        BY <2>3
      <4>3. f.succ \in [D -> Seq(D)] /\ f'.succ \in [D -> Seq(D)]
        BY <2>5
      <4>4. Bypassed(D, f, f', b, s)
        BY <2>8, <4>1, <4>2, <4>3 DEF Bypassed
      <4>. HIDE DEF D
      <4>. QED
        BY <4>1, <4>4, ReachBypassed
    <3>2. Wanted \subseteq Blocks(f) /\ Wanted \subseteq Reach(f, {Entry})
      BY <1>2 DEF SliceInv, WantedReached
    <3>3. b \notin Wanted
      BY <2>1 DEF Unneeded, Wanted, SliceInv, DependentsIncluded
    <3>. QED
      BY <2>5, <3>1, <3>2, <3>3 DEF WantedReached
  <2>14. PathsKept'
    <3>1. /\ \A x \in Blocks(f) : Succs(f, x) \subseteq GoneVia(whole, Blocks(f), Succs(whole, x))
          /\ \A x \in Blocks(f) : Succs(f, x) \subseteq Blocks(f) \ {Entry}
      BY <1>1 DEF SliceInv, PathsKept, Early
    <3>2. ASSUME NEW x \in Blocks(f'), NEW z \in Succs(f', x)
          PROVE  z \in GoneVia(whole, Blocks(f'), Succs(whole, x)) /\ z \in Blocks(f') \ {Entry}
      <4>1. x \in Blocks(f) /\ x # b /\ x \in D
        BY <2>5
      <4>2. PICK k \in DOMAIN f'.succ[x] : z = f'.succ[x][k]
        BY DEF Succs, Range
      <4>3. f'.succ[x] = [j \in DOMAIN f.succ[x] |-> IF f.succ[x][j] = b THEN s ELSE f.succ[x][j]]
        BY <2>3, <4>1 DEF Redirected
      <4>4. k \in DOMAIN f.succ[x] /\ f.succ[x][k] \in Succs(f, x)
            /\ z = IF f.succ[x][k] = b THEN s ELSE f.succ[x][k]
        BY <4>2, <4>3 DEF Succs, Range
      <4>5. CASE f.succ[x][k] # b
        BY <2>5, <3>1, <4>1, <4>4, <4>5
      <4>6. CASE f.succ[x][k] = b
        <5>1. z = s /\ b \in GoneVia(whole, Blocks(f), Succs(whole, x))
          BY <3>1, <4>1, <4>4, <4>6
        <5>2. s \in GoneVia(whole, Blocks(f), Succs(whole, b)) /\ s \in Blocks(f) \ {Entry}
          BY <1>2, <2>8, <3>1
        <5>3. Succs(whole, x) \in SUBSET D
          BY <1>3, <4>1, ProperWhole
        <5>4. Blocks(f') \in SUBSET Blocks(f) /\ b \notin Blocks(f')
          BY <2>5
        <5>5. s \in GoneVia(whole, Blocks(f'), Succs(whole, x))
          BY <1>3, <5>1, <5>2, <5>3, <5>4, GoneViaJoins
        <5>. QED
          BY <2>5, <2>9, <5>1, <5>2, <5>5
      <4>. QED
        BY <4>5, <4>6
    <3>. QED
      BY <1>3, <2>4, <2>5, <3>2 DEF PathsKept
  <2>. QED
    BY <2>5, <2>11, <2>12, <2>13, <2>14 DEF SliceInv
<1>. QED
  BY <1>4, <1>5

LEMMA EraseEntryKeeps ==
    ASSUME SliceInv, source \in Functions, EraseEntry
    PROVE  SliceInv'
<1>. DEFINE D == DOMAIN whole.code
<1>1. /\ pc = "entry" /\ pc' = "unreachable" /\ UNCHANGED <<source, sets>>
      /\ f' = f \/ f' = DeleteBlock(f, f.order[1])
  BY DEF EraseEntry
<1>2. Proper(whole) /\ whole' = whole /\ Part(f, whole)
  BY <1>1, FunctionsAssumption DEF whole, SliceInv, PhasesInOrder
<1>3. f.order \in Seq(D) /\ f.order # <<>> /\ f.order[1] = Entry
  BY <1>1, <1>2 DEF Part, SliceInv, EntryFirst, Early
<1>4. 1 \in DOMAIN f.order
  BY <1>3, LenProperties, EmptySeq
<1>5. Entry \in Blocks(f)
  BY <1>3, <1>4 DEF Blocks, Range
<1>6. CASE f' = f
  <2>1. EntryFirst' /\ PathsKept' /\ WantedReached'
    BY <1>1, <1>6, FunctionStays DEF Early, First, sets
  <2>2. DependentsIncluded'
    BY <1>1, <1>6, IncludeMore DEF sets, SliceInv, DependentsIncluded
  <2>3. PhasesInOrder'
    BY <1>1, <1>2, <1>6 DEF PhasesInOrder, Early, First
  <2>. QED
    BY <2>1, <2>2, <2>3 DEF SliceInv
<1>7. CASE f' = DeleteBlock(f, f.order[1])
  <2>1. LosesBlock(whole, f, f', Entry) /\ f'.succ = [f.succ EXCEPT ![Entry] = <<>>]
    BY <1>2, <1>3, <1>5, <1>7, DeleteBlockPart
  <2>2. /\ DependentsIncluded' /\ Entry' = Entry
        /\ Blocks(f') = Blocks(f) \ {Entry}
        /\ \A x \in D : GoneVia(whole, Blocks(f), Succs(whole, x)) \subseteq GoneVia(whole, Blocks(f'), Succs(whole, x))
        /\ f.succ \in [D -> Seq(D)] /\ f'.succ \in [D -> Seq(D)]
    BY <1>1, <1>5, <2>1, BlockGoes DEF First
  <2>3. Blocks(f) \subseteq D
    BY <1>3, ElementOfSeq DEF Blocks, Range
  <2>4. PhasesInOrder'
    BY <1>1, <1>2, <2>1 DEF LosesBlock, PhasesInOrder, Early, First
  <2>5. EntryFirst' /\ WantedReached'
    BY <1>1, <2>2 DEF EntryFirst, WantedReached, Early, First
  <2>6. PathsKept'
    <3>1. /\ \A x \in Blocks(f) : Succs(f, x) \subseteq GoneVia(whole, Blocks(f), Succs(whole, x))
          /\ \A x \in Blocks(f) : Succs(f, x) \subseteq Blocks(f) \ {Entry}
      BY <1>1 DEF SliceInv, PathsKept, Early
    <3>2. ASSUME NEW x \in Blocks(f')
          PROVE  /\ Succs(f', x) \subseteq GoneVia(whole, Blocks(f'), Succs(whole, x))
                 /\ Succs(f', x) \subseteq Blocks(f')
      <4>1. x \in Blocks(f) /\ x \in D \ {Entry}
        BY <2>2, <2>3
      <4>2. Succs(f', x) = Succs(f, x)
        BY <2>1, <2>2, <4>1 DEF Succs
      <4>3. GoneVia(whole, Blocks(f), Succs(whole, x)) \subseteq GoneVia(whole, Blocks(f'), Succs(whole, x))
        BY <2>2, <4>1
      <4>4. Blocks(f') = Blocks(f) \ {Entry}
        BY <2>2
      <4>. QED
        BY <3>1, <4>1, <4>2, <4>3, <4>4
    <3>. QED
      BY <1>1, <1>2, <3>2 DEF PathsKept, Early, First
  <2>. QED
    BY <2>2, <2>4, <2>5, <2>6 DEF SliceInv
<1>. QED
  BY <1>1, <1>6, <1>7

LEMMA DeleteUnreachableBlocksKeeps ==
    ASSUME SliceInv, source \in Functions, DeleteUnreachableBlocks
    PROVE  SliceInv'
<1>. DEFINE D == DOMAIN whole.code
            first == f.order[1]
            dead == IF f.order = <<>> THEN {}
                    ELSE {n \in DOMAIN f.order : f.order[n] \notin Reach(f, {first})}
            least == CHOOSE n \in dead : \A m \in dead : n <= m
<1>1. /\ pc = "unreachable" /\ UNCHANGED <<source, sets>>
      /\ IF dead = {} THEN pc' = "return" /\ f' = f
         ELSE f' = DeleteBlock(f, f.order[least]) /\ pc' = pc
  BY DEF DeleteUnreachableBlocks
<1>2. Proper(whole) /\ whole' = whole /\ Part(f, whole)
  BY <1>1, FunctionsAssumption DEF whole, SliceInv, PhasesInOrder
<1>3. f.order \in Seq(D) /\ f.succ \in [D -> Seq(D)]
  BY <1>2 DEF Part
<1>4. CASE dead = {}
  <2>1. EntryFirst' /\ WantedReached'
    <3>1. Blocks(f)' = Blocks(f) /\ Entry' = Entry /\ RetBB' = RetBB /\ Wanted' = Wanted
      BY <1>1, <1>2, <1>4 DEF Blocks, Entry, RetBB, Wanted, sets
    <3>. QED
      BY <1>1, <1>4, <3>1 DEF SliceInv, EntryFirst, WantedReached, Early, First
  <2>2. DependentsIncluded'
    BY <1>1, <1>4, IncludeMore DEF sets, SliceInv, DependentsIncluded
  <2>3. PhasesInOrder'
    BY <1>1, <1>2, <1>4 DEF PhasesInOrder, Early, First
  <2>4. f.order # <<>> => Blocks(f) \subseteq Reach(f, {f.order[1]})
    BY <1>4 DEF Blocks, Range
  <2>5. PathsKept'
    BY <1>1, <1>2, <1>4, <2>4 DEF SliceInv, PathsKept, Early, First
  <2>. QED
    BY <2>1, <2>2, <2>3, <2>5 DEF SliceInv
<1>5. CASE dead # {}
  <2>. DEFINE b == f.order[least]
  <2>1. f.order # <<>> /\ dead = {n \in DOMAIN f.order : f.order[n] \notin Reach(f, {first})}
    BY <1>5
  <2>2. least \in dead
    <3>1. dead \in SUBSET Nat
      BY <1>3, <2>1, LenProperties
    <3>2. \E n \in dead : \A m \in dead : n <= m
      BY <1>5, <3>1, LeastExists
    <3>. QED
      BY <3>2
  <2>3. b \in Blocks(f) /\ b \notin Reach(f, {first})
    BY <2>1, <2>2 DEF Blocks, Range
  <2>4. first \in Blocks(f) /\ first \in D
    <3>1. 1 \in DOMAIN f.order
      BY <1>3, <2>1, LenProperties, EmptySeq
    <3>. QED
      BY <1>3, <3>1, ElementOfSeq DEF Blocks, Range
  <2>5. f' = DeleteBlock(f, b) /\ pc' = "unreachable"
    BY <1>1, <1>5
  <2>. HIDE DEF b, first, dead
  <2>6. /\ first \in Reach(f, {first}) /\ Reach(f, {first}) \subseteq D
        /\ \A x \in Reach(f, {first}) : Succs(f, x) \subseteq Reach(f, {first})
    BY <1>3, <2>4, ReachFrom
  <2>7. LosesBlock(whole, f, f', b) /\ f'.succ = [f.succ EXCEPT ![b] = <<>>]
    BY <1>2, <2>3, <2>5, DeleteBlockPart
  <2>8. /\ DependentsIncluded' /\ Wanted' = Wanted /\ Entry' = Entry /\ b \in D
        /\ Blocks(f') = Blocks(f) \ {b}
        /\ f'.order[1] = first /\ f'.order # <<>>
        /\ \A x \in D : GoneVia(whole, Blocks(f), Succs(whole, x)) \subseteq GoneVia(whole, Blocks(f'), Succs(whole, x))
    BY <1>1, <2>3, <2>5, <2>6, <2>7, BlockGoes DEF First, first
  <2>9. Reach(f', {first}) = Reach(f, {first})
    <3>1. Emptied(D, f, f', b)
      BY <1>3, <2>7 DEF Emptied
    <3>. HIDE DEF D
    <3>. QED
      BY <2>3, <2>4, <3>1, ReachWithoutUnreached
  <2>10. PhasesInOrder'
    BY <1>2, <2>5, <2>7 DEF LosesBlock, PhasesInOrder, Early, First
  <2>11. EntryFirst'
    BY <2>5, <2>8 DEF SliceInv, EntryFirst, Early, First, first
  <2>12. WantedReached'
    <3>1. SUFFICES ASSUME Entry \in Blocks(f)
                   PROVE  Wanted \subseteq Blocks(f') /\ Wanted \subseteq Reach(f', {Entry})
      BY <2>8 DEF WantedReached
    <3>2. first = Entry /\ Wanted \subseteq Blocks(f) /\ Wanted \subseteq Reach(f, {Entry})
      BY <3>1 DEF SliceInv, EntryFirst, WantedReached, first
    <3>. QED
      BY <2>3, <2>8, <2>9, <3>2
  <2>13. PathsKept'
    <3>1. /\ \A x \in Blocks(f) : Succs(f, x) \subseteq GoneVia(whole, Blocks(f), Succs(whole, x))
          /\ \A x \in Blocks(f) \cap Reach(f, {first}) : Succs(f, x) \subseteq Blocks(f)
      BY <2>1 DEF SliceInv, PathsKept, first
    <3>2. Blocks(f) \subseteq D
      BY <1>3, ElementOfSeq DEF Blocks, Range
    <3>3. ASSUME NEW x \in Blocks(f')
          PROVE  /\ Succs(f', x) \subseteq GoneVia(whole, Blocks(f'), Succs(whole, x))
                 /\ x \in Reach(f', {first}) => Succs(f', x) \subseteq Blocks(f')
      <4>1. x \in Blocks(f) /\ x \in D \ {b}
        BY <2>8, <3>2
      <4>2. Succs(f', x) = Succs(f, x)
        BY <1>3, <2>7, <4>1 DEF Succs
      <4>3. GoneVia(whole, Blocks(f), Succs(whole, x)) \subseteq GoneVia(whole, Blocks(f'), Succs(whole, x))
        BY <2>8, <4>1
      <4>4. Blocks(f') = Blocks(f) \ {b}
        BY <2>8
      <4>5. x \in Reach(f', {first}) => Succs(f, x) \subseteq Blocks(f) /\ Succs(f, x) \subseteq Reach(f, {first})
        BY <2>6, <2>9, <3>1, <4>1
      <4>. QED
        BY <2>3, <3>1, <4>1, <4>2, <4>3, <4>4, <4>5
    <3>. QED
      BY <1>2, <2>5, <2>8, <3>3 DEF PathsKept, Early, First
  <2>. QED
    BY <2>8, <2>10, <2>11, <2>12, <2>13 DEF SliceInv
<1>. QED
  BY <1>4, <1>5

-----------------------------------------------------------------------------
(***************************************************************************)
(* The theorems.                                                           *)
(***************************************************************************)

LEMMA SliceStep ==
    ASSUME IInv, [Next]_vars
    PROVE  IInv'
<1>. DEFINE Phase == \/ Scan \/ AddOperands \/ VisitBranch \/ AddPhiInputs \/ AddDebugInfo
                     \/ Clear \/ DeleteDeadBlocks \/ EraseBlocks \/ EraseEntry
                     \/ DeleteUnreachableBlocks \/ ChangeToVoid
<1>1. source \in Functions /\ source.pass \in {"scan", "control flow"}
  BY FunctionsAssumption DEF IInv
<1>2. CASE UNCHANGED vars
  <2>1. UNCHANGED <<source, f, pc, at, sets>>
    BY <1>2 DEF vars
  <2>2. whole' = whole /\ Entry' = Entry /\ RetBB' = RetBB /\ Blocks(f)' = Blocks(f)
    BY <2>1 DEF whole, Entry, RetBB, Blocks
  <2>3. ASSUME SliceInv
        PROVE  SliceInv'
    <3>1. EntryFirst' /\ PathsKept' /\ WantedReached'
      BY <2>1, <2>3, FunctionStays DEF sets
    <3>2. DependentsIncluded'
      BY <2>1, <2>2, <2>3 DEF SliceInv, DependentsIncluded, sets
    <3>3. PhasesInOrder'
      BY <2>1, <2>2, <2>3 DEF SliceInv, PhasesInOrder
    <3>. QED
      BY <3>1, <3>2, <3>3 DEF SliceInv
  <2>. QED
    BY <1>1, <2>1, <2>3 DEF IInv
<1>3. CASE Phase
  <2>1. source.pass = "scan" /\ SliceInv
    <3>1. pc \notin {"control flow", "done"}
      BY <1>3 DEF Scan, AddOperands, VisitBranch, AddPhiInputs, AddDebugInfo, Clear, DeleteDeadBlocks,
                  EraseBlocks, EraseEntry, DeleteUnreachableBlocks, ChangeToVoid
    <3>. QED
      BY <1>1, <3>1 DEF IInv
  <2>2. SliceInv'
    BY <1>1, <1>3, <2>1, ScanKeeps, PhasesKeep, VisitBranchKeeps, ClearKeeps, DeleteDeadBlocksKeeps,
       EraseBlocksKeeps, EraseEntryKeeps, DeleteUnreachableBlocksKeeps
  <2>3. source' = source
    BY <1>3 DEF Scan, AddOperands, VisitBranch, AddPhiInputs, AddDebugInfo, Clear, DeleteDeadBlocks,
                EraseBlocks, EraseEntry, DeleteUnreachableBlocks, ChangeToVoid
  <2>. QED
    BY <1>1, <2>1, <2>2, <2>3 DEF IInv
<1>4. CASE SliceControlFlow
  <2>1. pc = "control flow" /\ pc' = "done" /\ source' = source
    BY <1>4 DEF SliceControlFlow
  <2>2. source.pass = "control flow"
    BY <1>1, <2>1 DEF IInv, SliceInv, PhasesInOrder, Early, First
  <2>. QED
    BY <1>1, <2>1, <2>2 DEF IInv
<1>5. CASE Done
  BY <1>2, <1>5 DEF Done
<1>. QED
  BY <1>2, <1>3, <1>4, <1>5 DEF Next

LEMMA SliceAlways == Spec => []IInv
<1>1. Init => IInv
  <2>1. ASSUME Init
        PROVE  IInv
    <3>1. source \in Functions /\ pc = source.pass
      BY <2>1 DEF Init
    <3>. QED
      BY <2>1, <3>1, SliceBegins DEF IInv
  <2>. QED
    BY <2>1
<1>2. IInv /\ [Next]_vars => IInv'
  BY SliceStep
<1>. QED
  BY <1>1, <1>2, PTL DEF Spec

\* Whatever the function, with loops and blocks that are not reached or not: what depends on
\* the variable is in the slice while the entry is (VarDependencySlicer.cpp:35-210).
THEOREM DependentsStayThere == Spec => []DependentsStay
<1>1. ASSUME IInv
      PROVE  DependentsStay
  <2>1. SUFFICES ASSUME Sliced, Entry \in Blocks(f), NEW i \in DependentInstrs,
                        i[1] # RetBB \/ RetBB \in Blocks(f), i[1] \in Reach(source.fun, {Entry})
                 PROVE  i \in f.live \/ (Instr(source.fun, i).op = "phi" /\ i[1] \in Blocks(f))
    BY DEF DependentsStay
  <2>2. SliceInv
    BY <1>1, <2>1 DEF IInv, Sliced
  <2>3. i[1] \in Blocks(f)
    BY <2>1, <2>2 DEF SliceInv, WantedReached, Wanted, whole
  <2>. QED
    BY <2>2, <2>3 DEF SliceInv, DependentsIncluded, whole
<1>2. IInv => DependentsStay
  BY <1>1
<1>. QED
  BY SliceAlways, <1>2, PTL

\* Whatever the function: each block that is left is followed by blocks that are left and
\* that the function leads to from it through blocks that are gone, although branches have
\* lost successors, and blocks have been bypassed and deleted in between
\* (VarDependencySlicer.cpp:105-210).
THEOREM SlicePathsAreOfFunction == Spec => []SlicePaths
<1>1. ASSUME IInv
      PROVE  SlicePaths
  <2>1. SUFFICES ASSUME Sliced, NEW b \in Blocks(f)
                 PROVE  Succs(f, b) \subseteq Blocks(f) \cap GoneWays(Succs(source.fun, b))
    BY DEF SlicePaths
  <2>2. SliceInv /\ pc = "done"
    BY <1>1, <2>1 DEF IInv, Sliced
  <2>3. GoneWays(Succs(whole, b)) = GoneVia(whole, Blocks(f), Succs(whole, b))
    BY Zenon DEF GoneWays, GoneVia, Gone, whole
  <2>4. f.order # <<>>
    BY <2>1 DEF Blocks, Range
  <2>. QED
    BY <2>1, <2>2, <2>3, <2>4 DEF SliceInv, PathsKept, whole
<1>2. IInv => SlicePaths
  BY <1>1
<1>. QED
  BY SliceAlways, <1>2, PTL

=============================================================================
