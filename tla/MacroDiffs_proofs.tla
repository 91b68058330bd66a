-------------------------- MODULE MacroDiffs_proofs --------------------------
(***************************************************************************)
(* For any program and any questions about it: the analysis of macros      *)
(* keeps its types, the parents of a use lead to the statement, no macro   *)
(* of a statement, or of the bodies of its macros, is missed, what differs *)
(* is reported, and inline assembly is given its own arguments.            *)
(***************************************************************************)
EXTENDS MacroDiffs, TLAPS, FiniteSetTheorems, SequenceTheorems, WellFoundedInduction

-----------------------------------------------------------------------------
(* Numbers. *)

LEMMA LeastExists ==
    ASSUME NEW S \in SUBSET Nat, S # {}
    PROVE  \E n \in S : \A m \in S : n <= m
<1>. DEFINE R == OpToRel(<, Nat)
<1>1. IsWellFoundedOn(R, Nat)
  BY NatLessThanWellFounded
<1>2. PICK n \in S : \A m \in S : <<m, n>> \notin R
  BY <1>1, WFMin
<1>3. ASSUME NEW m \in S, m < n
      PROVE  <<m, n>> \in R
  BY <1>3 DEF OpToRel
<1>. HIDE DEF R
<1>4. ASSUME NEW m \in S
      PROVE  n <= m
  <2>1. ~(m < n)
    BY <1>2, <1>3
  <2>2. m \in Nat /\ n \in Nat
    OBVIOUS
  <2>. QED
    BY <2>1, <2>2
<1>. QED
  BY <1>4

LEMMA MinIsIn ==
    ASSUME NEW S \in SUBSET Nat, S # {}
    PROVE  Min(S) \in S
<1>1. \E n \in S : \A m \in S : n <= m
  BY LeastExists
<1>. QED
  BY <1>1 DEF Min

-----------------------------------------------------------------------------
(* Texts. *)

AnyName == Names \cup {NoName}
TokenText == Texts(AnyName)

LEMMA SourceIsText ==
    ASSUME NEW text \in Texts(Names)
    PROVE  text \in TokenText
<1>1. Tokens(Names) \subseteq Tokens(AnyName)
  BY DEF Tokens, AnyName
<1>2. text.toks \in Seq(Tokens(AnyName))
  BY <1>1, SeqMonotonic DEF Texts
<1>3. text = [toks |-> text.toks, ends |-> text.ends] /\ text.ends \in BOOLEAN
  BY DEF Texts
<1>. QED
  BY <1>2, <1>3 DEF TokenText, Texts

LEMMA NoTextTyped == NoText \in Texts(Names)
<1>1. <<>> \in Seq(Tokens(Names))
  BY EmptySeq
<1>. QED
  BY <1>1 DEF NoText, Texts

\* Identifiers of some lines are counted, so there are no more than identifiers.
LEMMA CountIsBounded ==
    ASSUME NEW n \in Nat, NEW S \in SUBSET (1 .. n)
    PROVE  Cardinality(S) \in 0 .. n
<1>1. IsFiniteSet(1 .. n) /\ Cardinality(1 .. n) = n
  BY FS_Interval
<1>2. IsFiniteSet(S) /\ Cardinality(S) <= n
  BY <1>1, FS_Subset
<1>3. Cardinality(S) \in Nat
  BY <1>2, FS_CardinalityType
<1>. QED
  BY <1>2, <1>3

\* extractLineFromLocation gives identifiers of the file.
LEMMA StatementTyped ==
    ASSUME NEW p \in Programs, NEW f \in DOMAIN p.files, NEW n \in Int
    PROVE  StatementAt(p.files[f], n) \in Texts(Names)
<1>. DEFINE file == p.files[f]
            b == Before(file, FirstLine(file, n))
            e == UpToLine(file, LastLine(file, n))
<1>1. file.toks \in Seq(Tokens(Names)) /\ file.lines \in Seq(Lines)
  BY ProgramsAssumption DEF IsProgram
<1>2. Len(file.toks) \in Nat
  BY <1>1, LenProperties
<1>3. b \in 0 .. Len(file.toks) /\ e \in 0 .. Len(file.toks)
  BY <1>2, CountIsBounded DEF Before, UpToLine
<1>. HIDE DEF b, e
<1>4. ASSUME NEW i \in b + 1 .. e
      PROVE  file.toks[i] \in Tokens(Names)
  <2>1. i \in 1 .. Len(file.toks)
    BY <1>2, <1>3
  <2>. QED
    BY <1>1, <2>1, ElementOfSeq
<1>5. SubSeq(file.toks, b + 1, e) \in Seq(Tokens(Names))
  BY <1>2, <1>3, <1>4, SubSeqProperties
<1>. DEFINE t == [toks |-> SubSeq(file.toks, b + 1, e), ends |-> LastLine(file, n) \in {m \in LinesRead(file) : file.lines[m].ends}]
<1>6. t \in Texts(Names)
  BY <1>5 DEF Texts
<1>. QED
  BY <1>6, NoTextTyped DEF StatementAt, b, e

LEMMA LineTyped ==
    ASSUME program \in Programs, NEW l \in Locations, NEW o \in {0, -1}
    PROVE  extractLineFromLocation(l, o) \in Texts(Names)
<1>. DEFINE at == program.loc[l]
<1>1. IsProgram(program)
  BY ProgramsAssumption
<1>2. at.file \in DOMAIN program.files /\ at.line + o \in Int
  BY <1>1 DEF IsProgram
<1>3. StatementAt(program.files[at.file], at.line + o) \in Texts(Names)
  BY <1>2, StatementTyped
<1>4. extractLineFromLocation(l, o) = IF at.scope THEN StatementAt(program.files[at.file], at.line + o) ELSE NoText
  BY DEF extractLineFromLocation, Statements
<1>. QED
  BY <1>3, <1>4, NoTextTyped

\* expandMacros: a parameter is replaced by an identifier, once for each pair.
Stage(params, args, n, h, k) ==
    IF k = 0 THEN n ELSE IF k \in DOMAIN args /\ params[k] = h[k - 1] THEN args[k] ELSE h[k - 1]

LEMMA StagesExist ==
    ASSUME NEW params, NEW args \in Seq(Names), NEW n \in Names, NEW m \in Nat
    PROVE  \E h \in [0 .. m -> Names] : h = [k \in 0 .. m |-> Stage(params, args, n, h, k)]
<1>. DEFINE Good(h, i) == h = [k \in 0 .. i |-> Stage(params, args, n, h, k)]
            T == {i \in Nat : \E h \in [0 .. i -> Names] : Good(h, i)}
<1>1. 0 \in T
  <2>. DEFINE h == [k \in 0 .. 0 |-> n]
  <2>1. h \in [0 .. 0 -> Names]
    OBVIOUS
  <2>2. Good(h, 0)
    BY DEF Stage
  <2>. QED
    BY <2>1, <2>2
<1>2. ASSUME NEW i \in Nat, i \in T
      PROVE  i + 1 \in T
  <2>1. PICK h \in [0 .. i -> Names] : Good(h, i)
    BY <1>2
  <2>. DEFINE next == IF i + 1 \in DOMAIN args /\ params[i + 1] = h[i] THEN args[i + 1] ELSE h[i]
              g == [k \in 0 .. (i + 1) |-> IF k = i + 1 THEN next ELSE h[k]]
  <2>2. next \in Names
    <3>1. h[i] \in Names
      OBVIOUS
    <3>2. i + 1 \in DOMAIN args => args[i + 1] \in Names
      BY ElementOfSeq
    <3>. QED
      BY <3>1, <3>2
  <2>. HIDE DEF next
  <2>3. g \in [0 .. (i + 1) -> Names]
    BY <2>2
  <2>4. ASSUME NEW k \in 0 .. (i + 1)
        PROVE  g[k] = Stage(params, args, n, g, k)
    <3>1. CASE k = i + 1
      <4>1. k # 0 /\ k - 1 = i /\ g[k - 1] = h[i] /\ g[k] = next
        BY <3>1
      <4>. QED
        BY <3>1, <4>1 DEF Stage, next
    <3>2. CASE k \in 0 .. i
      <4>1. g[k] = h[k] /\ (k # 0 => g[k - 1] = h[k - 1])
        BY <3>2
      <4>2. h[k] = Stage(params, args, n, h, k)
        BY <2>1, <3>2
      <4>. QED
        BY <4>1, <4>2 DEF Stage
    <3>. QED
      BY <3>1, <3>2
  <2>5. Good(g, i + 1)
    BY <2>4
  <2>6. i + 1 \in Nat
    OBVIOUS
  <2>. HIDE DEF g, Good
  <2>. QED
    BY <2>3, <2>5, <2>6
<1>. HIDE DEF T
<1>3. Nat \ T = {}
  <2>. SUFFICES ASSUME Nat \ T # {}
                PROVE  FALSE
    OBVIOUS
  <2>1. PICK i \in Nat \ T : \A j \in Nat \ T : i <= j
    BY LeastExists
  <2>2. i # 0 /\ i - 1 \in Nat
    BY <1>1, <2>1
  <2>3. i - 1 \in T
    BY <2>1, <2>2
  <2>4. i - 1 + 1 \in T
    BY <1>2, <2>2, <2>3
  <2>. QED
    BY <2>1, <2>4
<1>. QED
  BY <1>3 DEF T

LEMMA ExpandedIsName ==
    ASSUME NEW params \in Seq(Names), NEW args \in Seq(Names), NEW n \in Names
    PROVE  expandMacros(params, args, n) \in Names
<1>. DEFINE m == Len(params)
            Good(h) == h = [k \in 0 .. m |-> Stage(params, args, n, h, k)]
            R == CHOOSE h : Good(h)
<1>1. m \in Nat
  BY LenProperties
<1>2. \A i \in Nat : \E h \in [0 .. i -> Names] : h = [k \in 0 .. i |-> Stage(params, args, n, h, k)]
  BY StagesExist
<1>3. Good(R)
  <2>. HIDE DEF m
  <2>. QED
    BY <1>1, <1>2
<1>4. expandMacros(params, args, n) = R[m]
  BY DEF expandMacros, Stage
<1>. DEFINE T == {i \in Nat : i <= m => R[i] \in Names}
<1>. HIDE DEF m, R
<1>5. ASSUME NEW k \in 0 .. m
      PROVE  R[k] = Stage(params, args, n, R, k)
  BY <1>3
<1>6. \A i \in Nat : i \in T
  <2>. SUFFICES ASSUME Nat \ T # {}
                PROVE  FALSE
    OBVIOUS
  <2>1. PICK i \in Nat \ T : \A j \in Nat \ T : i <= j
    BY LeastExists
  <2>2. i \in 0 .. m /\ R[i] \notin Names
    BY <1>1, <2>1
  <2>3. R[i] = Stage(params, args, n, R, i)
    BY <1>5, <2>2
  <2>4. i # 0
    BY <2>2, <2>3 DEF Stage
  <2>5. i - 1 \in T
    BY <2>1, <2>4
  <2>6. R[i - 1] \in Names
    BY <1>1, <2>2, <2>4, <2>5
  <2>7. i \in DOMAIN args => args[i] \in Names
    BY ElementOfSeq
  <2>. QED
    BY <2>2, <2>3, <2>4, <2>6, <2>7 DEF Stage
<1>. QED
  BY <1>1, <1>4, <1>6

\* Join: p ## and what comes after, from the last identifier to the first.
Rests(p, a, toks, h, k) ==
    IF k > Len(toks) THEN <<>>
    ELSE IF PlaceOf(p, toks, k) = -1 THEN <<toks[k]>> \o h[k + 1]
    ELSE IF PlaceOf(p, toks, k) > 0 \/ PlaceOf(p, toks, k + 1) >= 2 THEN <<Stuck>>
    ELSE <<[toks[k + 1] EXCEPT !.id = Paste[a][@]]>> \o h[k + 2]

TokenSeqs == Seq(Tokens(AnyName))

LEMMA PlaceOfIsNumber ==
    ASSUME NEW p \in Names, NEW toks \in Seq(Tokens(Names)), NEW k \in 1 .. Len(toks) + 1
    PROVE  PlaceOf(p, toks, k) \in Nat \cup {-1} /\ (PlaceOf(p, toks, k) # -1 => k < Len(toks) /\ toks[k].glue)
<1>1. Len(toks) \in Nat
  BY LenProperties
<1>2. CASE k < Len(toks)
  <2>1. toks[k] \in Tokens(Names)
    BY <1>1, <1>2, ElementOfSeq
  <2>2. Place[toks[k].id][p] \in Nat \cup {-1}
    BY <2>1, PlaceAssumption DEF Tokens
  <2>. QED
    BY <1>2, <2>2 DEF PlaceOf
<1>3. CASE ~(k < Len(toks))
  BY <1>3 DEF PlaceOf
<1>. QED
  BY <1>2, <1>3

\* What is put together at identifier k are identifiers, if that of those behind it is.
LEMMA RestIsText ==
    ASSUME NEW p \in Names, NEW a \in Names, NEW toks \in Seq(Tokens(Names)), NEW h, NEW k \in 1 .. Len(toks) + 2,
           k <= Len(toks) => h[k + 1] \in TokenSeqs,
           k < Len(toks) => h[k + 2] \in TokenSeqs
    PROVE  Rests(p, a, toks, h, k) \in TokenSeqs
<1>1. Len(toks) \in Nat
  BY LenProperties
<1>2. CASE k > Len(toks)
  <2>1. <<>> \in TokenSeqs
    BY EmptySeq DEF TokenSeqs
  <2>. QED
    BY <1>2, <2>1 DEF Rests
<1>3. CASE k <= Len(toks)
  <2>1. \A t \in Tokens(AnyName) : <<t>> \in TokenSeqs
    BY DEF TokenSeqs
  <2>2. \A s, t \in TokenSeqs : s \o t \in TokenSeqs
    BY ConcatProperties DEF TokenSeqs
  <2>3. toks[k] \in Tokens(AnyName) /\ Stuck \in Tokens(AnyName)
    <3>1. toks[k] \in Tokens(Names)
      BY <1>1, <1>3, ElementOfSeq
    <3>2. <<>> \in Seq(Names) /\ <<>> \in Seq(Characters)
      BY EmptySeq
    <3>. QED
      BY <3>1, <3>2 DEF Tokens, AnyName, Stuck
  <2>4. CASE PlaceOf(p, toks, k) = -1
    <3>1. <<toks[k]>> \o h[k + 1] \in TokenSeqs
      BY <1>3, <2>1, <2>2, <2>3
    <3>. QED
      BY <1>1, <1>3, <2>4, <3>1 DEF Rests
  <2>5. CASE PlaceOf(p, toks, k) # -1
    <3>1. k < Len(toks)
      BY <1>1, <1>3, <2>5, PlaceOfIsNumber
    <3>. DEFINE t == [toks[k + 1] EXCEPT !.id = Paste[a][@]]
    <3>2. t \in Tokens(AnyName)
      <4>1. toks[k + 1] \in Tokens(Names)
        BY <1>1, <3>1, ElementOfSeq
      <4>2. Paste[a][toks[k + 1].id] \in AnyName
        BY <4>1, NamesAssumption DEF Tokens, AnyName
      <4>. QED
        BY <4>1, <4>2 DEF Tokens
    <3>. HIDE DEF t
    <3>3. <<t>> \o h[k + 2] \in TokenSeqs /\ <<Stuck>> \in TokenSeqs
      BY <2>1, <2>2, <2>3, <3>1, <3>2
    <3>. QED
      BY <1>1, <1>3, <2>5, <3>3 DEF Rests, t
  <2>. QED
    BY <2>4, <2>5
<1>. QED
  BY <1>1, <1>2, <1>3

LEMMA RestsExist ==
    ASSUME NEW p \in Names, NEW a \in Names, NEW toks \in Seq(Tokens(Names))
    PROVE  \E h : h = [k \in 1 .. Len(toks) + 2 |-> Rests(p, a, toks, h, k)]
<1>. DEFINE N == Len(toks) + 2
            Good(h, i) == h = [k \in (N - i) .. N |-> Rests(p, a, toks, h, k)]
            T == {i \in Nat : i < N => \E h : Good(h, i)}
<1>1. Len(toks) \in Nat /\ N \in Nat
  BY LenProperties
<1>. HIDE DEF N
<1>2. 0 \in T
  <2>. DEFINE h == [k \in N .. N |-> <<>>]
  <2>1. \A k \in N .. N : Rests(p, a, toks, h, k) = <<>>
    BY <1>1 DEF Rests, N
  <2>2. Good(h, 0)
    BY <1>1, <2>1
  <2>. QED
    BY <2>2
<1>3. ASSUME NEW i \in Nat, i \in T
      PROVE  i + 1 \in T
  <2>. SUFFICES ASSUME i + 1 < N
                PROVE  \E h : Good(h, i + 1)
    BY <1>1
  <2>1. PICK h : Good(h, i)
    BY <1>1, <1>3
  <2>. DEFINE n == N - (i + 1)
              first == Rests(p, a, toks, h, n)
              g == [k \in n .. N |-> IF k = n THEN first ELSE h[k]]
  <2>2. n \in 1 .. N /\ N - i = n + 1
    BY <1>1
  <2>. HIDE DEF n, first
  <2>3. ASSUME NEW k \in n .. N
        PROVE  g[k] = Rests(p, a, toks, g, k)
    <3>1. CASE k = n
      <4>1. g[k] = first
        BY <1>1, <2>2, <3>1
      <4>2. n <= Len(toks) => n + 1 \in n .. N /\ n + 2 \in n .. N
        BY <1>1, <2>2 DEF N
      <4>3. n <= Len(toks) => g[n + 1] = h[n + 1] /\ g[n + 2] = h[n + 2]
        BY <1>1, <2>2, <4>2
      <4>. HIDE DEF g
      <4>. QED
        BY <1>1, <2>2, <3>1, <4>1, <4>3 DEF Rests, first
    <3>2. CASE k # n
      <4>1. k \in (N - i) .. N /\ k \in Nat
        BY <1>1, <2>2, <3>2
      <4>2. h[k] = Rests(p, a, toks, h, k)
        BY <2>1, <4>1
      <4>3. g[k] = h[k]
        BY <3>2
      <4>4. k <= Len(toks) => k + 1 \in n .. N /\ k + 2 \in n .. N /\ k + 1 # n /\ k + 2 # n
        BY <1>1, <2>2, <4>1 DEF N
      <4>5. k <= Len(toks) => g[k + 1] = h[k + 1] /\ g[k + 2] = h[k + 2]
        BY <4>4
      <4>. HIDE DEF g
      <4>. QED
        BY <1>1, <4>1, <4>2, <4>3, <4>5 DEF Rests
    <3>. QED
      BY <3>1, <3>2
  <2>4. Good(g, i + 1)
    BY <2>3 DEF n
  <2>. QED
    BY <2>4
<1>. HIDE DEF T
<1>4. \A i \in Nat : i \in T
  <2>. SUFFICES ASSUME Nat \ T # {}
                PROVE  FALSE
    OBVIOUS
  <2>1. PICK i \in Nat \ T : \A j \in Nat \ T : i <= j
    BY LeastExists
  <2>2. i # 0 /\ i - 1 \in Nat
    BY <1>2, <2>1
  <2>3. i - 1 \in T
    BY <2>1, <2>2
  <2>4. i - 1 + 1 \in T
    BY <1>3, <2>2, <2>3
  <2>. QED
    BY <2>1, <2>4
<1>5. N - 1 \in Nat /\ N - 1 < N /\ N - (N - 1) = 1
  BY <1>1 DEF N
<1>6. \E h : Good(h, N - 1)
  BY <1>4, <1>5 DEF T
<1>. QED
  BY <1>5, <1>6 DEF N

\* Join gives identifiers, and leaves those as they are that nothing joins.
LEMMA JoinTyped ==
    ASSUME NEW p \in Names, NEW a \in Names, NEW toks \in Seq(Tokens(Names))
    PROVE  /\ Join(p, a, toks) \in TokenSeqs
           /\ (\A k \in DOMAIN toks : ~toks[k].glue) => Join(p, a, toks) = toks
<1>. DEFINE N == Len(toks) + 2
            Good(h) == h = [k \in 1 .. N |-> Rests(p, a, toks, h, k)]
            R == CHOOSE h : Good(h)
            Same(k) == R[k] = [j \in 1 .. (Len(toks) + 1 - k) |-> toks[k + j - 1]]
            loose == \A k \in DOMAIN toks : ~toks[k].glue
            T == {i \in Nat : i < N => R[N - i] \in TokenSeqs /\ (loose /\ i > 0 => Same(N - i))}
<1>1. Len(toks) \in Nat /\ N \in Nat /\ DOMAIN toks = 1 .. Len(toks)
  BY LenProperties
<1>2. Good(R)
  <2>1. \E h : Good(h)
    BY RestsExist
  <2>. QED
    BY <2>1
<1>3. Join(p, a, toks) = R[1]
  BY DEF Join, Rests
<1>. HIDE DEF N, R
<1>4. ASSUME NEW k \in 1 .. N
      PROVE  R[k] = Rests(p, a, toks, R, k)
  BY <1>2
<1>5. ASSUME NEW i \in Nat, i < N, \A j \in Nat : j < i => j \in T
      PROVE  i \in T
  <2>. DEFINE k == N - i
  <2>1. k \in 1 .. N /\ i = N - k
    BY <1>1, <1>5
  <2>. HIDE DEF k
  <2>2. ASSUME k <= Len(toks)
        PROVE  R[k + 1] \in TokenSeqs /\ (loose => Same(k + 1)) /\ R[k + 2] \in TokenSeqs
    <3>. DEFINE one == N - (k + 1)
                two == N - (k + 2)
    <3>1. /\ one \in Nat /\ one < i /\ one < N /\ one > 0 /\ N - one = k + 1
          /\ two \in Nat /\ two < i /\ two < N /\ N - two = k + 2
      BY <1>1, <2>1, <2>2 DEF N
    <3>. HIDE DEF one, two, T, Same, loose
    <3>2. one \in T /\ two \in T
      BY <1>5, <3>1
    <3>3. /\ R[N - one] \in TokenSeqs /\ (loose => Same(N - one))
          /\ R[N - two] \in TokenSeqs
      BY <3>1, <3>2 DEF T
    <3>. QED
      BY <3>1, <3>3
  <2>4. k <= Len(toks) => R[k + 1] \in TokenSeqs /\ (loose => Same(k + 1))
    BY <2>2
  <2>5. k <= Len(toks) => R[k + 2] \in TokenSeqs
    BY <2>2
  <2>6. R[k] \in TokenSeqs
    <3>1. k \in 1 .. Len(toks) + 2
      BY <2>1 DEF N
    <3>2. k < Len(toks) => k <= Len(toks)
      BY <1>1, <3>1
    <3>3. Rests(p, a, toks, R, k) \in TokenSeqs
      BY <2>4, <2>5, <3>1, <3>2, RestIsText
    <3>. QED
      BY <1>4, <2>1, <3>3
  <2>7. ASSUME loose, i > 0
        PROVE  Same(k)
    <3>. HIDE DEF T, Same, Good
    <3>1. k \in 1 .. Len(toks) + 1
      BY <1>1, <2>1, <2>7 DEF N
    <3>2. CASE k = Len(toks) + 1
      <4>1. R[k] = <<>>
        <5>1. k > Len(toks)
          BY <1>1, <3>2
        <5>2. Rests(p, a, toks, R, k) = <<>>
          BY <5>1 DEF Rests
        <5>. QED
          BY <1>4, <2>1, <5>2
      <4>2. Len(toks) + 1 - k = 0
        BY <1>1, <3>2
      <4>3. [j \in 1 .. 0 |-> toks[k + j - 1]] = <<>>
        OBVIOUS
      <4>. QED
        BY <4>1, <4>2, <4>3 DEF Same
    <3>3. CASE k <= Len(toks)
      <4>1. PlaceOf(p, toks, k) = -1
        BY <1>1, <2>7, <3>1, <3>3 DEF PlaceOf
      <4>2. R[k] = <<toks[k]>> \o R[k + 1]
        <5>1. ~(k > Len(toks))
          BY <1>1, <3>1, <3>3
        <5>2. Rests(p, a, toks, R, k) = <<toks[k]>> \o R[k + 1]
          BY <4>1, <5>1 DEF Rests
        <5>. QED
          BY <1>4, <2>1, <5>2
      <4>. DEFINE n == Len(toks) - k
                  tail == [j \in 1 .. n |-> toks[k + 1 + j - 1]]
                  all == [j \in 1 .. n + 1 |-> toks[k + j - 1]]
      <4>3. k \in Nat /\ n \in Nat /\ Len(toks) + 1 - (k + 1) = n /\ Len(toks) + 1 - k = n + 1
        <5>. DEFINE m == Len(toks)
        <5>1. m \in Nat /\ k \in 1 .. m + 1 /\ k <= m
          BY <1>1, <3>1, <3>3
        <5>. HIDE DEF m
        <5>2. k \in Nat /\ m - k \in Nat /\ m + 1 - (k + 1) = m - k /\ m + 1 - k = m - k + 1
          BY <5>1
        <5>. QED
          BY <5>2 DEF m
      <4>4. R[k + 1] = tail
        BY <2>4, <2>7, <3>3, <4>3 DEF Same
      <4>5. tail \in Seq(Tokens(Names)) /\ Len(tail) = n
        <5>1. \A j \in 1 .. n : toks[k + 1 + j - 1] \in Tokens(Names)
          <6>. TAKE j \in 1 .. n
          <6>1. k + 1 + j - 1 \in 1 .. Len(toks)
            BY <1>1, <3>1, <4>3
          <6>. QED
            BY <6>1, ElementOfSeq
        <5>. HIDE DEF n
        <5>. QED
          BY <4>3, <5>1
      <4>6. <<toks[k]>> \in Seq(Tokens(Names)) /\ Len(<<toks[k]>>) = 1
        BY <1>1, <3>1, <3>3, ElementOfSeq
      <4>. DEFINE s == <<toks[k]>> \o tail
      <4>. HIDE DEF n, tail
      <4>7. s \in Seq(Tokens(Names)) /\ Len(s) = n + 1
            /\ \A j \in 1 .. n + 1 : s[j] = IF j <= 1 THEN <<toks[k]>>[j] ELSE tail[j - 1]
        BY <4>3, <4>5, <4>6, ConcatProperties
      <4>8. \A j \in 1 .. n + 1 : s[j] = all[j]
        <5>. TAKE j \in 1 .. n + 1
        <5>1. CASE j = 1
          <6>1. s[1] = toks[k]
            <7>. HIDE DEF s
            <7>. QED
              BY <4>3, <4>7
          <6>2. k + 1 - 1 = k
            BY <4>3
          <6>3. all[1] = toks[k + 1 - 1]
            BY <4>3
          <6>. HIDE DEF s, all
          <6>. QED
            BY <5>1, <6>1, <6>2, <6>3
        <5>2. CASE j > 1
          <6>1. j - 1 \in 1 .. n /\ k + 1 + (j - 1) - 1 = k + j - 1
            BY <3>1, <4>3, <5>2
          <6>2. tail[j - 1] = toks[k + j - 1]
            BY <6>1 DEF tail
          <6>3. all[j] = toks[k + j - 1]
            OBVIOUS
          <6>. HIDE DEF s, all
          <6>4. s[j] = IF j <= 1 THEN <<toks[k]>>[j] ELSE tail[j - 1]
            BY <4>7
          <6>5. ~(j <= 1)
            BY <4>3, <5>2
          <6>. QED
            BY <6>2, <6>3, <6>4, <6>5
        <5>3. j = 1 \/ j > 1
          BY <4>3
        <5>. HIDE DEF s, all
        <5>. QED
          BY <5>1, <5>2, <5>3
      <4>9. s = [j \in 1 .. n + 1 |-> s[j]]
        <5>. HIDE DEF s
        <5>. QED
          BY <4>3, <4>7
      <4>10. s = all
        <5>. HIDE DEF s
        <5>. QED
          BY <4>8, <4>9
      <4>. QED
        BY <4>2, <4>3, <4>4, <4>10 DEF Same
    <3>. QED
      BY <1>1, <3>1, <3>2, <3>3
  <2>. QED
    BY <2>1, <2>6, <2>7 DEF k
<1>6. N - 1 \in T
  <2>0. N - 1 \in Nat
    BY <1>1 DEF N
  <2>. HIDE DEF T
  <2>. SUFFICES ASSUME Nat \ T # {}
                PROVE  FALSE
    BY <2>0
  <2>1. PICK i \in Nat \ T : \A j \in Nat \ T : i <= j
    BY LeastExists
  <2>2. i < N
    BY <1>1, <2>1 DEF T
  <2>3. \A j \in Nat : j < i => j \in T
    BY <2>1
  <2>. QED
    BY <1>5, <2>1, <2>2, <2>3
<1>7. N - 1 \in Nat /\ N - 1 < N /\ N - 1 > 0 /\ N - (N - 1) = 1
  BY <1>1 DEF N
<1>8. R[1] \in TokenSeqs /\ (loose => Same(1))
  BY <1>6, <1>7
<1>9. [j \in 1 .. (Len(toks) + 1 - 1) |-> toks[1 + j - 1]] = toks
  <2>1. Len(toks) + 1 - 1 = Len(toks) /\ \A j \in 1 .. Len(toks) : 1 + j - 1 = j
    BY <1>1
  <2>2. [j \in 1 .. Len(toks) |-> toks[j]] = toks
    BY <1>1
  <2>. QED
    BY <2>1, <2>2
<1>. QED
  BY <1>3, <1>8, <1>9

\* expandCompositeMacroNames: one pair after the other, until none is left or one gets stuck.
JoinStage(params, args, toks, h, k) ==
    IF k = 0 THEN toks
    ELSE IF k \in DOMAIN args /\ ~IsStuck(h[k - 1]) THEN Join(params[k], args[k], h[k - 1])
    ELSE h[k - 1]

\* What is not stuck has only names.
LEMMA UnstuckIsSource ==
    ASSUME NEW toks \in TokenSeqs, ~IsStuck(toks)
    PROVE  toks \in Seq(Tokens(Names))
<1>1. Len(toks) \in Nat /\ DOMAIN toks = 1 .. Len(toks)
  BY LenProperties DEF TokenSeqs
<1>2. \A k \in 1 .. Len(toks) : toks[k] \in Tokens(Names)
  <2>. TAKE k \in 1 .. Len(toks)
  <2>1. toks[k] \in Tokens(AnyName)
    BY <1>1, ElementOfSeq DEF TokenSeqs
  <2>2. toks[k].id # NoName
    BY <1>1 DEF IsStuck
  <2>. QED
    BY <2>1, <2>2 DEF Tokens, AnyName
<1>3. toks = [k \in 1 .. Len(toks) |-> toks[k]]
  BY <1>1 DEF TokenSeqs
<1>. DEFINE n == Len(toks)
<1>. HIDE DEF n
<1>4. toks \in [1 .. n -> Tokens(Names)] /\ n \in Nat
  BY <1>1, <1>2, <1>3 DEF n
<1>. QED
  BY <1>4, SeqDef

LEMMA JoinStageTyped ==
    ASSUME NEW params \in Seq(Names), NEW args \in Seq(Names), NEW toks \in Seq(Tokens(Names)),
           NEW h, NEW k \in 0 .. Len(params),
           k # 0 => /\ h[k - 1] \in TokenSeqs
                    /\ (\A n \in DOMAIN toks : ~toks[n].glue) => h[k - 1] = toks
    PROVE  /\ JoinStage(params, args, toks, h, k) \in TokenSeqs
           /\ (\A n \in DOMAIN toks : ~toks[n].glue) => JoinStage(params, args, toks, h, k) = toks
<1>1. Len(params) \in Nat
  BY LenProperties
<1>2. CASE k = 0
  <2>1. Tokens(Names) \subseteq Tokens(AnyName)
    BY DEF Tokens, AnyName
  <2>2. toks \in TokenSeqs
    BY <2>1, SeqMonotonic DEF TokenSeqs
  <2>. QED
    BY <1>2, <2>2 DEF JoinStage
<1>3. CASE k # 0 /\ k \in DOMAIN args /\ ~IsStuck(h[k - 1])
  <2>1. h[k - 1] \in Seq(Tokens(Names))
    BY <1>3, UnstuckIsSource
  <2>2. params[k] \in Names /\ args[k] \in Names
    <3>1. k \in 1 .. Len(params)
      BY <1>1, <1>3
    <3>. QED
      BY <1>3, <3>1, ElementOfSeq
  <2>3. /\ Join(params[k], args[k], h[k - 1]) \in TokenSeqs
        /\ (\A n \in DOMAIN h[k - 1] : ~h[k - 1][n].glue) => Join(params[k], args[k], h[k - 1]) = h[k - 1]
    BY <2>1, <2>2, JoinTyped
  <2>. QED
    BY <1>3, <2>3 DEF JoinStage
<1>4. CASE k # 0 /\ ~(k \in DOMAIN args /\ ~IsStuck(h[k - 1]))
  BY <1>4 DEF JoinStage
<1>. QED
  BY <1>2, <1>3, <1>4

LEMMA JoinStagesExist ==
    ASSUME NEW params \in Seq(Names), NEW args \in Seq(Names), NEW toks \in Seq(Tokens(Names)), NEW m \in Nat
    PROVE  \E h : h = [k \in 0 .. m |-> JoinStage(params, args, toks, h, k)]
<1>. DEFINE Good(h, i) == h = [k \in 0 .. i |-> JoinStage(params, args, toks, h, k)]
            T == {i \in Nat : \E h : Good(h, i)}
<1>1. 0 \in T
  <2>. DEFINE h == [k \in 0 .. 0 |-> toks]
  <2>1. \A k \in 0 .. 0 : JoinStage(params, args, toks, h, k) = toks
    BY DEF JoinStage
  <2>2. Good(h, 0)
    BY <2>1
  <2>. QED
    BY <2>2
<1>2. ASSUME NEW i \in Nat, i \in T
      PROVE  i + 1 \in T
  <2>1. PICK h : Good(h, i)
    BY <1>2
  <2>. DEFINE next == JoinStage(params, args, toks, h, i + 1)
              g == [k \in 0 .. (i + 1) |-> IF k = i + 1 THEN next ELSE h[k]]
  <2>. HIDE DEF next
  <2>2. ASSUME NEW k \in 0 .. (i + 1)
        PROVE  g[k] = JoinStage(params, args, toks, g, k)
    <3>1. k # 0 => g[k - 1] = h[k - 1]
      OBVIOUS
    <3>2. JoinStage(params, args, toks, g, k) = JoinStage(params, args, toks, h, k)
      <4>. HIDE DEF g
      <4>. QED
        BY <3>1 DEF JoinStage
    <3>3. CASE k = i + 1
      <4>1. g[k] = next
        BY <3>3
      <4>. HIDE DEF g
      <4>. QED
        BY <3>2, <3>3, <4>1 DEF next
    <3>4. CASE k # i + 1
      <4>1. k \in 0 .. i
        BY <3>4
      <4>2. h[k] = JoinStage(params, args, toks, h, k)
        BY <2>1, <4>1
      <4>3. g[k] = h[k]
        BY <3>4
      <4>. HIDE DEF g
      <4>. QED
        BY <3>2, <4>2, <4>3
    <3>. QED
      BY <3>3, <3>4
  <2>3. Good(g, i + 1)
    BY <2>2
  <2>4. i + 1 \in Nat
    OBVIOUS
  <2>. HIDE DEF g, Good
  <2>. QED
    BY <2>3, <2>4
<1>. HIDE DEF T
<1>3. \A i \in Nat : i \in T
  <2>. SUFFICES ASSUME Nat \ T # {}
                PROVE  FALSE
    OBVIOUS
  <2>1. PICK i \in Nat \ T : \A j \in Nat \ T : i <= j
    BY LeastExists
  <2>2. i # 0 /\ i - 1 \in Nat
    BY <1>1, <2>1
  <2>3. i - 1 \in T
    BY <2>1, <2>2
  <2>4. i - 1 + 1 \in T
    BY <1>2, <2>2, <2>3
  <2>. QED
    BY <2>1, <2>4
<1>. QED
  BY <1>3 DEF T

\* expandCompositeMacroNames gives a text, and the body itself when nothing is joined.
LEMMA CompositeIsText ==
    ASSUME NEW params \in Seq(Names), NEW args \in Seq(Names), NEW text \in Texts(Names)
    PROVE  /\ expandCompositeMacroNames(params, args, text) \in TokenText
           /\ (\A n \in DOMAIN text.toks : ~text.toks[n].glue) =>
                 expandCompositeMacroNames(params, args, text) = text
<1>. DEFINE m == Len(params)
            toks == text.toks
            loose == \A n \in DOMAIN toks : ~toks[n].glue
            Good(h) == h = [k \in 0 .. m |-> JoinStage(params, args, toks, h, k)]
            R == CHOOSE h : Good(h)
            T == {i \in Nat : i <= m => R[i] \in TokenSeqs /\ (loose => R[i] = toks)}
<1>1. m \in Nat /\ toks \in Seq(Tokens(Names)) /\ text = [toks |-> toks, ends |-> text.ends] /\ text.ends \in BOOLEAN
  BY LenProperties DEF Texts
<1>2. Good(R)
  <2>. HIDE DEF m, toks
  <2>1. \A i \in Nat : \E h : h = [k \in 0 .. i |-> JoinStage(params, args, toks, h, k)]
    BY <1>1, JoinStagesExist
  <2>2. \E h : Good(h)
    BY <1>1, <2>1
  <2>. QED
    BY <2>2
<1>3. expandCompositeMacroNames(params, args, text) = [text EXCEPT !.toks = R[m]]
  BY DEF expandCompositeMacroNames, JoinStage
<1>. HIDE DEF R
<1>4. ASSUME NEW k \in 0 .. m
      PROVE  R[k] = JoinStage(params, args, toks, R, k)
  BY <1>2
<1>5. ASSUME NEW i \in Nat, i <= m, i # 0 => i - 1 \in T
      PROVE  i \in T
  <2>1. i \in 0 .. m
    BY <1>1, <1>5
  <2>2. i # 0 => R[i - 1] \in TokenSeqs /\ (loose => R[i - 1] = toks)
    BY <1>1, <1>5
  <2>3. JoinStage(params, args, toks, R, i) \in TokenSeqs /\ (loose => JoinStage(params, args, toks, R, i) = toks)
    BY <1>1, <2>1, <2>2, JoinStageTyped
  <2>. QED
    BY <1>4, <2>1, <2>3
<1>6. m \in T
  <2>. SUFFICES ASSUME Nat \ T # {}
                PROVE  FALSE
    BY <1>1
  <2>. HIDE DEF T
  <2>1. PICK i \in Nat \ T : \A j \in Nat \ T : i <= j
    BY LeastExists
  <2>2. i <= m
    BY <1>1, <2>1 DEF T
  <2>3. i # 0 => i - 1 \in Nat /\ i - 1 \in T
    BY <2>1
  <2>. QED
    BY <1>5, <2>1, <2>2, <2>3
<1>7. R[m] \in TokenSeqs /\ (loose => R[m] = toks)
  BY <1>1, <1>6
<1>8. [text EXCEPT !.toks = R[m]] = [toks |-> R[m], ends |-> text.ends]
  BY <1>1
<1>9. [toks |-> R[m], ends |-> text.ends] \in TokenText
  BY <1>1, <1>7 DEF TokenText, Texts, TokenSeqs
<1>. QED
  BY <1>1, <1>3, <1>7, <1>8, <1>9

-----------------------------------------------------------------------------
(***************************************************************************)
(* The inductive invariant.                                                *)
(***************************************************************************)
Elements(s) == {s[k] : k \in DOMAIN s}

\* A location with uses is cached, and its unit known, so its macros stay what they are.
CachedIsKnown ==
    \A l \in Locations :
        /\ uses[l] # <<>> => l \in cached /\ Loc(l).scope
        /\ l \in cached /\ Loc(l).scope => Unit(l) \in known
        /\ \A i \in DOMAIN uses[l] : Def(l, i) # NoDef

\* What is worked at, is the next location; a search has uses of it only.
Working ==
    /\ pc = "search" =>
        /\ todo # <<>> /\ Loc(Head(todo)).scope /\ Head(todo) \in cached
        /\ scan.parent \in 0 .. Len(uses[Head(todo)])
        /\ toExpand \in Seq(1 .. Len(uses[Head(todo)]))
    /\ pc = "files" => todo # <<>> /\ Loc(Head(todo)).scope /\ Unit(Head(todo)) \notin known
    /\ pc # "search" => toExpand = <<>>

Typed == TypeOK /\ CachedIsKnown /\ Working

\* The text that is searched is that of the line or of the parent.
ScannedText ==
    pc = "search" =>
        scan.text = IF scan.parent = 0 THEN extractLineFromLocation(Head(todo), off)
                    ELSE BodyOf(Head(todo), scan.parent)

\* A location is searched at the line before only when its own line has been searched.
OwnLineFirst ==
    pc # "idle" =>
        /\ off = 0 /\ query.kind = "difference" => {query.l, query.r} \subseteq cached \cup Elements(todo)
        /\ off # 0 => Elements(todo) \subseteq cached

\* What is left for the search: the rest of the text, and the bodies of the uses in toExpand.
MacrosBefore(u, text, n) ==
    {m \in Names : defs[u][m] # NoDef /\ \E k \in DOMAIN text.toks : k < n /\ text.toks[k].id = m /\ IsLookedUp(text, k)}
SearchedSoFar ==
    \A l \in cached :
        Loc(l).scope =>
            /\ Searching(l) => MacrosBefore(Unit(l), scan.text, scan.at) \subseteq NamesAt(l)
            /\ \/ Searching(l) /\ off = 0 /\ scan.parent = 0
               \/ MacrosIn(Unit(l), extractLineFromLocation(l, 0)) \subseteq NamesAt(l)
            /\ \A i \in DOMAIN uses[l] :
                  \/ Searching(l) /\ i \in Elements(toExpand) \cup {scan.parent}
                  \/ MacrosIn(Unit(l), BodyOf(l, i)) \subseteq NamesAt(l)

-----------------------------------------------------------------------------
(* What the types say of locations, uses and bodies. *)

LEMMA LocTyped ==
    ASSUME program \in Programs, NEW l \in Locations
    PROVE  Loc(l).scope \in BOOLEAN /\ Unit(l) \in Units
<1>1. IsProgram(program)
  BY ProgramsAssumption
<1>. QED
  BY <1>1 DEF IsProgram, Loc, Unit

LEMMA QueueFacts ==
    ASSUME NEW S, NEW s \in Seq(S), s # <<>>
    PROVE  /\ Head(s) \in S /\ Tail(s) \in Seq(S)
           /\ Head(s) \in Elements(s)
           /\ Elements(Tail(s)) \subseteq Elements(s)
           /\ Elements(s) \subseteq {Head(s)} \cup Elements(Tail(s))
<1>1. Len(s) \in Nat \ {0} /\ DOMAIN s = 1 .. Len(s) /\ Head(s) = s[1] /\ Head(s) \in S
  BY EmptySeq, LenProperties, HeadTailProperties
<1>2. Tail(s) \in Seq(S) /\ Len(Tail(s)) = Len(s) - 1 /\ \A i \in 1 .. Len(Tail(s)) : Tail(s)[i] = s[i + 1]
  BY HeadTailProperties
<1>3. DOMAIN Tail(s) = 1 .. Len(s) - 1
  BY <1>2, LenProperties
<1>4. ASSUME NEW k \in DOMAIN Tail(s)
      PROVE  Tail(s)[k] \in Elements(s)
  <2>1. k + 1 \in DOMAIN s /\ Tail(s)[k] = s[k + 1]
    BY <1>1, <1>2, <1>3
  <2>. QED
    BY <2>1 DEF Elements
<1>5. ASSUME NEW k \in DOMAIN s, k # 1
      PROVE  s[k] \in Elements(Tail(s))
  <2>1. k - 1 \in DOMAIN Tail(s) /\ Tail(s)[k - 1] = s[k]
    BY <1>1, <1>2, <1>3, <1>5
  <2>. QED
    BY <2>1 DEF Elements
<1>6. 1 \in DOMAIN s
  BY <1>1
<1>. QED
  BY <1>1, <1>2, <1>4, <1>5, <1>6 DEF Elements

LEMMA NoDefIsNone == NoDef \notin Definitions
<1>1. ASSUME NoDef \in Definitions
      PROVE  FALSE
  <2>1. NoDef.name \in Names
    BY <1>1 DEF Definitions
  <2>2. NoDef.name = NoName
    BY DEF NoDef
  <2>. QED
    BY <2>1, <2>2, NamesAssumption
<1>. QED
  BY <1>1

LEMMA UseTyped ==
    ASSUME Typed, NEW l \in Locations, NEW i \in DOMAIN uses[l]
    PROVE  /\ uses[l][i] \in Uses
           /\ Def(l, i) \in Definitions
           /\ BodyOf(l, i) \in TokenText
           /\ l \in cached /\ Loc(l).scope /\ Unit(l) \in known
<1>1. uses[l] \in Seq(Uses) /\ Unit(l) \in Units
  BY LocTyped DEF Typed, TypeOK
<1>2. uses[l][i] \in Uses
  BY <1>1, ElementOfSeq, LenProperties
<1>3. uses[l][i].name \in Names /\ uses[l][i].args \in Seq(Names)
  BY <1>2 DEF Uses
<1>4. Def(l, i) \in Definitions
  BY <1>1, <1>3 DEF Typed, TypeOK, CachedIsKnown, Def
<1>5. Def(l, i).params \in Seq(Names) /\ Def(l, i).body \in Texts(Names)
  BY <1>4 DEF Definitions
<1>6. BodyOf(l, i) \in TokenText
  BY <1>3, <1>5, CompositeIsText DEF BodyOf
<1>7. uses[l] # <<>>
  BY <1>1, EmptySeq
<1>. QED
  BY <1>2, <1>4, <1>6, <1>7 DEF Typed, CachedIsKnown

LEMMA ArgsTyped ==
    ASSUME Typed, NEW l \in Locations, NEW parent \in 0 .. Len(uses[l]), NEW tok \in Tokens(AnyName)
    PROVE  ArgsIn(l, parent, tok) \in Seq(Names)
<1>1. tok.args \in Seq(Names)
  BY DEF Tokens
<1>2. CASE parent = 0 \/ Def(l, parent).params = <<>>
  BY <1>1, <1>2 DEF ArgsIn
<1>3. CASE ~(parent = 0 \/ Def(l, parent).params = <<>>)
  <2>1. parent \in DOMAIN uses[l]
    <3>1. uses[l] \in Seq(Uses)
      BY DEF Typed, TypeOK
    <3>. QED
      BY <1>3, <3>1, LenProperties
  <2>2. uses[l][parent] \in Uses /\ Def(l, parent) \in Definitions
    BY <2>1, UseTyped
  <2>. DEFINE params == Def(l, parent).params
              given == uses[l][parent].args
              new == ArgsIn(l, parent, tok)
              n == Len(tok.args)
  <2>3. params \in Seq(Names) /\ given \in Seq(Names)
    BY <2>2 DEF Definitions, Uses
  <2>4. n \in Nat /\ DOMAIN tok.args = 1 .. n
    BY <1>1, LenProperties
  <2>5. new = [k \in 1 .. n |-> expandMacros(params, given, tok.args[k])]
    BY <1>3, <2>4 DEF ArgsIn
  <2>. HIDE DEF params, given, new
  <2>6. ASSUME NEW k \in 1 .. n
        PROVE  expandMacros(params, given, tok.args[k]) \in Names
    <3>1. tok.args[k] \in Names
      BY <1>1, <2>4, ElementOfSeq
    <3>. QED
      BY <2>3, <3>1, ExpandedIsName
  <2>. HIDE DEF n
  <2>7. new \in [1 .. n -> Names]
    BY <2>5, <2>6
  <2>8. new \in Seq(Names)
    BY <2>4, <2>7, SeqDef
  <2>. QED
    BY <2>8 DEF new
<1>. QED
  BY <1>2, <1>3

-----------------------------------------------------------------------------
(* Types. *)

LEMMA NoScanTyped == NoScan \in [parent : Nat, text : Texts(Names \cup {NoName}), at : Nat \ {0}]
<1>1. NoText \in TokenText
  BY NoTextTyped, SourceIsText
<1>2. NoText \in Texts(Names \cup {NoName})
  BY <1>1 DEF TokenText, AnyName
<1>. QED
  BY <1>2 DEF NoScan

LEMMA InitTyped == Init => Typed
<1>. SUFFICES ASSUME Init
              PROVE  Typed
  OBVIOUS
<1>. USE DEF Init
<1>1. NoQuery \in [kind : {"none", "difference", "call", "asm"}, l : Locations, r : Locations,
                   names : Seq(Names \cup {NoName}), code : Seq(Characters)]
  <2>. DEFINE any == CHOOSE l \in Locations : TRUE
              none == NoName
  <2>1. any \in Locations
    BY ProgramsAssumption
  <2>. HIDE DEF any
  <2>2. <<none, none>> \in Seq(Names \cup {none}) /\ <<>> \in Seq(Nat)
    <3>. HIDE DEF none
    <3>. QED
      BY EmptySeq
  <2>. HIDE DEF none
  <2>3. [kind |-> "none", l |-> any, r |-> any, names |-> <<none, none>>, code |-> <<>>]
            \in [kind : {"none", "difference", "call", "asm"}, l : Locations, r : Locations,
                 names : Seq(Names \cup {none}), code : Seq(Characters)]
    BY <2>1, <2>2
  <2>. QED
    BY <2>3 DEF NoQuery, any, none
<1>2. NoScan \in [parent : Nat, text : Texts(Names \cup {NoName}), at : Nat \ {0}]
  BY NoScanTyped
<1>3. defs \in [Units -> [Names -> Definitions \cup {NoDef}]] /\ uses \in [Locations -> Seq(Uses)]
  BY EmptySeq
<1>4. todo \in Seq(Locations) /\ macroFileStack \in Seq(MacroFiles) /\ toExpand \in Seq(Nat)
  BY EmptySeq
<1>5. TypeOK
  BY <1>1, <1>2, <1>3, <1>4 DEF TypeOK
<1>6. CachedIsKnown
  <2>1. ASSUME NEW l \in Locations
        PROVE  uses[l] = <<>> /\ DOMAIN uses[l] = {}
    <3>1. uses[l] = <<>>
      OBVIOUS
    <3>. QED
      BY <3>1
  <2>. QED
    BY <2>1 DEF CachedIsKnown
<1>. QED
  BY <1>5, <1>6 DEF Typed, Working

\* What is asked does not touch what is known.
LEMMA AskTyped == Typed /\ Ask => Typed'
<1>. SUFFICES ASSUME Typed, Ask
              PROVE  Typed'
  OBVIOUS
<1>. USE DEF Typed
<1>0. program.left \cup program.right \subseteq Locations /\ program.calls \subseteq Names /\ program.codes \subseteq Seq(Characters)
  BY ProgramsAssumption DEF TypeOK, IsProgram
<1>1. ASSUME NEW l \in Locations, NEW r \in Locations, NEW n \in program.calls \cup {NoName},
             NEW m \in program.calls \cup {NoName}, FindDifference(l, r, n, m)
      PROVE  Typed'
  <2>1. <<n, m>> \in Seq(Names \cup {NoName}) /\ <<>> \in Seq(Characters) /\ <<l, r>> \in Seq(Locations)
    BY <1>0, EmptySeq
  <2>2. query' \in [kind : {"none", "difference", "call", "asm"}, l : Locations, r : Locations,
                    names : Seq(Names \cup {NoName}), code : Seq(Characters)]
    BY <1>1, <2>1 DEF FindDifference
  <2>3. TypeOK'
    BY <1>1, <2>1, <2>2 DEF TypeOK, FindDifference, memory, search
  <2>4. CachedIsKnown'
    BY <1>1 DEF CachedIsKnown, FindDifference, memory, Loc, Unit, Def
  <2>5. Working'
    BY <1>1 DEF Working, FindDifference, memory, search
  <2>. QED
    BY <2>3, <2>4, <2>5
<1>2. ASSUME NEW l \in Locations, NEW n \in program.calls \cup {NoName}, NEW code \in Seq(Characters), FindArguments(l, n, code)
      PROVE  Typed'
  <2>1. <<n, n>> \in Seq(Names \cup {NoName}) /\ <<l>> \in Seq(Locations) /\ <<>> \in Seq(Locations)
    BY <1>0, EmptySeq
  <2>2. query' \in [kind : {"none", "difference", "call", "asm"}, l : Locations, r : Locations,
                    names : Seq(Names \cup {NoName}), code : Seq(Characters)]
    BY <1>2, <2>1 DEF FindArguments
  <2>3. TypeOK'
    BY <1>2, <2>1, <2>2 DEF TypeOK, FindArguments, memory, search
  <2>4. CachedIsKnown'
    BY <1>2 DEF CachedIsKnown, FindArguments, memory, Loc, Unit, Def
  <2>5. Working'
    BY <1>2 DEF Working, FindArguments, memory, search
  <2>. QED
    BY <2>3, <2>4, <2>5
<1>3. <<>> \in Seq(Characters)
  BY EmptySeq
<1>. QED
  BY <1>0, <1>1, <1>2, <1>3 DEF Ask

\* getAllMacroUsesAtLocation, before the search.
LEMMA GetTyped ==
    ASSUME Typed, NEW l \in Locations, GetWithoutSearch(l) \/ StartCollecting(l) \/ StartSearch(l)
    PROVE  Typed'
<1>. USE DEF Typed
<1>1. Head(todo) \in Locations /\ Tail(todo) \in Seq(Locations)
  BY QueueFacts DEF TypeOK, GetWithoutSearch, StartCollecting, StartSearch, Getting
<1>2. CASE GetWithoutSearch(l)
  <2>1. TypeOK'
    BY <1>1, <1>2 DEF TypeOK, GetWithoutSearch, search
  <2>2. CachedIsKnown'
    BY <1>2 DEF CachedIsKnown, GetWithoutSearch, Loc, Unit, Def
  <2>3. Working'
    BY <1>2 DEF Working, GetWithoutSearch, Getting, search
  <2>. QED
    BY <2>1, <2>2, <2>3
<1>3. CASE StartCollecting(l)
  <2>1. program.macros[Unit(l)] \in Seq(MacroFiles)
    BY ProgramsAssumption, LocTyped DEF TypeOK, IsProgram
  <2>2. TypeOK'
    BY <1>3, <2>1 DEF TypeOK, StartCollecting, memory
  <2>3. CachedIsKnown'
    BY <1>3 DEF CachedIsKnown, StartCollecting, memory, Loc, Unit, Def
  <2>4. Working'
    BY <1>3 DEF Working, StartCollecting, Getting, memory, Loc, Unit
  <2>. QED
    BY <2>2, <2>3, <2>4
<1>4. CASE StartSearch(l)
  <2>. DEFINE text == extractLineFromLocation(l, off)
  <2>1. text \in Texts(Names \cup {NoName})
    BY LineTyped, SourceIsText DEF TypeOK, TokenText, AnyName
  <2>. HIDE DEF text
  <2>2. scan' = [parent |-> 0, text |-> text, at |-> 1]
    BY <1>4 DEF StartSearch, text
  <2>3. TypeOK'
    BY <1>4, <2>1, <2>2 DEF TypeOK, StartSearch
  <2>4. CachedIsKnown'
    BY <1>4 DEF CachedIsKnown, StartSearch, Loc, Unit, Def
  <2>5. l = Head(todo) /\ todo # <<>> /\ Loc(l).scope /\ toExpand = <<>>
    BY <1>4 DEF StartSearch, Getting, MustSearch, Working
  <2>6. scan'.parent = 0 /\ Len(uses[l]) \in Nat
    BY <2>2, LenProperties DEF TypeOK
  <2>7. <<>> \in Seq(1 .. Len(uses[l]))
    BY EmptySeq
  <2>8. pc' = "search" /\ todo' = todo /\ l \in cached' /\ uses' = uses /\ toExpand' = toExpand /\ program' = program
    BY <1>4 DEF StartSearch
  <2>9. Working'
    BY <2>5, <2>6, <2>7, <2>8 DEF Working, Loc
  <2>. QED
    BY <2>3, <2>4, <2>9
<1>. QED
  BY <1>2, <1>3, <1>4

\* collectMacroDefs: the definitions of a unit that is not known yet.
LEMMA CollectTyped ==
    ASSUME Typed, CollectFile \/ FilesCollected
    PROVE  Typed'
<1>. USE DEF Typed
<1>. DEFINE u == Unit(Head(todo))
<1>1. Head(todo) \in Locations /\ todo # <<>> /\ Loc(Head(todo)).scope /\ u \notin known
  BY QueueFacts DEF TypeOK, CollectFile, FilesCollected, Working
<1>2. u \in Units
  BY <1>1, LocTyped DEF TypeOK
<1>3. CASE CollectFile
  <2>. DEFINE n == Len(macroFileStack)
              top == macroFileStack[n]
              nodes == program.macroFiles[top].nodes
              Named(m) == {k \in DOMAIN nodes : nodes[k].name = m}
              Chosen(m) == IF defs[u][m] # NoDef \/ Named(m) = {} THEN defs[u][m] ELSE nodes[Min(Named(m))]
              new == [m \in Names |-> Chosen(m)]
  <2>1. macroFileStack \in Seq(MacroFiles) /\ macroFileStack # <<>> /\ pc = "files"
    BY <1>3 DEF TypeOK, CollectFile
  <2>2. n \in Nat \ {0} /\ top \in MacroFiles
    BY <2>1, EmptySeq, LenProperties, ElementOfSeq
  <2>3. nodes \in Seq(Definitions) /\ program.macroFiles[top].includes \in Seq(MacroFiles)
    <3>. HIDE DEF top
    <3>1. IsProgram(program)
      BY ProgramsAssumption DEF TypeOK
    <3>2. program.macroFiles[top] \in [nodes : Seq(Definitions), includes : Seq(MacroFiles)]
      BY <2>2, <3>1 DEF IsProgram
    <3>. QED
      BY <3>2
  <2>4. ASSUME NEW m \in Names
        PROVE  Chosen(m) \in Definitions \cup {NoDef}
    <3>1. CASE defs[u][m] # NoDef \/ Named(m) = {}
      <4>1. Chosen(m) = defs[u][m]
        BY <3>1
      <4>. HIDE DEF Chosen, u
      <4>. QED
        BY <1>2, <4>1 DEF TypeOK
    <3>2. CASE ~(defs[u][m] # NoDef \/ Named(m) = {})
      <4>1. DOMAIN nodes \subseteq Nat
        BY <2>3, LenProperties
      <4>2. Min(Named(m)) \in Named(m)
        BY <3>2, <4>1, MinIsIn
      <4>3. nodes[Min(Named(m))] \in Definitions
        BY <2>3, <4>2, ElementOfSeq, LenProperties
      <4>4. Chosen(m) = nodes[Min(Named(m))]
        BY <3>2
      <4>. HIDE DEF Chosen
      <4>. QED
        BY <4>3, <4>4
    <3>. QED
      BY <3>1, <3>2
  <2>5. SubSeq(macroFileStack, 1, n - 1) \in Seq(MacroFiles)
    <3>1. \A i \in 1 .. n - 1 : macroFileStack[i] \in MacroFiles
      BY <2>1, <2>2, ElementOfSeq
    <3>. QED
      BY <2>1, <2>2, <3>1, SubSeqProperties
  <2>6. macroFileStack' \in Seq(MacroFiles)
    BY <1>3, <2>3, <2>5, ConcatProperties DEF CollectFile
  <2>7. defs' = [defs EXCEPT ![u] = new]
    BY <1>2, <1>3 DEF CollectFile, TypeOK
  <2>. HIDE DEF Chosen
  <2>8. new \in [Names -> Definitions \cup {NoDef}]
    BY <2>4
  <2>. HIDE DEF u, new
  <2>9. defs' \in [Units -> [Names -> Definitions \cup {NoDef}]]
    BY <2>7, <2>8 DEF TypeOK
  <2>10. TypeOK'
    BY <1>3, <2>6, <2>9 DEF TypeOK, CollectFile
  <2>11. \A v \in known : defs'[v] = defs[v]
    BY <1>1, <2>7 DEF TypeOK
  <2>12. program' = program /\ known' = known /\ cached' = cached /\ uses' = uses /\ pc' = pc /\ todo' = todo /\ toExpand' = toExpand
    BY <1>3 DEF CollectFile
  <2>13. CachedIsKnown'
    <3>1. ASSUME NEW l \in Locations, NEW i \in DOMAIN uses[l]
          PROVE  defs'[Unit(l)] = defs[Unit(l)]
      BY <2>11, UseTyped
    <3>. QED
      BY <2>12, <3>1 DEF CachedIsKnown, Loc, Unit, Def
  <2>14. Working'
    BY <2>1, <2>12 DEF Working, Loc, Unit
  <2>. QED
    BY <2>10, <2>13, <2>14
<1>4. CASE FilesCollected
  <2>1. TypeOK'
    BY <1>2, <1>4 DEF TypeOK, FilesCollected, search
  <2>2. CachedIsKnown'
    BY <1>4 DEF CachedIsKnown, FilesCollected, Loc, Unit, Def
  <2>3. Working'
    BY <1>4 DEF Working, FilesCollected, search
  <2>. QED
    BY <2>1, <2>2, <2>3
<1>. QED
  BY <1>3, <1>4

\* The identifier that is looked up, and the use that it may become.
Token == scan.text.toks[scan.at]
NewUse == [name |-> Token.id, parent |-> scan.parent, args |-> ArgsIn(Head(todo), scan.parent, Token)]
NewMacro(l) ==
    /\ IsLookedUp(scan.text, scan.at) /\ Token.id \notin NamesAt(l)
    /\ Token.id \in Names /\ defs[Unit(l)][Token.id] # NoDef

LEMMA SearchFacts ==
    ASSUME Typed, pc = "search"
    PROVE  /\ Head(todo) \in Locations /\ Head(todo) \in cached /\ todo \in Seq(Locations) /\ todo # <<>>
           /\ Loc(Head(todo)).scope /\ Unit(Head(todo)) \in known
           /\ uses[Head(todo)] \in Seq(Uses) /\ Len(uses[Head(todo)]) \in Nat
           /\ DOMAIN uses[Head(todo)] = 1 .. Len(uses[Head(todo)])
           /\ scan.parent \in 0 .. Len(uses[Head(todo)])
           /\ scan.text.toks \in Seq(Tokens(AnyName)) /\ Len(scan.text.toks) \in Nat
           /\ DOMAIN scan.text.toks = 1 .. Len(scan.text.toks)
           /\ scan.at \in Nat \ {0}
           /\ toExpand \in Seq(1 .. Len(uses[Head(todo)]))
<1>1. todo # <<>> /\ todo \in Seq(Locations)
  BY DEF Typed, Working, TypeOK
<1>2. Head(todo) \in Locations
  BY <1>1, QueueFacts
<1>3. uses[Head(todo)] \in Seq(Uses)
  BY <1>2 DEF Typed, TypeOK
<1>4. scan.text.toks \in Seq(Tokens(AnyName)) /\ scan.at \in Nat \ {0}
  BY DEF Typed, TypeOK, Texts, AnyName
<1>5. Loc(Head(todo)).scope /\ Head(todo) \in cached /\ Unit(Head(todo)) \in known
  BY <1>2 DEF Typed, Working, CachedIsKnown
<1>. QED
  BY <1>1, <1>2, <1>3, <1>4, <1>5, LenProperties DEF Typed, Working

LEMMA LookUpFacts ==
    ASSUME Typed, LookUp
    PROVE  /\ Token \in Tokens(AnyName)
           /\ scan.at \in DOMAIN scan.text.toks
           /\ Token.id \in Names => NewUse \in Uses
           /\ scan' = [scan EXCEPT !.at = @ + 1]
           /\ \/ /\ NewMacro(Head(todo))
                 /\ uses' = [uses EXCEPT ![Head(todo)] = Append(uses[Head(todo)], NewUse)]
                 /\ toExpand' = Append(toExpand, Len(uses[Head(todo)]) + 1)
              \/ /\ ~NewMacro(Head(todo))
                 /\ uses' = uses /\ toExpand' = toExpand
<1>1. pc = "search" /\ scan.at <= Len(scan.text.toks)
  BY DEF LookUp
<1>2. scan.at \in DOMAIN scan.text.toks
  BY <1>1, SearchFacts
<1>3. Token \in Tokens(AnyName)
  BY <1>1, <1>2, SearchFacts, ElementOfSeq DEF Token
<1>4. ArgsIn(Head(todo), scan.parent, Token) \in Seq(Names) /\ scan.parent \in Nat
  BY <1>1, <1>3, SearchFacts, ArgsTyped
<1>5. Token.id \in Names => NewUse \in Uses
  BY <1>4 DEF NewUse, Uses
<1>6. Head(todo) \in DOMAIN uses
  BY <1>1, SearchFacts DEF Typed, TypeOK
<1>. QED
  BY <1>2, <1>3, <1>5, <1>6 DEF LookUp, NewMacro, NewUse, Token

LEMMA SearchTyped ==
    ASSUME Typed, LookUp \/ ExpandNext \/ EndSearch
    PROVE  Typed'
<1>. USE DEF Typed
<1>. DEFINE l == Head(todo)
            n == Len(uses[l])
<1>1. pc = "search"
  BY DEF LookUp, ExpandNext, EndSearch, TextDone
<1>2. CASE LookUp
  <2>1. scan' \in [parent : Nat, text : Texts(Names \cup {NoName}), at : Nat \ {0}]
    <3>1. scan \in [parent : Nat, text : Texts(Names \cup {NoName}), at : Nat \ {0}]
      BY DEF TypeOK
    <3>2. scan' = [scan EXCEPT !.at = @ + 1]
      BY <1>2, LookUpFacts
    <3>. QED
      BY <3>1, <3>2
  <2>2. /\ program' = program /\ known' = known /\ defs' = defs /\ cached' = cached /\ todo' = todo /\ pc' = pc
        /\ query' = query /\ off' = off /\ macroFileStack' = macroFileStack /\ scan'.parent = scan.parent
    BY <1>2, LookUpFacts DEF LookUp, TypeOK
  <2>3. CASE uses' = uses /\ toExpand' = toExpand
    <3>1. TypeOK'
      BY <2>1, <2>2, <2>3 DEF TypeOK
    <3>2. CachedIsKnown'
      BY <2>2, <2>3 DEF CachedIsKnown, Loc, Unit, Def
    <3>3. Working'
      BY <2>2, <2>3 DEF Working, Loc, Unit
    <3>. QED
      BY <3>1, <3>2, <3>3
  <2>4. CASE /\ NewMacro(l)
             /\ uses' = [uses EXCEPT ![l] = Append(uses[l], NewUse)]
             /\ toExpand' = Append(toExpand, Len(uses[l]) + 1)
    <3>. DEFINE more == Append(uses[l], NewUse)
    <3>1. NewUse \in Uses /\ NewUse.name = Token.id
      BY <1>2, <2>4, LookUpFacts DEF NewMacro, NewUse
    <3>2. more \in Seq(Uses) /\ Len(more) = n + 1 /\ n \in Nat /\ more[n + 1] = NewUse
          /\ (\A i \in 1 .. n : more[i] = uses[l][i]) /\ DOMAIN more = 1 .. n + 1 /\ DOMAIN uses[l] = 1 .. n
      BY <1>1, <3>1, SearchFacts, AppendProperties, LenProperties
    <3>3. l \in Locations
      BY <1>1, SearchFacts
    <3>. HIDE DEF more
    <3>4. uses' = [uses EXCEPT ![l] = more]
      BY <2>4 DEF more
    <3>. HIDE DEF l
    <3>5. uses' \in [Locations -> Seq(Uses)] /\ uses'[l] = more /\ \A j \in Locations \ {l} : uses'[j] = uses[j]
      BY <3>2, <3>3, <3>4 DEF TypeOK
    <3>6. toExpand' \in Seq(1 .. n + 1)
      <4>1. toExpand \in Seq(1 .. n)
        BY <1>1, SearchFacts DEF l
      <4>2. 1 .. n \subseteq 1 .. n + 1 /\ n + 1 \in 1 .. n + 1
        BY <3>2
      <4>3. toExpand \in Seq(1 .. n + 1)
        BY <4>1, <4>2, SeqMonotonic
      <4>. HIDE DEF n
      <4>4. toExpand' = Append(toExpand, n + 1)
        BY <2>4 DEF n, l
      <4>. QED
        BY <4>2, <4>3, <4>4, AppendProperties
    <3>7. toExpand' \in Seq(Nat)
      <4>1. 1 .. n + 1 \subseteq Nat
        BY <3>2
      <4>. QED
        BY <3>6, <4>1, SeqMonotonic
    <3>8. TypeOK'
      BY <2>1, <2>2, <3>5, <3>7 DEF TypeOK
    <3>9. CachedIsKnown'
      <4>1. l \in cached /\ Loc(l).scope
        BY <1>1, SearchFacts DEF l
      <4>2. defs[Unit(l)][NewUse.name] # NoDef
        BY <2>4, <3>1 DEF NewMacro, l
      <4>3. \A i \in DOMAIN more : defs[Unit(l)][more[i].name] # NoDef
        <5>1. \A i \in 1 .. n : defs[Unit(l)][uses[l][i].name] # NoDef
          BY <3>2, <3>3 DEF CachedIsKnown, Def
        <5>. HIDE DEF n
        <5>. QED
          BY <3>2, <4>2, <5>1
      <4>4. ASSUME NEW j \in Locations
            PROVE  /\ uses'[j] # <<>> => j \in cached /\ Loc(j).scope
                   /\ \A i \in DOMAIN uses'[j] : defs[Unit(j)][uses'[j][i].name] # NoDef
        <5>1. CASE j = l
          BY <3>5, <4>1, <4>3, <5>1
        <5>2. CASE j # l
          <6>1. uses'[j] = uses[j]
            BY <3>5, <5>2
          <6>. QED
            BY <6>1 DEF CachedIsKnown, Def
        <5>. QED
          BY <5>1, <5>2
      <4>. QED
        BY <2>2, <4>4 DEF CachedIsKnown, Loc, Unit, Def
    <3>10. Working'
      <4>1. scan.parent \in 0 .. n /\ todo # <<>> /\ Loc(l).scope /\ l \in cached
        BY <1>1, SearchFacts DEF l
      <4>2. Len(uses'[l]) = n + 1 /\ todo' = todo /\ l = Head(todo)
        BY <2>2, <3>2, <3>5 DEF l
      <4>3. pc' = "search" /\ scan'.parent \in 0 .. Len(uses'[l]) /\ toExpand' \in Seq(1 .. Len(uses'[l]))
        BY <1>1, <2>2, <3>2, <3>6, <4>1, <4>2
      <4>4. program'.loc[l].scope /\ Head(todo') = l /\ l \in cached' /\ todo' # <<>>
        BY <2>2, <4>1, <4>2 DEF Loc
      <4>. QED
        BY <4>3, <4>4 DEF Working, Loc
    <3>. QED
      BY <3>8, <3>9, <3>10
  <2>. QED
    BY <1>2, <2>3, <2>4, LookUpFacts
<1>3. CASE ExpandNext
  <2>. DEFINE m == Len(toExpand)
  <2>1. toExpand \in Seq(1 .. n) /\ toExpand # <<>> /\ n \in Nat /\ l \in Locations /\ DOMAIN uses[l] = 1 .. n
    BY <1>1, <1>3, SearchFacts DEF ExpandNext
  <2>2. m \in Nat \ {0} /\ DOMAIN toExpand = 1 .. m
    BY <2>1, EmptySeq, LenProperties
  <2>3. \A i \in 1 .. m : toExpand[i] \in 1 .. n
    BY <2>1, <2>2, ElementOfSeq
  <2>. HIDE DEF m, n, l
  <2>4. Newest \in 1 .. n
    BY <2>2, <2>3 DEF Newest, m
  <2>5. toExpand' = SubSeq(toExpand, 1, m - 1)
    BY <1>3 DEF ExpandNext, m
  <2>6. toExpand' \in Seq(1 .. n)
    BY <2>1, <2>2, <2>3, <2>5, SubSeqProperties
  <2>7. BodyOf(l, Newest) \in Texts(Names \cup {NoName})
    BY <2>1, <2>4, UseTyped DEF TokenText, AnyName
  <2>8. scan' = [parent |-> Newest, text |-> BodyOf(l, Newest), at |-> 1] /\ pc' = pc /\ todo' = todo
        /\ program' = program /\ UNCHANGED memory /\ query' = query /\ off' = off /\ macroFileStack' = macroFileStack
    BY <1>3 DEF ExpandNext, l
  <2>9. toExpand' \in Seq(Nat)
    <3>1. 1 .. n \subseteq Nat
      BY <2>1
    <3>. QED
      BY <2>6, <3>1, SeqMonotonic
  <2>10. scan' \in [parent : Nat, text : Texts(Names \cup {NoName}), at : Nat \ {0}]
    BY <2>1, <2>4, <2>7, <2>8
  <2>11. TypeOK'
    BY <2>8, <2>9, <2>10 DEF TypeOK, memory
  <2>12. CachedIsKnown'
    BY <2>8 DEF CachedIsKnown, memory, Loc, Unit, Def
  <2>13. Working'
    <3>1. scan'.parent \in 0 .. n
      BY <2>1, <2>4, <2>8
    <3>. QED
      BY <1>1, <2>6, <2>8, <3>1 DEF Working, memory, Loc, Unit, n, l
  <2>. QED
    BY <2>11, <2>12, <2>13
<1>4. CASE EndSearch
  <2>1. Tail(todo) \in Seq(Locations)
    BY <1>1, SearchFacts, QueueFacts
  <2>2. NoScan \in [parent : Nat, text : Texts(Names \cup {NoName}), at : Nat \ {0}]
    BY NoScanTyped
  <2>3. TypeOK'
    BY <1>4, <2>1, <2>2 DEF TypeOK, EndSearch, memory
  <2>4. CachedIsKnown'
    BY <1>4 DEF CachedIsKnown, EndSearch, memory, Loc, Unit, Def
  <2>5. Working'
    BY <1>4 DEF Working, EndSearch
  <2>. QED
    BY <2>3, <2>4, <2>5
<1>. QED
  BY <1>2, <1>3, <1>4

LEMMA AnswerTyped ==
    ASSUME Typed, TryLineBefore \/ Report \/ GiveCallArguments \/ GiveAsmArguments
    PROVE  Typed'
<1>. USE DEF Typed
<1>1. CASE TryLineBefore
  <2>1. <<query.l, query.r>> \in Seq(Locations)
    BY DEF TypeOK
  <2>2. TypeOK'
    BY <1>1, <2>1 DEF TypeOK, TryLineBefore, memory, search
  <2>3. CachedIsKnown' /\ Working'
    BY <1>1 DEF CachedIsKnown, Working, TryLineBefore, Got, memory, search, Loc, Unit, Def
  <2>. QED
    BY <2>2, <2>3
<1>2. CASE Report \/ GiveCallArguments \/ GiveAsmArguments
  <2>1. pc = "get" /\ pc' = "idle" /\ UNCHANGED <<program, memory, query, off, todo, search>>
    BY <1>2 DEF Report, GiveCallArguments, GiveAsmArguments, Got
  <2>. QED
    BY <2>1 DEF TypeOK, CachedIsKnown, Working, memory, search, Loc, Unit, Def
<1>. QED
  BY <1>1, <1>2

LEMMA TypedKept == Typed /\ [Next]_vars => Typed'
<1>. SUFFICES ASSUME Typed, [Next]_vars
              PROVE  Typed'
  OBVIOUS
<1>1. CASE UNCHANGED vars \/ GoOnForEver
  <2>1. UNCHANGED vars
    BY <1>1 DEF GoOnForEver
  <2>. QED
    BY <2>1 DEF Typed, TypeOK, CachedIsKnown, Working, vars, memory, search, Loc, Unit, Def
<1>. QED
  BY <1>1, AskTyped, GetTyped, CollectTyped, SearchTyped, AnswerTyped DEF Next, Work

\* For any program: the analysis keeps the types of its maps, of the queue of locations and of
\* the uses, whose macros are defined in the unit of the location (MacroDefMaps,
\* MacroUsesAtLocation and the local state of getAllMacroUsesAtLocation).
THEOREM MacroAnalysisTyped == Spec => []TypeOK
<1>1. Init => Typed
  BY InitTyped
<1>2. Typed /\ [Next]_vars => Typed'
  BY TypedKept
<1>3. Typed => TypeOK
  BY DEF Typed
<1>. QED
  BY <1>1, <1>2, <1>3, PTL DEF Spec

-----------------------------------------------------------------------------
(***************************************************************************)
(* What is found stays: a step never changes a use, nor a definition of a  *)
(* unit that is known, so bodies of uses read as they did.                 *)
(***************************************************************************)
Stay ==
    /\ program' = program
    /\ known \subseteq known' /\ cached \subseteq cached'
    /\ \A l \in Locations :
          /\ Unit(l) \in known => defs'[Unit(l)] = defs[Unit(l)]
          /\ \A i \in DOMAIN uses[l] : i \in DOMAIN uses'[l] /\ uses'[l][i] = uses[l][i]

\* Only a search adds uses.
LEMMA UsesUnlessLookUp == Typed /\ [Next]_vars => uses' = uses \/ LookUp
<1>. QED
  BY DEF Next, Ask, Work, FindDifference, FindArguments, GetWithoutSearch, StartCollecting, StartSearch, CollectFile,
         FilesCollected, ExpandNext, GoOnForEver, EndSearch, TryLineBefore, Report, GiveCallArguments,
         GiveAsmArguments, vars, memory, search

\* The use that LookUp adds comes after those that are there.
LEMMA UseAdded ==
    ASSUME Typed, LookUp, NewMacro(Head(todo))
    PROVE  LET l == Head(todo)
               n == Len(uses[l])
           IN  /\ l \in Locations /\ n \in Nat
               /\ DOMAIN uses[l] = 1 .. n /\ DOMAIN uses'[l] = 1 .. n + 1
               /\ \A i \in 1 .. n : uses'[l][i] = uses[l][i]
               /\ uses'[l][n + 1] = NewUse
               /\ \A j \in Locations \ {l} : uses'[j] = uses[j]
<1>. DEFINE l == Head(todo)
            n == Len(uses[l])
            more == Append(uses[l], NewUse)
<1>1. pc = "search"
  BY DEF LookUp
<1>2. NewUse \in Uses
  BY LookUpFacts DEF NewMacro
<1>3. more \in Seq(Uses) /\ Len(more) = n + 1 /\ n \in Nat /\ more[n + 1] = NewUse
      /\ (\A i \in 1 .. n : more[i] = uses[l][i]) /\ DOMAIN more = 1 .. n + 1 /\ DOMAIN uses[l] = 1 .. n
  BY <1>1, <1>2, SearchFacts, AppendProperties, LenProperties
<1>4. l \in Locations /\ uses' = [uses EXCEPT ![l] = more]
  BY <1>1, SearchFacts, LookUpFacts
<1>. HIDE DEF more
<1>5. uses'[l] = more /\ \A j \in Locations \ {l} : uses'[j] = uses[j]
  BY <1>4 DEF Typed, TypeOK
<1>. QED
  BY <1>3, <1>4, <1>5

LEMMA StepsStay == Typed /\ [Next]_vars => Stay
<1>. SUFFICES ASSUME Typed, [Next]_vars
              PROVE  Stay
  OBVIOUS
<1>1. program' = program /\ known \subseteq known' /\ cached \subseteq cached'
  BY DEF Next, Ask, Work, FindDifference, FindArguments, GetWithoutSearch, StartCollecting, StartSearch, CollectFile,
         FilesCollected, LookUp, ExpandNext, GoOnForEver, EndSearch, TryLineBefore, Report, GiveCallArguments,
         GiveAsmArguments, vars, memory, search
<1>2. ASSUME NEW l \in Locations, NEW i \in DOMAIN uses[l]
      PROVE  i \in DOMAIN uses'[l] /\ uses'[l][i] = uses[l][i]
  <2>1. CASE uses' = uses
    BY <1>2, <2>1
  <2>2. CASE LookUp /\ uses' # uses
    <3>. DEFINE at == Head(todo)
                n == Len(uses[at])
    <3>1. /\ n \in Nat /\ DOMAIN uses[at] = 1 .. n /\ DOMAIN uses'[at] = 1 .. n + 1
          /\ \A k \in 1 .. n : uses'[at][k] = uses[at][k]
          /\ \A j \in Locations \ {at} : uses'[j] = uses[j]
      BY <2>2, LookUpFacts, UseAdded
    <3>. HIDE DEF at, n
    <3>. QED
      BY <1>2, <3>1
  <2>. QED
    BY <2>1, <2>2, UsesUnlessLookUp
<1>3. ASSUME NEW l \in Locations, Unit(l) \in known
      PROVE  defs'[Unit(l)] = defs[Unit(l)]
  <2>1. CASE defs' = defs
    BY <2>1
  <2>2. CASE CollectFile
    <3>. DEFINE u == Unit(Head(todo))
    <3>1. u \notin known
      BY <2>2 DEF Typed, Working, CollectFile
    <3>2. \E new : defs' = [defs EXCEPT ![u] = new]
      BY <2>2 DEF CollectFile
    <3>3. Unit(l) # u
      BY <1>3, <3>1
    <3>. HIDE DEF u
    <3>4. Unit(l) \in DOMAIN defs
      BY <1>3 DEF Typed, TypeOK
    <3>. QED
      BY <3>2, <3>3, <3>4
  <2>3. defs' = defs \/ CollectFile
    BY DEF Next, Ask, Work, FindDifference, FindArguments, GetWithoutSearch, StartCollecting, StartSearch,
           FilesCollected, LookUp, ExpandNext, GoOnForEver, EndSearch, TryLineBefore, Report, GiveCallArguments,
           GiveAsmArguments, vars, memory, search
  <2>. QED
    BY <2>1, <2>2, <2>3
<1>. QED
  BY <1>1, <1>2, <1>3 DEF Stay

LEMMA StayEffect ==
    ASSUME Typed, Stay, NEW l \in Locations, Unit(l) \in known
    PROVE  /\ Loc(l)' = Loc(l) /\ Unit(l)' = Unit(l)
           /\ \A o : extractLineFromLocation(l, o)' = extractLineFromLocation(l, o)
           /\ \A o : MacrosIn(Unit(l), extractLineFromLocation(l, o))' = MacrosIn(Unit(l), extractLineFromLocation(l, o))
           /\ \A i \in DOMAIN uses[l] :
                 /\ i \in DOMAIN uses'[l] /\ uses'[l][i] = uses[l][i]
                 /\ BodyOf(l, i)' = BodyOf(l, i)
                 /\ MacrosIn(Unit(l), BodyOf(l, i))' = MacrosIn(Unit(l), BodyOf(l, i))
           /\ NamesAt(l) \subseteq NamesAt(l)'
<1>1. Loc(l)' = Loc(l) /\ Unit(l)' = Unit(l)
  BY DEF Stay, Loc, Unit
<1>2. defs'[Unit(l)] = defs[Unit(l)]
  BY DEF Stay
<1>3. \A o : extractLineFromLocation(l, o)' = extractLineFromLocation(l, o)
  BY DEF Stay, extractLineFromLocation
<1>4. ASSUME NEW o
      PROVE  MacrosIn(Unit(l), extractLineFromLocation(l, o))' = MacrosIn(Unit(l), extractLineFromLocation(l, o))
  <2>1. extractLineFromLocation(l, o)' = extractLineFromLocation(l, o)
    BY <1>3
  <2>. QED
    BY <1>1, <1>2, <2>1 DEF MacrosIn
<1>5. ASSUME NEW i \in DOMAIN uses[l]
      PROVE  /\ i \in DOMAIN uses'[l] /\ uses'[l][i] = uses[l][i]
             /\ BodyOf(l, i)' = BodyOf(l, i)
             /\ MacrosIn(Unit(l), BodyOf(l, i))' = MacrosIn(Unit(l), BodyOf(l, i))
  <2>1. i \in DOMAIN uses'[l] /\ uses'[l][i] = uses[l][i]
    BY DEF Stay
  <2>2. BodyOf(l, i)' = BodyOf(l, i)
    BY <1>1, <1>2, <2>1 DEF BodyOf, Def
  <2>3. MacrosIn(Unit(l), BodyOf(l, i))' = MacrosIn(Unit(l), BodyOf(l, i))
    BY <1>1, <1>2, <2>2 DEF MacrosIn
  <2>. QED
    BY <2>1, <2>2, <2>3
<1>6. NamesAt(l) \subseteq NamesAt(l)'
  BY <1>5 DEF NamesAt
<1>. QED
  BY <1>1, <1>3, <1>4, <1>5, <1>6

-----------------------------------------------------------------------------
(* Stacks. *)

\* What StacksLeadToTheLine says of one use.
LeadsToLine(l, i) ==
    /\ uses[l][i].parent < i
    /\ IF uses[l][i].parent = 0
       THEN \E o \in {0, -1} : uses[l][i].name \in MacrosIn(Unit(l), extractLineFromLocation(l, o))
       ELSE uses[l][i].name \in MacrosIn(Unit(l), BodyOf(l, uses[l][i].parent))
NamedOnce(l, i) == \A j \in DOMAIN uses[l] : uses[l][j].name = uses[l][i].name => i = j

LEMMA StacksByUse ==
    StacksLeadToTheLine <=> \A l \in Locations : \A i \in DOMAIN uses[l] : LeadsToLine(l, i) /\ NamedOnce(l, i)
BY DEF StacksLeadToTheLine, LeadsToLine, NamedOnce

LEMMA OldUsesLead ==
    ASSUME Typed, Stay, NEW l \in Locations, NEW i \in DOMAIN uses[l], LeadsToLine(l, i)
    PROVE  LeadsToLine(l, i)'
<1>. DEFINE use == uses[l][i]
            p == use.parent
<1>1. use \in Uses /\ Unit(l) \in known
  BY UseTyped
<1>2. p \in Nat /\ p < i
  BY <1>1 DEF Uses, LeadsToLine
<1>3. p # 0 => p \in DOMAIN uses[l]
  <2>1. uses[l] \in Seq(Uses)
    BY DEF Typed, TypeOK
  <2>. HIDE DEF p
  <2>. QED
    BY <1>2, <2>1, LenProperties
<1>4. uses'[l][i] = use
  BY <1>1, StayEffect
<1>5. CASE p = 0
  <2>1. PICK o \in {0, -1} : use.name \in MacrosIn(Unit(l), extractLineFromLocation(l, o))
    BY <1>5 DEF LeadsToLine
  <2>2. use.name \in MacrosIn(Unit(l), extractLineFromLocation(l, o))'
    BY <1>1, <2>1, StayEffect
  <2>. QED
    BY <1>2, <1>4, <1>5, <2>2 DEF LeadsToLine
<1>6. CASE p # 0
  <2>1. use.name \in MacrosIn(Unit(l), BodyOf(l, p))
    BY <1>6 DEF LeadsToLine
  <2>2. MacrosIn(Unit(l), BodyOf(l, p))' = MacrosIn(Unit(l), BodyOf(l, p))
    BY <1>1, <1>3, <1>6, StayEffect
  <2>3. defs'[Unit(l)] = defs[Unit(l)] /\ Unit(l)' = Unit(l) /\ uses'[l][p] = uses[l][p] /\ BodyOf(l, p)' = BodyOf(l, p)
    BY <1>1, <1>3, <1>6, StayEffect DEF Stay
  <2>4. uses'[l][i].parent = p /\ uses'[l][i].name = use.name
    BY <1>4
  <2>. QED
    BY <1>2, <1>6, <2>1, <2>3, <2>4 DEF LeadsToLine, MacrosIn, BodyOf, Def
<1>. QED
  BY <1>5, <1>6

LEMMA StacksKept == Typed /\ Typed' /\ StacksLeadToTheLine /\ ScannedText /\ [Next]_vars => StacksLeadToTheLine'
<1>. SUFFICES ASSUME Typed, Typed', StacksLeadToTheLine, ScannedText, [Next]_vars
              PROVE  StacksLeadToTheLine'
  OBVIOUS
<1>0. (StacksLeadToTheLine <=> \A l \in Locations : \A i \in DOMAIN uses[l] : LeadsToLine(l, i) /\ NamedOnce(l, i))'
  BY StacksByUse, PTL
<1>1. Stay
  BY StepsStay
<1>2. \A l \in Locations : \A i \in DOMAIN uses[l] : LeadsToLine(l, i) /\ NamedOnce(l, i)
  BY StacksByUse
<1>3. \A l \in Locations : \A i \in DOMAIN uses[l] : LeadsToLine(l, i)'
  BY <1>1, <1>2, OldUsesLead
<1>4. CASE uses' = uses
  <2>1. \A l \in Locations : \A i \in DOMAIN uses'[l] : LeadsToLine(l, i)' /\ NamedOnce(l, i)'
    BY <1>2, <1>3, <1>4 DEF NamedOnce
  <2>. QED
    BY <1>0, <2>1
<1>5. CASE LookUp /\ uses' # uses
  <2>. DEFINE l == Head(todo)
              n == Len(uses[l])
              p == scan.parent
  <2>1. NewMacro(l) /\ pc = "search"
    BY <1>5, LookUpFacts DEF LookUp
  <2>2. /\ l \in Locations /\ n \in Nat
        /\ DOMAIN uses[l] = 1 .. n /\ DOMAIN uses'[l] = 1 .. n + 1
        /\ \A i \in 1 .. n : uses'[l][i] = uses[l][i]
        /\ uses'[l][n + 1] = NewUse
        /\ \A j \in Locations \ {l} : uses'[j] = uses[j]
    BY <1>5, <2>1, UseAdded
  <2>3. p \in 0 .. n /\ Unit(l) \in known /\ scan.at \in DOMAIN scan.text.toks
    BY <1>5, <2>1, SearchFacts, LookUpFacts
  <2>4. NewUse.name = Token.id /\ NewUse.parent = p
    BY DEF NewUse
  <2>5. Token.id \in MacrosIn(Unit(l), scan.text)
    BY <2>1, <2>3 DEF NewMacro, MacrosIn, Token
  <2>6. off \in {0, -1}
    BY DEF Typed, TypeOK
  <2>7. scan.text = IF p = 0 THEN extractLineFromLocation(l, off) ELSE BodyOf(l, p)
    BY <2>1 DEF ScannedText
  <2>8. Token.id \notin NamesAt(l)
    BY <2>1 DEF NewMacro
  <2>. HIDE DEF l, n, p
  <2>9. ASSUME NEW j \in Locations, NEW i \in DOMAIN uses'[j]
        PROVE  LeadsToLine(j, i)'
    <3>1. CASE i \in DOMAIN uses[j]
      BY <1>3, <3>1
    <3>2. CASE j = l /\ i = n + 1
      <4>1. defs'[Unit(j)] = defs[Unit(j)] /\ Unit(j)' = Unit(j)
        BY <1>1, <2>3, <3>2, StayEffect DEF Stay
      <4>2. uses'[j][i].parent = p /\ uses'[j][i].name = Token.id /\ p < i
        BY <2>2, <2>3, <2>4, <3>2
      <4>3. CASE p = 0
        <5>1. \E o \in {0, -1} : Token.id \in MacrosIn(Unit(j), extractLineFromLocation(j, o))
          BY <2>5, <2>6, <2>7, <3>2, <4>3
        <5>2. \E o \in {0, -1} : Token.id \in MacrosIn(Unit(j), extractLineFromLocation(j, o))'
          BY <1>1, <2>3, <3>2, <5>1, StayEffect
        <5>. QED
          BY <4>2, <4>3, <5>2 DEF LeadsToLine
      <4>4. CASE p # 0
        <5>1. p \in DOMAIN uses[j]
          BY <2>2, <2>3, <3>2, <4>4
        <5>2. Token.id \in MacrosIn(Unit(j), BodyOf(j, p))
          BY <2>5, <2>7, <3>2, <4>4
        <5>3. uses'[j][p] = uses[j][p]
          BY <1>1, <5>1 DEF Stay
        <5>. QED
          BY <4>1, <4>2, <4>4, <5>2, <5>3 DEF LeadsToLine, MacrosIn, BodyOf, Def
      <4>. QED
        BY <4>3, <4>4
    <3>3. i \in DOMAIN uses[j] \/ (j = l /\ i = n + 1)
      BY <2>2
    <3>. QED
      BY <3>1, <3>2, <3>3
  <2>10. ASSUME NEW j \in Locations, NEW i \in DOMAIN uses'[j]
         PROVE  NamedOnce(j, i)'
    <3>1. CASE j # l
      <4>1. uses'[j] = uses[j]
        BY <2>2, <3>1
      <4>. QED
        BY <1>2, <4>1 DEF NamedOnce
    <3>2. CASE j = l
      <4>1. \A k \in 1 .. n : \A m \in 1 .. n : uses[l][m].name = uses[l][k].name => k = m
        BY <1>2, <2>2 DEF NamedOnce
      <4>2. \A k \in 1 .. n : uses[l][k].name # Token.id
        BY <2>2, <2>8 DEF NamesAt
      <4>3. \A k \in 1 .. n + 1 : k \in 1 .. n \/ k = n + 1
        BY <2>2
      <4>4. \A k \in 1 .. n + 1 : \A m \in 1 .. n + 1 : uses'[l][m].name = uses'[l][k].name => k = m
        BY <2>2, <2>4, <4>1, <4>2, <4>3
      <4>. QED
        BY <2>2, <3>2, <4>4 DEF NamedOnce
    <3>. QED
      BY <3>1, <3>2
  <2>11. \A j \in Locations : \A i \in DOMAIN uses'[j] : LeadsToLine(j, i)' /\ NamedOnce(j, i)'
    BY <2>9, <2>10
  <2>. QED
    BY <1>0, <2>11
<1>. QED
  BY <1>4, <1>5, UsesUnlessLookUp

LEMMA StepsOfSearch ==
    ASSUME Typed, [Next]_vars, pc' = "search"
    PROVE  (\E l \in Locations : StartSearch(l)) \/ LookUp \/ ExpandNext \/ UNCHANGED vars
BY DEF Next, Ask, Work, FindDifference, FindArguments, GetWithoutSearch, StartCollecting, CollectFile, FilesCollected,
       GoOnForEver, EndSearch, TryLineBefore, Report, GiveCallArguments, GiveAsmArguments, Getting, Got

LEMMA NewestIsUse ==
    ASSUME Typed, ExpandNext
    PROVE  /\ pc = "search" /\ toExpand \in Seq(Nat) /\ toExpand # <<>>
           /\ Newest \in DOMAIN uses[Head(todo)]
           /\ Elements(toExpand) \subseteq Elements(toExpand') \cup {Newest}
<1>. DEFINE n == Len(uses[Head(todo)])
            m == Len(toExpand)
<1>1. pc = "search" /\ toExpand # <<>> /\ toExpand' = SubSeq(toExpand, 1, m - 1)
  BY DEF ExpandNext, TextDone
<1>2. toExpand \in Seq(1 .. n) /\ n \in Nat /\ DOMAIN uses[Head(todo)] = 1 .. n
  BY <1>1, SearchFacts
<1>3. m \in Nat \ {0} /\ DOMAIN toExpand = 1 .. m
  BY <1>1, <1>2, EmptySeq, LenProperties
<1>4. \A i \in 1 .. m : toExpand[i] \in 1 .. n
  BY <1>2, <1>3, ElementOfSeq
<1>5. toExpand \in Seq(Nat)
  BY DEF Typed, TypeOK
<1>. HIDE DEF n, m
<1>6. Newest \in DOMAIN uses[Head(todo)]
  BY <1>2, <1>3, <1>4 DEF Newest, m
<1>7. DOMAIN toExpand' = 1 .. m - 1 /\ \A i \in 1 .. m - 1 : toExpand'[i] = toExpand[i]
  BY <1>1, <1>3, <1>5, SubSeqProperties
<1>8. ASSUME NEW k \in DOMAIN toExpand
      PROVE  toExpand[k] \in Elements(toExpand') \cup {Newest}
  <2>1. CASE k = m
    BY <2>1 DEF Newest, m
  <2>2. CASE k # m
    <3>1. k \in 1 .. m - 1
      BY <1>3, <2>2
    <3>. QED
      BY <1>7, <3>1 DEF Elements
  <2>. QED
    BY <2>1, <2>2
<1>9. Elements(toExpand) \subseteq Elements(toExpand') \cup {Newest}
  BY <1>8 DEF Elements
<1>. QED
  BY <1>1, <1>5, <1>6, <1>9

LEMMA ScannedKept == Typed /\ Typed' /\ ScannedText /\ [Next]_vars => ScannedText'
<1>. SUFFICES ASSUME Typed, Typed', ScannedText, [Next]_vars, pc' = "search"
              PROVE  (scan.text = IF scan.parent = 0 THEN extractLineFromLocation(Head(todo), off)
                                  ELSE BodyOf(Head(todo), scan.parent))'
  BY DEF ScannedText
<1>1. Stay
  BY StepsStay
<1>2. ASSUME NEW l \in Locations, StartSearch(l)
      PROVE  (scan.text = IF scan.parent = 0 THEN extractLineFromLocation(Head(todo), off)
                          ELSE BodyOf(Head(todo), scan.parent))'
  <2>1. scan'.parent = 0 /\ scan'.text = extractLineFromLocation(l, off)
    BY <1>2 DEF StartSearch
  <2>2. program' = program /\ todo' = todo /\ off' = off /\ l = Head(todo)
    BY <1>2 DEF StartSearch, Getting
  <2>. QED
    BY <2>1, <2>2 DEF extractLineFromLocation
<1>3. CASE LookUp
  <2>1. pc = "search" /\ todo' = todo /\ off' = off /\ program' = program /\ defs' = defs
    BY <1>3 DEF LookUp
  <2>2. scan \in [parent : Nat, text : Texts(Names \cup {NoName}), at : Nat \ {0}] /\ scan' = [scan EXCEPT !.at = @ + 1]
    BY <1>3, LookUpFacts DEF Typed, TypeOK
  <2>3. scan'.text = scan.text /\ scan'.parent = scan.parent
    BY <2>2
  <2>4. scan.text = IF scan.parent = 0 THEN extractLineFromLocation(Head(todo), off) ELSE BodyOf(Head(todo), scan.parent)
    BY <2>1 DEF ScannedText
  <2>5. scan.parent # 0 => uses'[Head(todo)][scan.parent] = uses[Head(todo)][scan.parent]
    <3>1. /\ Head(todo) \in Locations /\ DOMAIN uses[Head(todo)] = 1 .. Len(uses[Head(todo)])
          /\ Len(uses[Head(todo)]) \in Nat /\ scan.parent \in 0 .. Len(uses[Head(todo)])
      BY <2>1, SearchFacts
    <3>2. scan.parent # 0 => scan.parent \in DOMAIN uses[Head(todo)]
      BY <3>1
    <3>. QED
      BY <1>1, <3>1, <3>2 DEF Stay
  <2>. QED
    BY <2>1, <2>3, <2>4, <2>5 DEF extractLineFromLocation, BodyOf, Def, Unit, Loc
<1>4. CASE ExpandNext
  <2>1. scan'.parent = Newest /\ scan'.text = BodyOf(Head(todo), Newest) /\ todo' = todo /\ program' = program
        /\ defs' = defs /\ uses' = uses
    BY <1>4 DEF ExpandNext, memory
  <2>2. Newest # 0
    <3>1. Newest \in 1 .. Len(uses[Head(todo)]) /\ Len(uses[Head(todo)]) \in Nat
      BY <1>4, NewestIsUse, SearchFacts
    <3>. QED
      BY <3>1
  <2>. QED
    BY <2>1, <2>2 DEF BodyOf, Def, Unit, Loc
<1>5. CASE UNCHANGED vars
  BY <1>5 DEF ScannedText, vars, memory, search, extractLineFromLocation, BodyOf, Def, Unit, Loc
<1>. QED
  BY <1>2, <1>3, <1>4, <1>5, StepsOfSearch

LEMMA InitStacks == Init => StacksLeadToTheLine /\ ScannedText
<1>. SUFFICES ASSUME Init
              PROVE  StacksLeadToTheLine /\ ScannedText
  OBVIOUS
<1>1. \A l \in Locations : uses[l] = <<>>
  BY DEF Init
<1>2. \A l \in Locations : DOMAIN uses[l] = {}
  BY <1>1
<1>3. pc = "idle"
  BY DEF Init
<1>. QED
  BY <1>2, <1>3 DEF StacksLeadToTheLine, ScannedText

\* For any program: the chain of parents of a use ends at the statement of its location, or at
\* the one before it; each use is in the body of its parent, and no name comes twice
\* (collectMacroUsesAtLocation; findMacroDifferences builds its call stacks from these chains).
THEOREM StacksLead == Spec => []StacksLeadToTheLine
<1>. DEFINE Inv == Typed /\ StacksLeadToTheLine /\ ScannedText
<1>1. Init => Inv
  BY InitTyped, InitStacks
<1>2. Inv /\ [Next]_vars => Inv'
  BY TypedKept, StacksKept, ScannedKept
<1>3. Inv => StacksLeadToTheLine
  OBVIOUS
<1>. HIDE DEF Inv
<1>. QED
  BY <1>1, <1>2, <1>3, PTL DEF Spec

-----------------------------------------------------------------------------
(* The line before is searched after the line itself. *)

LEMMA PairElements == ASSUME NEW a, NEW b PROVE Elements(<<a, b>>) = {a, b}
BY DEF Elements

LEMMA OwnLineFirstKept == Typed /\ OwnLineFirst /\ [Next]_vars => OwnLineFirst'
<1>. SUFFICES ASSUME Typed, OwnLineFirst, [Next]_vars, pc' # "idle"
              PROVE  /\ off' = 0 /\ query'.kind = "difference" => {query'.l, query'.r} \subseteq cached' \cup Elements(todo')
                     /\ off' # 0 => Elements(todo') \subseteq cached'
  BY DEF OwnLineFirst, Elements
<1>. DEFINE Goal == /\ off' = 0 /\ query'.kind = "difference" => {query'.l, query'.r} \subseteq cached' \cup Elements(todo')
                    /\ off' # 0 => Elements(todo') \subseteq cached'
<1>1. CASE Ask
  <2>1. ASSUME NEW l \in Locations, NEW r \in Locations, NEW n, NEW m, FindDifference(l, r, n, m)
        PROVE  Goal
    <3>1. todo' = <<l, r>> /\ off' = 0 /\ query'.l = l /\ query'.r = r
      BY <2>1 DEF FindDifference
    <3>. QED
      BY <3>1, PairElements
  <2>2. ASSUME NEW l \in Locations, NEW n, NEW code, FindArguments(l, n, code)
        PROVE  Goal
    <3>1. off' = 0 /\ query'.kind # "difference"
      BY <2>2 DEF FindArguments
    <3>. QED
      BY <3>1
  <2>. QED
    BY <1>1, <2>1, <2>2 DEF Ask
<1>2. CASE (\E l \in Locations : GetWithoutSearch(l)) \/ EndSearch
  <2>1. todo \in Seq(Locations) /\ todo # <<>> /\ todo' = Tail(todo) /\ Head(todo) \in cached' /\ cached \subseteq cached'
        /\ query' = query /\ off' = off /\ pc # "idle"
    BY <1>2 DEF GetWithoutSearch, Getting, EndSearch, TextDone, memory, Typed, TypeOK, Working
  <2>2. Elements(todo) \subseteq {Head(todo)} \cup Elements(todo') /\ Elements(todo') \subseteq Elements(todo)
    BY <2>1, QueueFacts
  <2>. QED
    BY <2>1, <2>2 DEF OwnLineFirst
<1>3. CASE TryLineBefore
  <2>1. todo = <<>> /\ todo' = <<query.l, query.r>> /\ off = 0 /\ off' # 0 /\ query.kind = "difference" /\ pc # "idle" /\ cached' = cached
    BY <1>3 DEF TryLineBefore, Got, memory
  <2>2. Elements(todo) = {}
    BY <2>1 DEF Elements
  <2>3. Elements(todo') = {query.l, query.r}
    BY <2>1, PairElements
  <2>. QED
    BY <2>1, <2>2, <2>3 DEF OwnLineFirst
<1>4. CASE (\E l \in Locations : StartCollecting(l) \/ StartSearch(l)) \/ CollectFile \/ FilesCollected \/ LookUp \/ ExpandNext
           \/ GoOnForEver \/ UNCHANGED vars
  <2>1. todo' = todo /\ query' = query /\ off' = off /\ cached \subseteq cached' /\ pc # "idle"
    BY <1>4 DEF StartCollecting, StartSearch, Getting, CollectFile, FilesCollected, LookUp, ExpandNext, TextDone, GoOnForEver,
                vars, memory, search
  <2>2. Elements(todo') = Elements(todo)
    BY <2>1
  <2>. QED
    BY <2>1, <2>2 DEF OwnLineFirst
<1>5. ~(Report \/ GiveCallArguments \/ GiveAsmArguments)
  BY DEF Report, GiveCallArguments, GiveAsmArguments
<1>6. \/ Ask
      \/ (\E l \in Locations : GetWithoutSearch(l)) \/ EndSearch
      \/ TryLineBefore
      \/ (\E l \in Locations : StartCollecting(l) \/ StartSearch(l)) \/ CollectFile \/ FilesCollected \/ LookUp \/ ExpandNext
           \/ GoOnForEver \/ UNCHANGED vars
      \/ Report \/ GiveCallArguments \/ GiveAsmArguments
  BY DEF Next, Work
<1>. QED
  BY <1>1, <1>2, <1>3, <1>4, <1>5, <1>6, Zenon

-----------------------------------------------------------------------------
(* No macro is missed. *)

\* What SearchedSoFar says of one location.
LineSoFar(l) ==
    \/ Searching(l) /\ off = 0 /\ scan.parent = 0
    \/ MacrosIn(Unit(l), extractLineFromLocation(l, 0)) \subseteq NamesAt(l)
BodySoFar(l, i) ==
    \/ Searching(l) /\ i \in Elements(toExpand) \cup {scan.parent}
    \/ MacrosIn(Unit(l), BodyOf(l, i)) \subseteq NamesAt(l)
TextSoFar(l) == Searching(l) => MacrosBefore(Unit(l), scan.text, scan.at) \subseteq NamesAt(l)
SoFar(l) == TextSoFar(l) /\ LineSoFar(l) /\ \A i \in DOMAIN uses[l] : BodySoFar(l, i)

LEMMA SearchedByLocation == SearchedSoFar <=> \A l \in cached : Loc(l).scope => SoFar(l)
BY DEF SearchedSoFar, SoFar, TextSoFar, LineSoFar, BodySoFar

\* A location that is not searched before a step nor after it stays complete.
LEMMA QuietSoFar ==
    ASSUME Typed, Stay, NEW l \in cached, Loc(l).scope, SoFar(l),
           ~Searching(l), ~Searching(l)', uses'[l] = uses[l]
    PROVE  SoFar(l)'
<1>1. l \in Locations /\ Unit(l) \in known
  BY DEF Typed, TypeOK, CachedIsKnown
<1>2. NamesAt(l)' = NamesAt(l)
  BY DEF NamesAt
<1>3. LineSoFar(l)'
  <2>1. MacrosIn(Unit(l), extractLineFromLocation(l, 0)) \subseteq NamesAt(l)
    BY DEF SoFar, LineSoFar
  <2>2. (MacrosIn(Unit(l), extractLineFromLocation(l, 0)) \subseteq NamesAt(l))'
    BY <1>1, <1>2, <2>1, StayEffect
  <2>. QED
    BY <2>2 DEF LineSoFar
<1>4. ASSUME NEW i \in DOMAIN uses'[l]
      PROVE  BodySoFar(l, i)'
  <2>1. MacrosIn(Unit(l), BodyOf(l, i)) \subseteq NamesAt(l)
    BY DEF SoFar, BodySoFar
  <2>2. (MacrosIn(Unit(l), BodyOf(l, i)) \subseteq NamesAt(l))'
    BY <1>1, <1>2, <2>1, StayEffect
  <2>. QED
    BY <2>2 DEF BodySoFar
<1>5. TextSoFar(l)'
  BY DEF TextSoFar
<1>. QED
  BY <1>3, <1>4, <1>5 DEF SoFar

\* Behind the last identifier there are all macros of a text.
LEMMA AllBefore ==
    ASSUME NEW u, NEW text, text.toks \in Seq(Tokens(AnyName)), NEW n \in Nat, n > Len(text.toks)
    PROVE  MacrosBefore(u, text, n) = MacrosIn(u, text)
<1>1. DOMAIN text.toks = 1 .. Len(text.toks) /\ Len(text.toks) \in Nat
  BY LenProperties
<1>2. ASSUME NEW k \in DOMAIN text.toks
      PROVE  k < n
  BY <1>1
<1>. QED
  BY <1>2 DEF MacrosBefore, MacrosIn

\* When the text is done, what it belongs to is complete: the line, or the body of the parent.
LEMMA DoneSoFar ==
    ASSUME Typed, ScannedText, TextDone, NEW l \in cached, Searching(l), SoFar(l)
    PROVE  /\ MacrosIn(Unit(l), extractLineFromLocation(l, 0)) \subseteq NamesAt(l)
           /\ \A i \in DOMAIN uses[l] :
                 i \in Elements(toExpand) \/ MacrosIn(Unit(l), BodyOf(l, i)) \subseteq NamesAt(l)
<1>1. pc = "search" /\ l = Head(todo) /\ scan.at > Len(scan.text.toks)
  BY DEF TextDone, Searching
<1>2. MacrosIn(Unit(l), scan.text) \subseteq NamesAt(l)
  <2>1. MacrosBefore(Unit(l), scan.text, scan.at) \subseteq NamesAt(l)
    BY DEF SoFar, TextSoFar
  <2>2. scan.text.toks \in Seq(Tokens(AnyName)) /\ scan.at \in Nat
    BY <1>1, SearchFacts
  <2>. QED
    BY <1>1, <2>1, <2>2, AllBefore
<1>3. scan.text = IF scan.parent = 0 THEN extractLineFromLocation(l, off) ELSE BodyOf(l, scan.parent)
  BY <1>1 DEF ScannedText
<1>4. MacrosIn(Unit(l), extractLineFromLocation(l, 0)) \subseteq NamesAt(l)
  BY <1>2, <1>3 DEF SoFar, LineSoFar
<1>5. ASSUME NEW i \in DOMAIN uses[l], i \notin Elements(toExpand)
      PROVE  MacrosIn(Unit(l), BodyOf(l, i)) \subseteq NamesAt(l)
  <2>1. i # 0
    BY <1>1, SearchFacts
  <2>2. CASE i = scan.parent
    BY <1>2, <1>3, <2>1, <2>2
  <2>3. CASE i # scan.parent
    BY <1>5, <2>3 DEF SoFar, BodySoFar
  <2>. QED
    BY <2>2, <2>3
<1>. QED
  BY <1>4, <1>5

\* The steps that do not search.
LEMMA OtherStepsSoFar ==
    ASSUME Typed, Typed', SearchedSoFar, [Next]_vars, pc # "search", pc' # "search"
    PROVE  SearchedSoFar'
<1>1. Stay
  BY StepsStay
<1>2. uses' = uses
  BY UsesUnlessLookUp DEF LookUp
<1>3. ASSUME NEW l \in cached', (Loc(l).scope)'
      PROVE  SoFar(l)'
  <2>1. Loc(l).scope
    BY <1>1, <1>3 DEF Loc, Stay
  <2>2. l \in cached
    <3>1. CASE cached' = cached
      BY <1>3, <3>1
    <3>2. CASE \E m \in Locations : GetWithoutSearch(m)
      <4>1. PICK m \in Locations : GetWithoutSearch(m)
        BY <3>2
      <4>2. cached' = cached \cup {m} /\ (Loc(m).scope => m \in cached)
        BY <4>1 DEF GetWithoutSearch, MustSearch
      <4>. QED
        BY <1>3, <2>1, <4>2
    <3>3. cached' = cached \/ \E m \in Locations : GetWithoutSearch(m)
      BY DEF Next, Ask, Work, FindDifference, FindArguments, StartCollecting, StartSearch, CollectFile, FilesCollected,
             LookUp, ExpandNext, GoOnForEver, EndSearch, TextDone, TryLineBefore, Report, GiveCallArguments,
             GiveAsmArguments, vars, memory, search
    <3>. QED
      BY <3>1, <3>2, <3>3
  <2>3. SoFar(l)
    BY <2>1, <2>2, SearchedByLocation
  <2>4. ~Searching(l) /\ ~Searching(l)'
    BY DEF Searching
  <2>. QED
    BY <1>1, <1>2, <2>1, <2>2, <2>3, <2>4, QuietSoFar
<1>4. (SearchedSoFar <=> \A l \in cached : Loc(l).scope => SoFar(l))'
  BY SearchedByLocation, PTL
<1>. QED
  BY <1>3, <1>4

\* The steps of a search change nothing at other locations.
LEMMA OthersSoFar ==
    ASSUME Typed, SearchedSoFar, [Next]_vars, todo' = todo \/ pc' # "search", pc = "search" \/ uses' = uses,
           NEW l \in cached, (Loc(l).scope)', l # Head(todo)
    PROVE  SoFar(l)'
<1>1. Stay
  BY StepsStay
<1>2. Loc(l).scope
  BY <1>1 DEF Loc, Stay
<1>3. SoFar(l)
  BY <1>2, SearchedByLocation
<1>4. ~Searching(l) /\ ~Searching(l)'
  BY DEF Searching
<1>5. l \in Locations
  BY DEF Typed, TypeOK
<1>6. uses'[l] = uses[l]
  <2>1. CASE uses' = uses
    BY <2>1
  <2>2. CASE LookUp /\ uses' # uses
    <3>1. NewMacro(Head(todo))
      BY <2>2, LookUpFacts
    <3>2. \A j \in Locations \ {Head(todo)} : uses'[j] = uses[j]
      BY <2>2, <3>1, UseAdded
    <3>. QED
      BY <1>5, <3>2
  <2>. QED
    BY <2>1, <2>2, UsesUnlessLookUp
<1>. QED
  BY <1>1, <1>2, <1>3, <1>4, <1>6, QuietSoFar

\* A search starts at a line of which nothing is known, or at the line before one that is done.
LEMMA StartSoFar ==
    ASSUME Typed, OwnLineFirst, SearchedSoFar, [Next]_vars, NEW l \in Locations, StartSearch(l)
    PROVE  SoFar(l)'
<1>1. Stay
  BY StepsStay
<1>2. /\ pc = "get" /\ l = Head(todo) /\ todo # <<>> /\ todo \in Seq(Locations) /\ toExpand = <<>> /\ Unit(l) \in known
      /\ Loc(l).scope /\ uses' = uses /\ toExpand' = toExpand /\ off' = off /\ todo' = todo /\ pc' = "search"
  BY DEF StartSearch, Getting, MustSearch, Typed, TypeOK, Working
<1>3. scan' = [parent |-> 0, text |-> extractLineFromLocation(l, off), at |-> 1]
  BY DEF StartSearch
<1>4. NamesAt(l)' = NamesAt(l)
  BY <1>2 DEF NamesAt
<1>5. TextSoFar(l)'
  <2>1. (scan.text.toks \in Seq(Tokens(AnyName)))'
    <3>1. extractLineFromLocation(l, off) \in TokenText
      BY LineTyped, SourceIsText DEF Typed, TypeOK
    <3>2. scan'.text = extractLineFromLocation(l, off)
      BY <1>3
    <3>. QED
      BY <3>1, <3>2 DEF TokenText, Texts
  <2>2. scan'.at = 1
    BY <1>3
  <2>3. \A k \in DOMAIN scan'.text.toks : ~(k < scan'.at)
    BY <2>1, <2>2, LenProperties
  <2>. QED
    BY <2>3 DEF TextSoFar, MacrosBefore
<1>6. CASE l \in cached
  <2>1. SoFar(l) /\ ~Searching(l)
    BY <1>2, <1>6, SearchedByLocation DEF Searching
  <2>2. MacrosIn(Unit(l), extractLineFromLocation(l, 0)) \subseteq NamesAt(l)
    BY <2>1 DEF SoFar, LineSoFar
  <2>3. LineSoFar(l)'
    <3>1. (MacrosIn(Unit(l), extractLineFromLocation(l, 0)) \subseteq NamesAt(l))'
      BY <1>1, <1>2, <1>4, <2>2, StayEffect
    <3>. QED
      BY <3>1 DEF LineSoFar
  <2>4. ASSUME NEW i \in DOMAIN uses'[l]
        PROVE  BodySoFar(l, i)'
    <3>1. MacrosIn(Unit(l), BodyOf(l, i)) \subseteq NamesAt(l)
      BY <1>2, <2>1, <2>4 DEF SoFar, BodySoFar
    <3>2. (MacrosIn(Unit(l), BodyOf(l, i)) \subseteq NamesAt(l))'
      BY <1>1, <1>2, <1>4, <2>4, <3>1, StayEffect
    <3>. QED
      BY <3>2 DEF BodySoFar
  <2>. QED
    BY <1>5, <2>3, <2>4 DEF SoFar
<1>7. CASE l \notin cached
  <2>1. uses[l] = <<>>
    BY <1>7 DEF Typed, CachedIsKnown
  <2>2. off = 0
    <3>1. l \in Elements(todo)
      BY <1>2, QueueFacts
    <3>. QED
      BY <1>2, <1>7, <3>1 DEF OwnLineFirst
  <2>3. Searching(l)' /\ off' = 0 /\ scan'.parent = 0
    BY <1>2, <1>3, <2>2 DEF Searching
  <2>4. LineSoFar(l)'
    BY <2>3 DEF LineSoFar
  <2>5. DOMAIN uses'[l] = {}
    BY <1>2, <2>1
  <2>. QED
    BY <1>5, <2>4, <2>5 DEF SoFar
<1>. QED
  BY <1>6, <1>7

\* An identifier that is a macro becomes a use, unless it is one.
LEMMA LookUpSoFar ==
    ASSUME Typed, Typed', ScannedText, SearchedSoFar, [Next]_vars, LookUp, NEW l \in cached, l = Head(todo)
    PROVE  SoFar(l)'
<1>. DEFINE n == Len(uses[l])
<1>1. Stay
  BY StepsStay
<1>2. /\ pc = "search" /\ pc' = "search" /\ todo' = todo /\ off' = off /\ defs' = defs
      /\ scan' = [scan EXCEPT !.at = @ + 1] /\ scan \in [parent : Nat, text : Texts(Names \cup {NoName}), at : Nat \ {0}]
  BY LookUpFacts DEF LookUp, Typed, TypeOK
<1>3. scan'.parent = scan.parent /\ scan'.text = scan.text /\ scan'.at = scan.at + 1 /\ scan.at \in Nat
  BY <1>2
<1>4. l \in Locations /\ Loc(l).scope /\ Unit(l) \in known /\ Searching(l) /\ Searching(l)' /\ Unit(l)' = Unit(l)
  BY <1>1, <1>2, SearchFacts, StayEffect DEF Searching
<1>5. SoFar(l)
  BY <1>4, SearchedByLocation
<1>6. NamesAt(l) \subseteq NamesAt(l)'
  BY <1>1, <1>4, StayEffect
<1>7. NewMacro(l) =>
        /\ n \in Nat /\ DOMAIN uses[l] = 1 .. n /\ DOMAIN uses'[l] = 1 .. n + 1
        /\ uses'[l][n + 1] = NewUse /\ toExpand' = Append(toExpand, n + 1)
  BY LookUpFacts, UseAdded
<1>. HIDE DEF n
<1>8. ASSUME Token.id \in Names, defs[Unit(l)][Token.id] # NoDef, IsLookedUp(scan.text, scan.at)
      PROVE  Token.id \in NamesAt(l)'
  <2>1. CASE Token.id \in NamesAt(l)
    BY <1>6, <2>1
  <2>2. CASE Token.id \notin NamesAt(l)
    <3>1. NewMacro(l)
      BY <1>8, <2>2 DEF NewMacro
    <3>2. n + 1 \in DOMAIN uses'[l] /\ uses'[l][n + 1].name = Token.id
      BY <1>7, <3>1 DEF NewUse
    <3>. QED
      BY <3>2 DEF NamesAt
  <2>. QED
    BY <2>1, <2>2
<1>9. TextSoFar(l)'
  <2>1. DOMAIN scan.text.toks \subseteq Nat
    BY <1>2, SearchFacts
  <2>2. ASSUME NEW m \in Names, defs[Unit(l)][m] # NoDef, NEW k \in DOMAIN scan.text.toks, k < scan.at + 1,
               scan.text.toks[k].id = m, IsLookedUp(scan.text, k)
        PROVE  m \in NamesAt(l)'
    <3>1. CASE k < scan.at
      <4>1. m \in MacrosBefore(Unit(l), scan.text, scan.at)
        BY <2>2, <3>1 DEF MacrosBefore
      <4>. QED
        BY <1>4, <1>5, <1>6, <4>1 DEF SoFar, TextSoFar
    <3>2. CASE k = scan.at
      BY <1>8, <2>2, <3>2 DEF Token
    <3>3. k < scan.at \/ k = scan.at
      BY <1>3, <2>1, <2>2
    <3>. QED
      BY <3>1, <3>2, <3>3
  <2>. QED
    BY <1>2, <1>3, <1>4, <2>2 DEF TextSoFar, MacrosBefore
<1>10. LineSoFar(l)'
  <2>1. CASE off = 0 /\ scan.parent = 0
    BY <1>2, <1>3, <1>4, <2>1 DEF LineSoFar
  <2>2. CASE MacrosIn(Unit(l), extractLineFromLocation(l, 0)) \subseteq NamesAt(l)
    <3>1. (MacrosIn(Unit(l), extractLineFromLocation(l, 0)) \subseteq NamesAt(l))'
      BY <1>1, <1>4, <1>6, <2>2, StayEffect
    <3>. QED
      BY <3>1 DEF LineSoFar
  <2>. QED
    BY <1>5, <2>1, <2>2 DEF SoFar, LineSoFar
<1>11. toExpand \in Seq(Nat)
  BY DEF Typed, TypeOK
<1>12. Elements(toExpand) \subseteq Elements(toExpand')
  <2>1. CASE NewMacro(l)
    <3>1. toExpand' = Append(toExpand, n + 1) /\ n + 1 \in Nat
      BY <1>7, <2>1
    <3>2. DOMAIN toExpand = 1 .. Len(toExpand) /\ DOMAIN toExpand' = 1 .. Len(toExpand) + 1 /\ Len(toExpand) \in Nat
          /\ \A k \in 1 .. Len(toExpand) : toExpand'[k] = toExpand[k]
      BY <1>11, <3>1, AppendProperties, LenProperties
    <3>3. \A k \in DOMAIN toExpand : k \in DOMAIN toExpand' /\ toExpand'[k] = toExpand[k]
      BY <3>2
    <3>. QED
      BY <3>3 DEF Elements
  <2>2. CASE ~NewMacro(l)
    <3>1. toExpand' = toExpand
      BY <2>2, LookUpFacts
    <3>. QED
      BY <3>1 DEF Elements
  <2>. QED
    BY <2>1, <2>2
<1>13. ASSUME NEW i \in DOMAIN uses'[l]
       PROVE  BodySoFar(l, i)'
  <2>1. CASE i \in DOMAIN uses[l]
    <3>1. CASE i \in Elements(toExpand) \cup {scan.parent}
      <4>1. i \in Elements(toExpand') \cup {scan'.parent}
        BY <1>3, <1>12, <3>1
      <4>2. (i \in Elements(toExpand) \cup {scan.parent})'
        BY <4>1 DEF Elements
      <4>. QED
        BY <1>4, <4>2 DEF BodySoFar
    <3>2. CASE MacrosIn(Unit(l), BodyOf(l, i)) \subseteq NamesAt(l)
      <4>1. (MacrosIn(Unit(l), BodyOf(l, i)) \subseteq NamesAt(l))'
        BY <1>1, <1>4, <1>6, <2>1, <3>2, StayEffect
      <4>. QED
        BY <4>1 DEF BodySoFar
    <3>. QED
      BY <1>5, <2>1, <3>1, <3>2 DEF SoFar, BodySoFar
  <2>2. CASE i \notin DOMAIN uses[l]
    <3>1. NewMacro(l)
      BY <1>13, <2>2, LookUpFacts
    <3>2. i = n + 1 /\ toExpand' = Append(toExpand, n + 1) /\ n + 1 \in Nat
      BY <1>7, <1>13, <2>2, <3>1
    <3>3. toExpand'[Len(toExpand) + 1] = n + 1 /\ Len(toExpand) + 1 \in DOMAIN toExpand'
      BY <1>11, <3>2, AppendProperties, LenProperties
    <3>4. (i \in Elements(toExpand) \cup {scan.parent})'
      BY <3>2, <3>3 DEF Elements
    <3>. QED
      BY <1>4, <3>4 DEF BodySoFar
  <2>. QED
    BY <2>1, <2>2
<1>. QED
  BY <1>9, <1>10, <1>13 DEF SoFar

\* The body of the newest use is searched in its turn; when none is left all is done.
LEMMA NextTextSoFar ==
    ASSUME Typed, Typed', ScannedText, SearchedSoFar, [Next]_vars, ExpandNext \/ EndSearch, NEW l \in cached, l = Head(todo)
    PROVE  SoFar(l)'
<1>1. Stay
  BY StepsStay
<1>2. TextDone /\ pc = "search" /\ uses' = uses
  BY DEF ExpandNext, EndSearch, TextDone, memory
<1>3. l \in Locations /\ Loc(l).scope /\ Unit(l) \in known /\ Searching(l)
  BY <1>2, SearchFacts DEF Searching
<1>4. NamesAt(l)' = NamesAt(l)
  BY <1>2 DEF NamesAt
<1>5. SoFar(l)
  BY <1>3, SearchedByLocation
<1>6. /\ MacrosIn(Unit(l), extractLineFromLocation(l, 0)) \subseteq NamesAt(l)
      /\ \A i \in DOMAIN uses[l] : i \in Elements(toExpand) \/ MacrosIn(Unit(l), BodyOf(l, i)) \subseteq NamesAt(l)
  BY <1>2, <1>3, <1>5, DoneSoFar
<1>7. LineSoFar(l)'
  <2>1. (MacrosIn(Unit(l), extractLineFromLocation(l, 0)) \subseteq NamesAt(l))'
    BY <1>1, <1>3, <1>4, <1>6, StayEffect
  <2>. QED
    BY <2>1 DEF LineSoFar
<1>8. ASSUME NEW i \in DOMAIN uses'[l], MacrosIn(Unit(l), BodyOf(l, i)) \subseteq NamesAt(l)
      PROVE  BodySoFar(l, i)'
  <2>1. (MacrosIn(Unit(l), BodyOf(l, i)) \subseteq NamesAt(l))'
    BY <1>1, <1>2, <1>3, <1>4, <1>8, StayEffect
  <2>. QED
    BY <2>1 DEF BodySoFar
<1>9. CASE ExpandNext
  <2>1. Searching(l)' /\ scan'.parent = Newest /\ scan'.at = 1 /\ scan'.text = BodyOf(l, Newest)
    BY <1>2, <1>9 DEF ExpandNext, Searching
  <2>2. TextSoFar(l)'
    <3>1. scan'.text.toks \in Seq(Tokens(AnyName))
      <4>1. Newest \in DOMAIN uses[l]
        BY <1>9, NewestIsUse
      <4>2. BodyOf(l, Newest) \in TokenText
        BY <1>3, <4>1, UseTyped
      <4>. QED
        BY <2>1, <4>2 DEF TokenText, Texts
    <3>2. \A k \in DOMAIN scan'.text.toks : ~(k < scan'.at)
      BY <2>1, <3>1, LenProperties
    <3>. QED
      BY <3>2 DEF TextSoFar, MacrosBefore
  <2>3. ASSUME NEW i \in DOMAIN uses'[l]
        PROVE  BodySoFar(l, i)'
    <3>1. CASE i \in Elements(toExpand)
      <4>1. i \in Elements(toExpand') \cup {scan'.parent}
        BY <1>9, <2>1, <3>1, NewestIsUse
      <4>2. (i \in Elements(toExpand) \cup {scan.parent})'
        BY <4>1 DEF Elements
      <4>. QED
        BY <2>1, <4>2 DEF BodySoFar
    <3>2. CASE i \notin Elements(toExpand)
      BY <1>2, <1>6, <1>8, <2>3, <3>2
    <3>. QED
      BY <3>1, <3>2
  <2>. QED
    BY <1>7, <2>2, <2>3 DEF SoFar
<1>10. CASE EndSearch
  <2>1. toExpand = <<>> /\ pc' = "get"
    BY <1>10 DEF EndSearch
  <2>2. Elements(toExpand) = {}
    BY <2>1 DEF Elements
  <2>3. TextSoFar(l)'
    BY <2>1 DEF TextSoFar, Searching
  <2>4. \A i \in DOMAIN uses'[l] : BodySoFar(l, i)'
    BY <1>2, <1>6, <1>8, <2>2
  <2>. QED
    BY <1>7, <2>3, <2>4 DEF SoFar
<1>. QED
  BY <1>9, <1>10

LEMMA SearchedKept ==
    Typed /\ Typed' /\ ScannedText /\ OwnLineFirst /\ SearchedSoFar /\ [Next]_vars => SearchedSoFar'
<1>. SUFFICES ASSUME Typed, Typed', ScannedText, OwnLineFirst, SearchedSoFar, [Next]_vars
              PROVE  SearchedSoFar'
  OBVIOUS
<1>1. (SearchedSoFar <=> \A l \in cached : Loc(l).scope => SoFar(l))'
  BY SearchedByLocation, PTL
<1>2. CASE pc # "search" /\ pc' # "search"
  BY <1>2, OtherStepsSoFar
<1>3. CASE LookUp \/ ExpandNext \/ EndSearch
  <2>1. cached' = cached /\ pc = "search" /\ (todo' = todo \/ pc' # "search")
    BY <1>3 DEF LookUp, ExpandNext, EndSearch, TextDone, memory
  <2>2. ASSUME NEW l \in cached', (Loc(l).scope)'
        PROVE  SoFar(l)'
    BY <1>3, <2>1, <2>2, OthersSoFar, LookUpSoFar, NextTextSoFar
  <2>. QED
    BY <1>1, <2>2
<1>4. ASSUME NEW m \in Locations, StartSearch(m)
      PROVE  SearchedSoFar'
  <2>1. cached' = cached \cup {m} /\ m = Head(todo) /\ todo' = todo /\ uses' = uses
    BY <1>4 DEF StartSearch, Getting
  <2>2. ASSUME NEW l \in cached', (Loc(l).scope)'
        PROVE  SoFar(l)'
    BY <1>4, <2>1, <2>2, OthersSoFar, StartSoFar
  <2>. QED
    BY <1>1, <2>2
<1>5. CASE UNCHANGED vars
  <2>1. /\ program' = program /\ defs' = defs /\ cached' = cached /\ uses' = uses /\ off' = off /\ todo' = todo
        /\ pc' = pc /\ toExpand' = toExpand /\ scan' = scan
    BY <1>5 DEF vars, memory, search
  <2>2. ASSUME NEW l \in cached', (Loc(l).scope)'
        PROVE  SoFar(l)'
    <3>1. SoFar(l)
      BY <2>1, <2>2, SearchedByLocation DEF Loc
    <3>2. TextSoFar(l)'
      BY <2>1, <3>1 DEF SoFar, TextSoFar, Searching, MacrosBefore, NamesAt, Unit, Loc
    <3>3. LineSoFar(l)'
      BY <2>1, <3>1 DEF SoFar, LineSoFar, Searching, MacrosIn, NamesAt, Unit, Loc, extractLineFromLocation
    <3>4. ASSUME NEW i \in DOMAIN uses'[l]
          PROVE  BodySoFar(l, i)'
      <4>1. BodySoFar(l, i)
        BY <2>1, <3>1 DEF SoFar
      <4>2. /\ BodyOf(l, i)' = BodyOf(l, i) /\ Unit(l)' = Unit(l) /\ NamesAt(l)' = NamesAt(l)
            /\ Elements(toExpand)' = Elements(toExpand) /\ (Searching(l)' <=> Searching(l))
        BY <2>1 DEF BodyOf, Def, Unit, Loc, NamesAt, Elements, Searching
      <4>3. MacrosIn(Unit(l), BodyOf(l, i))' = MacrosIn(Unit(l), BodyOf(l, i))
        BY <2>1, <4>2 DEF MacrosIn
      <4>. QED
        BY <2>1, <4>1, <4>2, <4>3 DEF BodySoFar
    <3>. QED
      BY <3>2, <3>3, <3>4 DEF SoFar
  <2>. QED
    BY <1>1, <2>2
<1>6. \/ pc # "search" /\ pc' # "search"
      \/ LookUp \/ ExpandNext \/ EndSearch
      \/ \E m \in Locations : StartSearch(m)
      \/ UNCHANGED vars
  BY DEF Next, Ask, Work, FindDifference, FindArguments, GetWithoutSearch, StartCollecting, CollectFile, FilesCollected,
         GoOnForEver, TryLineBefore, Report, GiveCallArguments, GiveAsmArguments, Getting, Got
<1>. QED
  BY <1>2, <1>3, <1>4, <1>5, <1>6

\* For any program, and whatever is asked in whatever order: once a location is done, its uses
\* have every macro of its statement and of the bodies of these macros, as they read with their
\* arguments, whichever was found first (getAllMacroUsesAtLocation, with its caches).
THEOREM NothingMissed == Spec => []NoMacroMissed
<1>. DEFINE Inv == Typed /\ ScannedText /\ OwnLineFirst /\ SearchedSoFar
<1>1. Init => Inv
  <2>1. Init => OwnLineFirst /\ SearchedSoFar
    BY DEF Init, OwnLineFirst, SearchedSoFar
  <2>. QED
    BY <2>1, InitTyped, InitStacks
<1>2. Inv /\ [Next]_vars => Inv'
  BY TypedKept, ScannedKept, OwnLineFirstKept, SearchedKept
<1>3. Inv => NoMacroMissed
  BY DEF NoMacroMissed, SearchedSoFar
<1>. HIDE DEF Inv
<1>. QED
  BY <1>1, <1>2, <1>3, PTL DEF Spec


-----------------------------------------------------------------------------
(* What has been searched when the line before is searched too. *)

Covered(l, o) == MacrosIn(Unit(l), extractLineFromLocation(l, o)) \subseteq NamesAt(l)

LineBefore ==
    pc # "idle" /\ off # 0 =>
        /\ {query.l, query.r} \subseteq cached
        /\ \A l \in {query.l, query.r} : Loc(l).scope => l \in Elements(todo) \/ Covered(l, -1)
        /\ pc = "search" /\ scan.parent # 0 => Covered(Head(todo), -1)

LEMMA CoveredStays ==
    ASSUME Typed, Stay, NEW l \in Locations, Unit(l) \in known, NEW o, Covered(l, o)
    PROVE  Covered(l, o)'
<1>1. /\ MacrosIn(Unit(l), extractLineFromLocation(l, o))' = MacrosIn(Unit(l), extractLineFromLocation(l, o))
      /\ NamesAt(l) \subseteq NamesAt(l)'
  BY StayEffect
<1>. QED
  BY <1>1 DEF Covered

\* When the text is done, so is the line before: it was the text, or was done before.
LEMMA LineBeforeDone ==
    ASSUME Typed, ScannedText, SearchedSoFar, LineBefore, TextDone, off # 0
    PROVE  Covered(Head(todo), -1)
<1>. DEFINE l == Head(todo)
<1>1. pc = "search" /\ scan.at > Len(scan.text.toks) /\ off = -1
  BY DEF TextDone, Typed, TypeOK
<1>2. CASE scan.parent # 0
  BY <1>1, <1>2 DEF LineBefore
<1>3. CASE scan.parent = 0
  <2>1. l \in cached /\ Loc(l).scope /\ Searching(l) /\ scan.text.toks \in Seq(Tokens(AnyName)) /\ scan.at \in Nat
    BY <1>1, SearchFacts DEF Searching
  <2>2. TextSoFar(l)
    BY <2>1, SearchedByLocation DEF SoFar
  <2>3. MacrosBefore(Unit(l), scan.text, scan.at) = MacrosIn(Unit(l), scan.text)
    BY <1>1, <2>1, AllBefore
  <2>4. scan.text = extractLineFromLocation(l, -1)
    BY <1>1, <1>3 DEF ScannedText
  <2>. QED
    BY <2>1, <2>2, <2>3, <2>4 DEF TextSoFar, Covered
<1>. QED
  BY <1>2, <1>3

LEMMA LineBeforeKept ==
    ASSUME Typed, Typed', ScannedText, OwnLineFirst, SearchedSoFar, LineBefore, [Next]_vars
    PROVE  LineBefore'
<1>1. Stay
  BY StepsStay
<1>. SUFFICES ASSUME pc' # "idle", off' # 0
              PROVE  /\ {query'.l, query'.r} \subseteq cached'
                     /\ \A l \in {query'.l, query'.r} : (Loc(l).scope)' => l \in Elements(todo') \/ Covered(l, -1)'
                     /\ pc' = "search" /\ scan'.parent # 0 => Covered(Head(todo), -1)'
  BY DEF LineBefore, Elements
<1>2. ASSUME NEW l \in cached, Loc(l).scope
      PROVE  l \in Locations /\ Unit(l) \in known
  BY <1>2 DEF Typed, TypeOK, CachedIsKnown
<1>3. ASSUME pc # "idle", off' = off, query' = query
      PROVE  /\ {query'.l, query'.r} \subseteq cached'
             /\ \A l \in {query.l, query.r} : (Loc(l).scope)' =>
                    Loc(l).scope /\ (l \in Elements(todo) \/ Covered(l, -1)')
  <2>1. {query.l, query.r} \subseteq cached
    BY <1>3 DEF LineBefore
  <2>2. ASSUME NEW l \in {query.l, query.r}, (Loc(l).scope)'
        PROVE  Loc(l).scope /\ (l \in Elements(todo) \/ Covered(l, -1)')
    <3>1. Loc(l).scope
      BY <1>1, <2>2 DEF Stay, Loc
    <3>2. l \in Locations /\ Unit(l) \in known
      BY <1>2, <2>1, <3>1
    <3>3. l \in Elements(todo) \/ Covered(l, -1)
      BY <1>3, <3>1 DEF LineBefore
    <3>. QED
      BY <1>1, <3>1, <3>2, <3>3, CoveredStays
  <2>. QED
    BY <1>1, <1>3, <2>1, <2>2 DEF Stay
<1>4. CASE (\E l \in Locations : StartCollecting(l) \/ StartSearch(l)) \/ CollectFile \/ FilesCollected \/ LookUp
           \/ GoOnForEver \/ UNCHANGED vars
  <2>1. /\ todo' = todo /\ query' = query /\ off' = off /\ pc # "idle"
        /\ pc' = "search" => scan'.parent = 0 \/ (pc = "search" /\ scan'.parent = scan.parent)
    <3>1. CASE \E l \in Locations : StartCollecting(l)
      BY <3>1 DEF StartCollecting, Getting
    <3>2. CASE \E l \in Locations : StartSearch(l)
      BY <3>2 DEF StartSearch, Getting
    <3>3. CASE LookUp
      <4>1. pc = "search" /\ scan' = [scan EXCEPT !.at = @ + 1] /\ todo' = todo /\ query' = query /\ off' = off
        BY <3>3 DEF LookUp
      <4>2. scan'.parent = scan.parent
        BY <4>1 DEF Typed, TypeOK
      <4>. QED
        BY <4>1, <4>2
    <3>4. CASE CollectFile \/ FilesCollected
      BY <3>4 DEF CollectFile, FilesCollected
    <3>5. CASE GoOnForEver \/ UNCHANGED vars
      BY <3>5 DEF GoOnForEver, vars, search
    <3>. QED
      BY <1>4, <3>1, <3>2, <3>3, <3>4, <3>5
  <2>2. ASSUME pc' = "search", scan'.parent # 0
        PROVE  Covered(Head(todo), -1)'
    <3>1. pc = "search" /\ scan.parent # 0
      BY <2>1, <2>2
    <3>2. Head(todo) \in Locations /\ Unit(Head(todo)) \in known /\ Covered(Head(todo), -1)
      BY <2>1, <3>1, SearchFacts DEF LineBefore
    <3>. DEFINE h == Head(todo)
    <3>3. Covered(h, -1) /\ h \in Locations /\ Unit(h) \in known /\ Head(todo') = h
      BY <2>1, <3>2
    <3>. QED
      BY <1>1, <2>1, <3>2, StayEffect DEF Covered, MacrosIn, Unit, Loc, NamesAt, Stay, extractLineFromLocation
  <2>. QED
    BY <1>3, <2>1, <2>2
<1>5. CASE \E l \in Locations : GetWithoutSearch(l)
  <2>1. /\ todo \in Seq(Locations) /\ todo # <<>> /\ todo' = Tail(todo) /\ query' = query /\ off' = off
        /\ pc = "get" /\ pc' = "get" /\ ~Loc(Head(todo)).scope
    BY <1>5 DEF GetWithoutSearch, Getting, MustSearch, Typed, TypeOK
  <2>2. Elements(todo) \subseteq {Head(todo)} \cup Elements(todo')
    BY <2>1, QueueFacts
  <2>. QED
    BY <1>3, <2>1, <2>2
<1>6. CASE ExpandNext \/ EndSearch
  <2>1. /\ TextDone /\ pc = "search" /\ query' = query /\ off' = off /\ todo \in Seq(Locations) /\ todo # <<>>
    BY <1>6 DEF ExpandNext, EndSearch, TextDone, Typed, TypeOK, Working
  <2>2. Covered(Head(todo), -1)
    BY <2>1, LineBeforeDone
  <2>. DEFINE h == Head(todo)
  <2>3. h \in Locations /\ Unit(h) \in known
    BY <2>1, SearchFacts
  <2>4. ASSUME NEW l \in Locations, l = h
        PROVE  Covered(l, -1)'
    BY <1>1, <2>2, <2>3, <2>4, CoveredStays
  <2>5. Elements(todo) \subseteq {h} \cup Elements(Tail(todo))
    BY <2>1, QueueFacts
  <2>6. CASE EndSearch
    <3>1. todo' = Tail(todo) /\ pc' = "get"
      BY <2>6 DEF EndSearch
    <3>2. \A l \in {query.l, query.r} : l \in Locations
      BY DEF Typed, TypeOK
    <3>. HIDE DEF h
    <3>. QED
      BY <1>3, <2>1, <2>4, <2>5, <3>1, <3>2
  <2>7. CASE ExpandNext
    <3>1. todo' = todo
      BY <2>7 DEF ExpandNext
    <3>2. Covered(Head(todo), -1)'
      BY <2>3, <2>4, <3>1 DEF Covered, MacrosIn, Unit, Loc, NamesAt, extractLineFromLocation
    <3>. QED
      BY <1>3, <2>1, <3>1, <3>2
  <2>. QED
    BY <1>6, <2>6, <2>7
<1>7. CASE TryLineBefore
  <2>1. /\ todo = <<>> /\ todo' = <<query.l, query.r>> /\ off = 0 /\ query.kind = "difference" /\ pc = "get"
        /\ pc' = "get" /\ cached' = cached /\ query' = query
    BY <1>7 DEF TryLineBefore, Got, memory
  <2>2. Elements(todo) = {}
    BY <2>1 DEF Elements
  <2>3. Elements(todo') = {query.l, query.r}
    BY <2>1, PairElements
  <2>. QED
    BY <2>1, <2>2, <2>3 DEF OwnLineFirst
<1>8. ~(Ask \/ Report \/ GiveCallArguments \/ GiveAsmArguments)
  BY DEF Ask, FindDifference, FindArguments, Report, GiveCallArguments, GiveAsmArguments
<1>9. \/ Ask \/ Report \/ GiveCallArguments \/ GiveAsmArguments
      \/ (\E l \in Locations : StartCollecting(l) \/ StartSearch(l)) \/ CollectFile \/ FilesCollected \/ LookUp
           \/ GoOnForEver \/ UNCHANGED vars
      \/ \E l \in Locations : GetWithoutSearch(l)
      \/ ExpandNext \/ EndSearch
      \/ TryLineBefore
  BY DEF Next, Work
<1>. QED
  BY <1>4, <1>5, <1>6, <1>7, <1>8, <1>9, Zenon


-----------------------------------------------------------------------------
(* Stacks end in the use they are of. *)

\* The uses of a location, up to the nth, have stacks.
StackOf(us, h, k) == Append(IF us[k].parent = 0 THEN <<>> ELSE h[us[k].parent], us[k].name)

LEMMA StacksExist ==
    ASSUME NEW us, NEW m \in Nat, \A k \in 1 .. m : us[k].parent \in 0 .. (k - 1) /\ us[k].name \in Names
    PROVE  \E h \in [1 .. m -> Seq(Names)] : h = [k \in 1 .. m |-> StackOf(us, h, k)]
<1>. DEFINE Good(h, i) == h = [k \in 1 .. i |-> StackOf(us, h, k)]
            T == {i \in Nat : i <= m => \E h \in [1 .. i -> Seq(Names)] : Good(h, i)}
<1>1. 0 \in T
  <2>. DEFINE h == [k \in 1 .. 0 |-> <<>>]
  <2>1. h \in [1 .. 0 -> Seq(Names)]
    BY EmptySeq
  <2>2. Good(h, 0)
    OBVIOUS
  <2>. QED
    BY <2>1, <2>2
<1>2. ASSUME NEW i \in Nat, i \in T
      PROVE  i + 1 \in T
  <2>. SUFFICES ASSUME i + 1 <= m
                PROVE  \E h \in [1 .. (i + 1) -> Seq(Names)] : Good(h, i + 1)
    <3>1. i + 1 \in Nat
      OBVIOUS
    <3>. HIDE DEF Good
    <3>. QED
      BY <3>1
  <2>1. PICK h \in [1 .. i -> Seq(Names)] : Good(h, i)
    BY <1>2
  <2>. DEFINE next == StackOf(us, h, i + 1)
              g == [k \in 1 .. (i + 1) |-> IF k = i + 1 THEN next ELSE h[k]]
  <2>2. \A k \in 1 .. (i + 1) : k \in 1 .. m /\ us[k].parent \in 0 .. (k - 1) /\ us[k].name \in Names
    OBVIOUS
  <2>3. next \in Seq(Names)
    <3>1. us[i + 1].name \in Names /\ us[i + 1].parent \in 0 .. i
      BY <2>2
    <3>2. (IF us[i + 1].parent = 0 THEN <<>> ELSE h[us[i + 1].parent]) \in Seq(Names)
      BY <3>1, EmptySeq
    <3>. QED
      BY <3>1, <3>2, AppendProperties DEF StackOf
  <2>. HIDE DEF next
  <2>4. g \in [1 .. (i + 1) -> Seq(Names)]
    BY <2>3
  <2>5. ASSUME NEW k \in 1 .. (i + 1)
        PROVE  g[k] = StackOf(us, g, k)
    <3>1. us[k].parent \in 0 .. (k - 1)
      BY <2>2
    <3>2. us[k].parent # 0 => g[us[k].parent] = h[us[k].parent]
      BY <3>1
    <3>3. StackOf(us, g, k) = StackOf(us, h, k)
      BY <3>2 DEF StackOf
    <3>4. CASE k = i + 1
      BY <3>3, <3>4 DEF next
    <3>5. CASE k \in 1 .. i
      <4>1. k # i + 1 /\ g[k] = h[k]
        BY <3>5
      <4>2. h[k] = StackOf(us, h, k)
        BY <2>1, <3>5
      <4>. QED
        BY <3>3, <4>1, <4>2
    <3>. QED
      BY <3>4, <3>5
  <2>6. Good(g, i + 1)
    BY <2>5
  <2>. HIDE DEF g, Good
  <2>. QED
    BY <2>4, <2>6
<1>. HIDE DEF T
<1>3. Nat \ T = {}
  <2>. SUFFICES ASSUME Nat \ T # {}
                PROVE  FALSE
    OBVIOUS
  <2>1. PICK i \in Nat \ T : \A j \in Nat \ T : i <= j
    BY LeastExists
  <2>2. i # 0 /\ i - 1 \in Nat
    BY <1>1, <2>1
  <2>3. i - 1 \in T
    BY <2>1, <2>2
  <2>4. i - 1 + 1 \in T
    BY <1>2, <2>2, <2>3
  <2>. QED
    BY <2>1, <2>4
<1>4. m \in T
  BY <1>3
<1>. QED
  BY <1>4 DEF T

LEMMA UsesOf ==
    ASSUME Typed, StacksLeadToTheLine, NEW l \in Locations
    PROVE  /\ uses[l] \in Seq(Uses) /\ Len(uses[l]) \in Nat /\ DOMAIN uses[l] = 1 .. Len(uses[l])
           /\ \A k \in 1 .. Len(uses[l]) : uses[l][k].parent \in 0 .. (k - 1) /\ uses[l][k].name \in Names
<1>1. uses[l] \in Seq(Uses)
  BY DEF Typed, TypeOK
<1>2. Len(uses[l]) \in Nat /\ DOMAIN uses[l] = 1 .. Len(uses[l])
  BY <1>1, LenProperties
<1>3. ASSUME NEW k \in 1 .. Len(uses[l])
      PROVE  uses[l][k].parent \in 0 .. (k - 1) /\ uses[l][k].name \in Names
  <2>1. uses[l][k] \in Uses
    BY <1>1, <1>2, ElementOfSeq
  <2>2. uses[l][k].parent \in Nat /\ uses[l][k].name \in Names
    BY <2>1 DEF Uses
  <2>3. uses[l][k].parent < k
    BY <1>2 DEF StacksLeadToTheLine
  <2>. QED
    BY <2>2, <2>3
<1>. QED
  BY <1>1, <1>2, <1>3

LEMMA StackEnds ==
    ASSUME Typed, StacksLeadToTheLine, NEW l \in Locations, NEW i \in DOMAIN uses[l]
    PROVE  Stack(l, i)[Len(Stack(l, i))] = uses[l][i].name
<1>. DEFINE us == uses[l]
            m == Len(us)
            Good(h) == h = [k \in DOMAIN us |-> StackOf(us, h, k)]
            R == CHOOSE h : Good(h)
<1>1. Stack(l, i) = R[i]
  BY DEF Stack, StackOf
<1>2. /\ m \in Nat /\ DOMAIN us = 1 .. m
      /\ \A k \in 1 .. m : us[k].parent \in 0 .. (k - 1) /\ us[k].name \in Names
  BY UsesOf
<1>. HIDE DEF us
<1>3. \E h : Good(h)
  BY <1>2, StacksExist
<1>4. Good(R)
  BY <1>3
<1>. HIDE DEF R
<1>5. ASSUME NEW k \in DOMAIN us
      PROVE  R[k] = StackOf(us, R, k)
  BY <1>4
<1>. DEFINE T == {k \in Nat : k \in DOMAIN us => R[k] \in Seq(Names)}
<1>6. Nat \ T = {}
  <2>. SUFFICES ASSUME Nat \ T # {}
                PROVE  FALSE
    OBVIOUS
  <2>. HIDE DEF T
  <2>1. PICK k \in Nat \ T : \A j \in Nat \ T : k <= j
    BY LeastExists DEF T
  <2>. USE DEF T
  <2>2. k \in DOMAIN us /\ R[k] \notin Seq(Names)
    BY <2>1
  <2>3. us[k].parent \in 0 .. (k - 1) /\ us[k].name \in Names
    BY <1>2, <2>2
  <2>. DEFINE p == us[k].parent
  <2>4. p # 0 => R[p] \in Seq(Names)
    <3>. SUFFICES ASSUME p # 0
                  PROVE  R[p] \in Seq(Names)
      OBVIOUS
    <3>1. p \in 1 .. m /\ p \in Nat /\ p < k
      BY <1>2, <2>2, <2>3
    <3>. HIDE DEF p
    <3>2. p \in T
      BY <2>1, <3>1
    <3>. QED
      BY <1>2, <3>1, <3>2
  <2>5. (IF p = 0 THEN <<>> ELSE R[p]) \in Seq(Names)
    BY <2>4, EmptySeq
  <2>. DEFINE before == IF p = 0 THEN <<>> ELSE R[p]
  <2>6. R[k] = Append(before, us[k].name)
    BY <1>5, <2>2 DEF StackOf
  <2>. HIDE DEF before
  <2>7. before \in Seq(Names)
    BY <2>5 DEF before
  <2>8. R[k] \in Seq(Names)
    BY <2>3, <2>6, <2>7, AppendProperties
  <2>. QED
    BY <2>2, <2>8
<1>. DEFINE before == IF us[i].parent = 0 THEN <<>> ELSE R[us[i].parent]
<1>7. i \in DOMAIN us
  BY DEF us
<1>8. us[i].parent \in 0 .. (i - 1) /\ us[i].name \in Names
  BY <1>2, <1>7
<1>9. before \in Seq(Names)
  <2>1. us[i].parent # 0 => us[i].parent \in Nat /\ us[i].parent \in DOMAIN us
    BY <1>2, <1>7, <1>8
  <2>. QED
    BY <1>6, <2>1, EmptySeq
<1>10. R[i] = Append(before, us[i].name)
  BY <1>5, <1>7 DEF StackOf
<1>. HIDE DEF before
<1>11. R[i][Len(R[i])] = us[i].name
  BY <1>8, <1>9, <1>10, AppendProperties
<1>. QED
  BY <1>1, <1>11 DEF us

-----------------------------------------------------------------------------
(* The uses that are found are the macros of the statement. *)

\* A body in which nothing is joined reads as it is written.
LEMMA BodyUnchanged ==
    ASSUME Typed, PastesNothing, NEW l \in Locations, NEW i \in DOMAIN uses[l]
    PROVE  BodyOf(l, i) = Def(l, i).body
<1>. DEFINE text == Def(l, i).body
            params == Def(l, i).params
            args == uses[l][i].args
<1>1. Def(l, i) \in Definitions /\ Unit(l) \in known /\ uses[l][i] \in Uses
  BY UseTyped
<1>2. uses[l][i].name \in Names /\ defs[Unit(l)][uses[l][i].name] = Def(l, i) /\ Def(l, i) # NoDef
  BY <1>1, NoDefIsNone DEF Uses, Def
<1>3. \A k \in DOMAIN text.toks : ~text.toks[k].glue
  BY <1>1, <1>2 DEF PastesNothing
<1>4. text \in Texts(Names)
  BY <1>1 DEF Definitions
<1>. HIDE DEF text, params, args
<1>5. params \in Seq(Names) /\ args \in Seq(Names)
  BY <1>1, <1>2 DEF Definitions, Uses, params, args
<1>6. expandCompositeMacroNames(params, args, text) = text
  BY <1>3, <1>4, <1>5, CompositeIsText
<1>. QED
  BY <1>6 DEF BodyOf, text, params, args

LEMMA NamesTyped ==
    ASSUME Typed, NEW l \in Locations, NEW i \in DOMAIN uses[l]
    PROVE  uses[l][i].name \in Names /\ Def(l, i) # NoDef /\ Loc(l).scope
<1>1. uses[l][i] \in Uses /\ Loc(l).scope
  BY UseTyped
<1>. QED
  BY <1>1 DEF Uses, Typed, CachedIsKnown

\* What a statement uses is found, ...
LEMMA UsedAreFound ==
    ASSUME Typed, NoMacroMissed, PastesNothing, NEW l \in cached, ~Searching(l), NEW o, Covered(l, o)
    PROVE  MacrosUsed(l, o) \subseteq NamesAt(l)
<1>1. l \in Locations
  BY DEF Typed, TypeOK
<1>2. CASE Loc(l).scope
  <2>. DEFINE u == Unit(l)
              all == {n \in Names : defs[u][n] # NoDef}
              S == NamesAt(l)
  <2>1. S \in SUBSET all
    BY <1>1, NamesTyped DEF NamesAt, Def
  <2>2. ASSUME NEW n \in S
        PROVE  MacrosIn(u, defs[u][n].body) \subseteq S
    <3>1. PICK i \in DOMAIN uses[l] : n = uses[l][i].name
      BY DEF NamesAt
    <3>2. MacrosIn(Unit(l), BodyOf(l, i)) \subseteq NamesAt(l)
      BY <1>2 DEF NoMacroMissed
    <3>3. BodyOf(l, i) = defs[u][n].body
      BY <1>1, <3>1, BodyUnchanged DEF Def
    <3>. QED
      BY <3>2, <3>3
  <2>3. MacrosIn(u, extractLineFromLocation(l, o)) \subseteq S
    BY DEF Covered
  <2>. HIDE DEF u, S
  <2>4. MacrosUsed(l, o) \subseteq S
    BY <1>2, <2>1, <2>2, <2>3 DEF MacrosUsed, u
  <2>. QED
    BY <2>4 DEF S
<1>3. CASE ~Loc(l).scope
  BY <1>3 DEF MacrosUsed
<1>. QED
  BY <1>2, <1>3

\* ... and nothing else is, but for the statement before.
LEMMA FoundAreUsed ==
    ASSUME Typed, StacksLeadToTheLine, PastesNothing, NEW l \in Locations
    PROVE  NamesAt(l) \subseteq MacrosAround(l)
<1>. DEFINE u == Unit(l)
            all == {n \in Names : defs[u][n] # NoDef}
            Closed(o) == {S \in SUBSET all : /\ MacrosIn(u, extractLineFromLocation(l, o)) \subseteq S
                                             /\ \A n \in S : MacrosIn(u, defs[u][n].body) \subseteq S}
            Bad == {i \in DOMAIN uses[l] : uses[l][i].name \notin MacrosAround(l)}
<1>1. Loc(l).scope => \A o : MacrosUsed(l, o) = {n \in all : \A S \in Closed(o) : n \in S}
  BY DEF MacrosUsed
<1>2. ASSUME NEW i \in DOMAIN uses[l], i \in Bad, \A j \in Bad : i <= j
      PROVE  FALSE
  <2>. DEFINE n == uses[l][i].name
              p == uses[l][i].parent
  <2>1. n \in all /\ Loc(l).scope
    BY NamesTyped DEF Def
  <2>2. p \in 0 .. (i - 1) /\ i \in 1 .. Len(uses[l]) /\ DOMAIN uses[l] = 1 .. Len(uses[l]) /\ Len(uses[l]) \in Nat
    BY UsesOf
  <2>3. CASE p = 0
    <3>1. PICK o \in {0, -1} : n \in MacrosIn(u, extractLineFromLocation(l, o))
      BY <2>3 DEF StacksLeadToTheLine
    <3>2. n \in MacrosUsed(l, o)
      BY <1>1, <2>1, <3>1
    <3>. QED
      BY <1>2, <3>2 DEF MacrosAround
  <2>4. CASE p # 0
    <3>. DEFINE m == uses[l][p].name
    <3>1. p \in DOMAIN uses[l] /\ p < i
      BY <2>2, <2>4
    <3>2. n \in MacrosIn(u, BodyOf(l, p))
      BY <2>4 DEF StacksLeadToTheLine
    <3>3. BodyOf(l, p) = defs[u][m].body
      BY <3>1, BodyUnchanged DEF Def
    <3>4. p \notin Bad
      <4>. HIDE DEF Bad
      <4>. QED
        BY <1>2, <2>2, <3>1
    <3>5. m \in MacrosUsed(l, 0) \cup MacrosUsed(l, -1)
      BY <3>1, <3>4 DEF MacrosAround
    <3>6. PICK o \in {0, -1} : m \in MacrosUsed(l, o)
      BY <3>5
    <3>7. n \in MacrosUsed(l, o)
      <4>. HIDE DEF m, n, u, p
      <4>1. ASSUME NEW S \in Closed(o)
            PROVE  n \in S
        <5>1. m \in S
          BY <1>1, <2>1, <3>6
        <5>. QED
          BY <3>2, <3>3, <5>1
      <4>. QED
        BY <1>1, <2>1, <4>1
    <3>. QED
      BY <1>2, <3>7 DEF MacrosAround
  <2>. QED
    BY <2>3, <2>4
<1>3. Bad = {}
  <2>. SUFFICES ASSUME Bad # {}
                PROVE  FALSE
    OBVIOUS
  <2>1. Bad \in SUBSET Nat
    BY UsesOf
  <2>. HIDE DEF Bad
  <2>2. PICK i \in Bad : \A j \in Bad : i <= j
    BY <2>1, LeastExists
  <2>3. i \in DOMAIN uses[l]
    BY DEF Bad
  <2>. QED
    BY <1>2, <2>2, <2>3
<1>. QED
  BY <1>3 DEF NamesAt


\* What is reported: the macros of both that differ.
DifferingNames(l, r) == {n \in NamesAt(l) \cap NamesAt(r) : defs[Unit(l)][n].body # defs[Unit(r)][n].body}
ReportIs ==
    pc = "idle" /\ query.kind = "difference" =>
        /\ {query.l, query.r} \subseteq cached
        /\ {s[1][Len(s[1])] : s \in answer.macros} = DifferingNames(query.l, query.r)
        /\ DifferingNames(query.l, query.r) = {} =>
              \A l \in {query.l, query.r} : Loc(l).scope => Covered(l, -1)

LEMMA DifferingAreNamed ==
    ASSUME NEW l \in Locations, NEW r \in Locations
    PROVE  {uses[l][u[1]].name : u \in Differing(l, r)} = DifferingNames(l, r)
<1>1. ASSUME NEW u \in Differing(l, r)
      PROVE  uses[l][u[1]].name \in DifferingNames(l, r)
  <2>1. u[1] \in DOMAIN uses[l] /\ u[2] \in DOMAIN uses[r] /\ uses[l][u[1]].name = uses[r][u[2]].name
        /\ Def(l, u[1]).body # Def(r, u[2]).body
    BY DEF Differing
  <2>. QED
    BY <2>1 DEF DifferingNames, NamesAt, Def
<1>2. ASSUME NEW n \in DifferingNames(l, r)
      PROVE  \E u \in Differing(l, r) : n = uses[l][u[1]].name
  <2>1. PICK i \in DOMAIN uses[l], j \in DOMAIN uses[r] : n = uses[l][i].name /\ n = uses[r][j].name
    BY DEF DifferingNames, NamesAt
  <2>2. <<i, j>> \in Differing(l, r)
    BY <2>1 DEF DifferingNames, Differing, Def
  <2>. QED
    BY <2>1, <2>2
<1>. QED
  BY <1>1, <1>2

LEMMA ReportStays ==
    ASSUME UNCHANGED <<program, defs, uses, query>>
    PROVE  /\ DifferingNames(query.l, query.r)' = DifferingNames(query.l, query.r)
           /\ \A l : (Loc(l).scope => Covered(l, -1))' <=> (Loc(l).scope => Covered(l, -1))
<1>1. \A l : Loc(l)' = Loc(l) /\ Unit(l)' = Unit(l) /\ NamesAt(l)' = NamesAt(l)
  BY DEF Loc, Unit, NamesAt
<1>2. \A l, o : extractLineFromLocation(l, o)' = extractLineFromLocation(l, o)
  BY DEF extractLineFromLocation
<1>3. ASSUME NEW l
      PROVE  MacrosIn(Unit(l), extractLineFromLocation(l, -1))' = MacrosIn(Unit(l), extractLineFromLocation(l, -1))
  <2>1. Unit(l)' = Unit(l) /\ extractLineFromLocation(l, -1)' = extractLineFromLocation(l, -1)
    BY <1>1, <1>2
  <2>. QED
    BY <2>1 DEF MacrosIn
<1>. QED
  BY <1>1, <1>3 DEF DifferingNames, NamesAt, Unit, Loc, Covered

LEMMA ReportGives ==
    ASSUME Typed, StacksLeadToTheLine, OwnLineFirst, LineBefore, Report
    PROVE  ReportIs'
<1>. DEFINE l == query.l
            r == query.r
<1>1. /\ pc = "get" /\ todo = <<>> /\ query.kind = "difference" /\ (Differing(l, r) # {} \/ off # 0)
      /\ UNCHANGED <<program, memory, query>>
      /\ answer' = [macros |-> {<<Stack(l, u[1]), Stack(r, u[2])>> : u \in Differing(l, r)},
                    call |-> FunctionOrMacro(l, r, query.names[1], query.names[2]), args |-> <<>>]
  BY DEF Report, Got
<1>2. l \in Locations /\ r \in Locations
  BY DEF Typed, TypeOK
<1>3. Elements(todo) = {}
  BY <1>1 DEF Elements
<1>4. {l, r} \subseteq cached
  BY <1>1, <1>3 DEF OwnLineFirst, LineBefore
<1>5. off # 0 => \A at \in {l, r} : Loc(at).scope => Covered(at, -1)
  BY <1>1, <1>3 DEF LineBefore
<1>. DEFINE Ends(s) == s[1][Len(s[1])]
<1>6. \A u \in Differing(l, r) : Ends(<<Stack(l, u[1]), Stack(r, u[2])>>) = uses[l][u[1]].name
  <2>1. ASSUME NEW u \in Differing(l, r)
        PROVE  Ends(<<Stack(l, u[1]), Stack(r, u[2])>>) = uses[l][u[1]].name
    <3>1. u[1] \in DOMAIN uses[l]
      BY DEF Differing
    <3>2. Stack(l, u[1])[Len(Stack(l, u[1]))] = uses[l][u[1]].name
      BY <1>2, <3>1, StackEnds
    <3>. QED
      BY <3>2
  <2>. QED
    BY <2>1
<1>7. {Ends(s) : s \in answer'.macros} = DifferingNames(l, r)
  <2>1. answer'.macros = {<<Stack(l, u[1]), Stack(r, u[2])>> : u \in Differing(l, r)}
    BY <1>1
  <2>. HIDE DEF Ends, l, r
  <2>2. {Ends(s) : s \in answer'.macros} = {uses[l][u[1]].name : u \in Differing(l, r)}
    BY <1>6, <2>1
  <2>. QED
    BY <1>2, <2>2, DifferingAreNamed
<1>8. DifferingNames(l, r) = {} => Differing(l, r) = {}
  <2>. HIDE DEF l, r
  <2>1. {uses[l][u[1]].name : u \in Differing(l, r)} = DifferingNames(l, r)
    BY <1>2, DifferingAreNamed
  <2>2. ASSUME NEW u \in Differing(l, r)
        PROVE  uses[l][u[1]].name \in DifferingNames(l, r)
    BY <2>1
  <2>. QED
    BY <2>2
<1>9. /\ DifferingNames(query.l, query.r)' = DifferingNames(l, r) /\ cached' = cached /\ query' = query
      /\ \A at : (Loc(at).scope => Covered(at, -1))' <=> (Loc(at).scope => Covered(at, -1))
  BY <1>1, ReportStays DEF memory
<1>10. DifferingNames(l, r) = {} => \A at \in {l, r} : (Loc(at).scope => Covered(at, -1))'
  BY <1>1, <1>5, <1>8, <1>9
<1>11. ({s[1][Len(s[1])] : s \in answer.macros})' = DifferingNames(l, r)
  BY <1>7
<1>. QED
  BY <1>4, <1>9, <1>10, <1>11 DEF ReportIs

LEMMA ReportIsKept ==
    ASSUME Typed, StacksLeadToTheLine, OwnLineFirst, LineBefore, ReportIs, [Next]_vars
    PROVE  ReportIs'
<1>1. CASE Report
  BY <1>1, ReportGives
<1>2. CASE UNCHANGED vars
  <2>1. UNCHANGED <<program, defs, uses, query>> /\ cached' = cached /\ pc' = pc /\ answer' = answer
    BY <1>2 DEF vars, memory
  <2>2. /\ DifferingNames(query.l, query.r)' = DifferingNames(query.l, query.r)
        /\ \A l : (Loc(l).scope => Covered(l, -1))' <=> (Loc(l).scope => Covered(l, -1))
    BY <2>1, ReportStays
  <2>. QED
    BY <2>1, <2>2 DEF ReportIs
<1>3. ASSUME ~Report, ~UNCHANGED vars, pc' = "idle", query'.kind = "difference"
      PROVE  FALSE
  <2>1. CASE Ask
    BY <1>3, <2>1 DEF Ask, FindDifference, FindArguments
  <2>2. CASE Work
    BY <1>3, <2>2 DEF Work, GetWithoutSearch, StartCollecting, StartSearch, Getting, CollectFile, FilesCollected, LookUp,
       ExpandNext, TextDone, GoOnForEver, EndSearch, TryLineBefore, Got, GiveCallArguments, GiveAsmArguments
  <2>. QED
    BY <1>3, <2>1, <2>2 DEF Next
<1>. QED
  BY <1>1, <1>2, <1>3 DEF ReportIs

\* For any program, and whatever has been asked before: when no body joins identifiers, the
\* macros that both statements use and whose bodies differ are reported; others are only if the
\* statements before use them, and nothing is reported only when there is none there either
\* (findMacroDifferences, with its retry at the line before).
THEOREM DifferencesAreReported == Spec => []ReportedDifferences
<1>. DEFINE Inv == /\ Typed /\ ScannedText /\ OwnLineFirst /\ SearchedSoFar
                   /\ StacksLeadToTheLine /\ LineBefore /\ ReportIs
<1>1. Init => Inv
  <2>1. Init => OwnLineFirst /\ SearchedSoFar /\ LineBefore /\ ReportIs
    BY DEF Init, NoQuery, OwnLineFirst, SearchedSoFar, LineBefore, ReportIs
  <2>. QED
    BY <2>1, InitTyped, InitStacks
<1>2. Inv /\ [Next]_vars => Inv'
  BY TypedKept, ScannedKept, OwnLineFirstKept, SearchedKept, StacksKept, LineBeforeKept, ReportIsKept
<1>3. ASSUME Inv
      PROVE  ReportedDifferences
  <2>. DEFINE l == query.l
              r == query.r
              Among(S) == {n \in S : defs[Unit(l)][n].body # defs[Unit(r)][n].body}
              reported == {s[1][Len(s[1])] : s \in answer.macros}
  <2>. SUFFICES ASSUME pc = "idle", query.kind = "difference", Loc(l).scope, Loc(r).scope, PastesNothing
                PROVE  /\ Among(MacrosUsed(l, 0) \cap MacrosUsed(r, 0)) \subseteq reported
                       /\ reported \subseteq Among(MacrosAround(l) \cap MacrosAround(r))
                       /\ reported = {} => Among(MacrosAround(l) \cap MacrosAround(r)) = {}
    BY DEF ReportedDifferences
  <2>1. l \in cached /\ r \in cached /\ reported = DifferingNames(l, r)
        /\ (DifferingNames(l, r) = {} => Covered(l, -1) /\ Covered(r, -1))
    BY <1>3 DEF ReportIs
  <2>2. l \in Locations /\ r \in Locations /\ ~Searching(l) /\ ~Searching(r)
    BY <1>3 DEF Typed, TypeOK, Searching
  <2>3. NoMacroMissed
    BY <1>3 DEF NoMacroMissed, SearchedSoFar
  <2>4. Covered(l, 0) /\ Covered(r, 0)
    BY <2>1, <2>2, <2>3 DEF NoMacroMissed, Covered
  <2>5. MacrosUsed(l, 0) \subseteq NamesAt(l) /\ MacrosUsed(r, 0) \subseteq NamesAt(r)
    BY <1>3, <2>1, <2>2, <2>3, <2>4, UsedAreFound
  <2>6. NamesAt(l) \subseteq MacrosAround(l) /\ NamesAt(r) \subseteq MacrosAround(r)
    BY <1>3, <2>2, FoundAreUsed
  <2>7. Covered(l, -1) /\ Covered(r, -1) => MacrosAround(l) \subseteq NamesAt(l) /\ MacrosAround(r) \subseteq NamesAt(r)
    BY <1>3, <2>1, <2>2, <2>3, <2>5, UsedAreFound DEF MacrosAround
  <2>. HIDE DEF l, r, reported
  <2>. QED
    BY <2>1, <2>5, <2>6, <2>7 DEF DifferingNames
<1>. HIDE DEF Inv
<1>4. Inv => ReportedDifferences
  BY <1>3
<1>. QED
  BY <1>1, <1>2, <1>4, PTL DEF Spec


-----------------------------------------------------------------------------
(* Inline assembly. *)

Own(l, i) == FirstMention(Text(l, i), Asm).code

LEMMA CandidatesTyped ==
    ASSUME Typed, NEW l \in Locations
    PROVE  /\ IsFiniteSet(Candidates(l))
           /\ \A i \in Candidates(l) : Own(l, i) \in Seq(Characters)
<1>1. uses[l] \in Seq(Uses)
  BY DEF Typed, TypeOK
<1>2. DOMAIN uses[l] = 1 .. Len(uses[l]) /\ Len(uses[l]) \in Nat
  BY <1>1, LenProperties
<1>3. IsFiniteSet(Inputs(l))
  <2>. DEFINE n == Len(uses[l])
  <2>0. n \in Nat
    BY <1>2
  <2>. HIDE DEF n
  <2>1. IsFiniteSet(1 .. n)
    <3>1. 1 \in Int /\ n \in Int
      BY <2>0
    <3>. QED
      BY ONLY <3>1, FS_Interval
  <2>2. IsFiniteSet({0} \cup 1 .. Len(uses[l]))
    BY <2>1, FS_Singleton, FS_Union DEF n
  <2>. QED
    BY <1>2, <2>2 DEF Inputs
<1>4. IsFiniteSet(Candidates(l))
  BY <1>3, FS_Subset DEF Candidates
<1>5. ASSUME NEW i \in Candidates(l)
      PROVE  Own(l, i) \in Seq(Characters)
  <2>. DEFINE text == Text(l, i)
              k == Min(Mentions(text, Asm))
  <2>1. i \in Inputs(l) /\ Mentions(text, Asm) # {}
    BY DEF Candidates
  <2>2. text \in Texts(Names)
    <3>1. CASE i = 0
      <4>1. extractLineFromLocation(l, 0) \in Texts(Names)
        BY LineTyped DEF Typed, TypeOK
      <4>. QED
        BY <3>1, <4>1 DEF Text
    <3>2. CASE i # 0
      <4>1. i \in DOMAIN uses[l]
        BY <2>1, <3>2 DEF Inputs
      <4>2. Def(l, i).body \in Texts(Names)
        BY <4>1, UseTyped DEF Definitions
      <4>. QED
        BY <3>2, <4>2 DEF Text
    <3>. QED
      BY <3>1, <3>2
  <2>3. text.toks \in Seq(Tokens(Names)) /\ DOMAIN text.toks \subseteq Nat
    BY <2>2, LenProperties DEF Texts
  <2>4. k \in DOMAIN text.toks
    <3>1. Mentions(text, Asm) \in SUBSET Nat /\ Mentions(text, Asm) \subseteq DOMAIN text.toks
      BY <2>3 DEF Mentions
    <3>. QED
      BY <2>1, <3>1, MinIsIn
  <2>5. text.toks[k] \in Tokens(Names)
    BY <2>3, <2>4, ElementOfSeq
  <2>. QED
    BY <2>5 DEF Own, FirstMention, Tokens
<1>. QED
  BY <1>4, <1>5

\* Texts that agree with the code up to the 0 behind its end are the same.
LEMMA SameCharacters ==
    ASSUME NEW own \in Seq(Characters), NEW code \in Seq(Characters),
           \A q \in 1 .. Len(code) + 1 : Character(own, q) = Character(code, q)
    PROVE  own = code
<1>. DEFINE m == Len(own)
            n == Len(code)
<1>1. m \in Nat /\ n \in Nat /\ DOMAIN own = 1 .. m /\ DOMAIN code = 1 .. n
  BY LenProperties
<1>2. \A q \in 1 .. m : own[q] \in Nat \ {0}
  BY <1>1, ElementOfSeq DEF Characters
<1>3. \A q \in 1 .. n : code[q] \in Nat \ {0}
  BY <1>1, ElementOfSeq DEF Characters
<1>. HIDE DEF m, n
<1>4. \A q : Character(own, q) = IF q <= m THEN own[q] ELSE 0
  BY DEF Character, m
<1>5. \A q : Character(code, q) = IF q <= n THEN code[q] ELSE 0
  BY DEF Character, n
<1>6. \A q \in 1 .. n + 1 : Character(own, q) = Character(code, q)
  BY DEF n
<1>7. ~(m > n)
  <2>. SUFFICES ASSUME m > n
                PROVE  FALSE
    OBVIOUS
  <2>1. n + 1 \in 1 .. m /\ n + 1 \in 1 .. n + 1
    BY <1>1
  <2>2. Character(own, n + 1) = own[n + 1] /\ Character(code, n + 1) = 0
    BY <1>1, <1>4, <1>5, <2>1
  <2>. QED
    BY <1>2, <1>6, <2>1, <2>2
<1>8. ~(m < n)
  <2>. SUFFICES ASSUME m < n
                PROVE  FALSE
    OBVIOUS
  <2>1. n \in 1 .. n /\ n \in 1 .. n + 1 /\ ~(n <= m)
    BY <1>1
  <2>2. Character(own, n) = 0 /\ Character(code, n) = code[n]
    BY <1>1, <1>4, <1>5, <2>1
  <2>. QED
    BY <1>3, <1>6, <2>1, <2>2
<1>9. m = n
  BY <1>1, <1>7, <1>8
<1>10. ASSUME NEW q \in 1 .. n
       PROVE  own[q] = code[q]
  <2>1. q <= m /\ q <= n /\ q \in 1 .. n + 1
    BY <1>1, <1>9
  <2>. QED
    BY <1>4, <1>5, <1>6, <2>1
<1>11. own = [q \in 1 .. m |-> own[q]] /\ code = [q \in 1 .. n |-> code[q]]
  BY <1>1
<1>. QED
  BY <1>9, <1>10, <1>11

\* The one text that has the assembly is not left out, and no other is left when all
\* characters have been looked at.
LEMMA OneIsLeft ==
    ASSUME Typed, NEW l \in Locations, NEW code \in Seq(Characters), code # <<>>,
           NEW i \in Candidates(l), Own(l, i) = code, \A j \in Candidates(l) : Own(l, j) = code => j = i
    PROVE  LET Few == {p \in 0 .. Len(code) + 1 : Cardinality(Agree(l, code, p)) <= 1}
           IN  Few # {} /\ Agree(l, code, Min(Few)) = {i}
<1>. DEFINE Few == {p \in 0 .. Len(code) + 1 : Cardinality(Agree(l, code, p)) <= 1}
            n == Len(code)
<1>1. n \in Nat
  BY LenProperties
<1>2. \A p : Agree(l, code, p) = IF p = 0 THEN Candidates(l)
                                 ELSE {j \in Candidates(l) : Own(l, j) # <<>> /\ \A q \in 1 .. p : Character(Own(l, j), q) = Character(code, q)}
  BY DEF Agree, Own
<1>3. ASSUME NEW p
      PROVE  i \in Agree(l, code, p) /\ Agree(l, code, p) \subseteq Candidates(l)
  BY <1>2
<1>4. ASSUME NEW p
      PROVE  IsFiniteSet(Agree(l, code, p))
  BY <1>3, CandidatesTyped, FS_Subset
<1>5. n + 1 \in Few
  <2>1. ASSUME NEW j \in Agree(l, code, n + 1)
        PROVE  j = i
    <3>1. j \in Candidates(l) /\ \A q \in 1 .. n + 1 : Character(Own(l, j), q) = Character(code, q)
      BY <1>1, <1>2
    <3>2. Own(l, j) \in Seq(Characters)
      BY <3>1, CandidatesTyped
    <3>3. Own(l, j) = code
      BY <3>1, <3>2, SameCharacters
    <3>. QED
      BY <3>1, <3>3
  <2>2. Agree(l, code, n + 1) = {i}
    BY <1>3, <2>1
  <2>3. Cardinality(Agree(l, code, n + 1)) = 1
    BY <2>2, FS_Singleton
  <2>. QED
    BY <1>1, <2>3
<1>6. Min(Few) \in Few
  <2>1. Few \in SUBSET Nat
    BY <1>1
  <2>. HIDE DEF Few
  <2>. QED
    BY <1>5, <2>1, MinIsIn
<1>. DEFINE A == Agree(l, code, Min(Few))
<1>7. Cardinality(A) <= 1 /\ i \in A /\ IsFiniteSet(A)
  BY <1>3, <1>4, <1>6
<1>. HIDE DEF A
<1>8. A = {i}
  <2>1. IsFiniteSet(A \ {i}) /\ Cardinality(A \ {i}) = Cardinality(A) - 1 /\ Cardinality(A) \in Nat
    BY <1>7, FS_RemoveElement, FS_CardinalityType
  <2>2. Cardinality(A \ {i}) = 0
    BY <1>7, <2>1, FS_CardinalityType
  <2>3. A \ {i} = {}
    BY <2>1, <2>2, FS_EmptySet
  <2>. QED
    BY <1>7, <2>3
<1>. QED
  BY <1>5, <1>8 DEF A

LEMMA AsmStays ==
    ASSUME UNCHANGED <<program, defs, uses>>, NEW l
    PROVE  /\ Found(l, 0)' = Found(l, 0) /\ Candidates(l)' = Candidates(l)
           /\ \A i : FirstMention(Text(l, i), Asm)' = FirstMention(Text(l, i), Asm)
<1>1. Found(l, 0)' = Found(l, 0)
  BY DEF Found, Loc, File
<1>2. Inputs(l)' = Inputs(l)
  BY DEF Inputs
<1>3. \A i : Text(l, i)' = Text(l, i)
  BY DEF Text, extractLineFromLocation, Def, Unit, Loc
<1>4. \A i : Mentions(Text(l, i), Asm)' = Mentions(Text(l, i), Asm)
  BY <1>3 DEF Mentions
<1>5. Candidates(l)' = Candidates(l)
  BY <1>2, <1>4 DEF Candidates
<1>6. \A i : FirstMention(Text(l, i), Asm)' = FirstMention(Text(l, i), Asm)
  BY <1>3, <1>4 DEF FirstMention
<1>. QED
  BY <1>1, <1>5, <1>6

\* For any program, and any macros of the line that have assembly: if the assembly of one text
\* only is the one that is looked for, its arguments are given, however long the others agree
\* with it, and even when they are the same up to their end
\* (findInlineAssemblySourceArguments).
THEOREM AssemblyIsRight == Spec => []RightAssembly
<1>. DEFINE Given == pc = "idle" /\ query.kind = "asm" /\ query.code # <<>> /\ Found(query.l, 0) =>
                \A i \in Candidates(query.l) :
                    Own(query.l, i) = query.code /\ (\A j \in Candidates(query.l) : Own(query.l, j) = query.code => j = i)
                        => answer.args = FirstMention(Text(query.l, i), Asm).args
<1>1. Init => Typed /\ Given
  BY InitTyped DEF Init, NoQuery
<1>2. Typed /\ Given /\ [Next]_vars => Typed' /\ Given'
  <2>. SUFFICES ASSUME Typed, Given, [Next]_vars
                PROVE  Given'
    BY TypedKept
  <2>1. ASSUME UNCHANGED <<program, defs, uses, query>>
        PROVE  /\ query' = query
               /\ Found(query.l, 0)' <=> Found(query.l, 0)
               /\ (\A i \in Candidates(query.l) :
                    Own(query.l, i) = query.code /\ (\A j \in Candidates(query.l) : Own(query.l, j) = query.code => j = i)
                        => answer.args = FirstMention(Text(query.l, i), Asm).args)'
                  <=> \A i \in Candidates(query.l) :
                        Own(query.l, i) = query.code /\ (\A j \in Candidates(query.l) : Own(query.l, j) = query.code => j = i)
                            => answer'.args = FirstMention(Text(query.l, i), Asm).args
    <3>1. ASSUME NEW l, l = query.l
          PROVE  /\ Found(l, 0)' = Found(l, 0) /\ Candidates(l)' = Candidates(l)
                 /\ \A i : FirstMention(Text(l, i), Asm)' = FirstMention(Text(l, i), Asm)
                 /\ \A i : Own(l, i)' = Own(l, i)
      BY <2>1, AsmStays DEF Own
    <3>2. PICK l : l = query.l
      OBVIOUS
    <3>3. l = query'.l /\ query' = query
      BY <2>1, <3>2
    <3>. QED
      BY <3>1, <3>2, <3>3 DEF Found, Loc, File
  <2>2. CASE UNCHANGED vars
    <3>1. UNCHANGED <<program, defs, uses, query>> /\ pc' = pc /\ answer' = answer
      BY <2>2 DEF vars, memory
    <3>. QED
      BY <2>1, <3>1
  <2>3. CASE GiveAsmArguments
    <3>1. UNCHANGED <<program, defs, uses, query>> /\ query.kind = "asm"
      BY <2>3 DEF GiveAsmArguments, Got, memory
    <3>2. query.l \in Locations /\ query.code \in Seq(Characters)
      BY DEF Typed, TypeOK
    <3>3. ASSUME query.code # <<>>, NEW i \in Candidates(query.l), Own(query.l, i) = query.code,
                 \A j \in Candidates(query.l) : Own(query.l, j) = query.code => j = i
          PROVE  answer'.args = FirstMention(Text(query.l, i), Asm).args
      <4>. DEFINE Few == {p \in 0 .. Len(query.code) + 1 : Cardinality(Agree(query.l, query.code, p)) <= 1}
      <4>1. Few # {} /\ Agree(query.l, query.code, Min(Few)) = {i}
        BY <3>2, <3>3, OneIsLeft
      <4>. HIDE DEF Few
      <4>2. answer' = [NoAnswer EXCEPT !.args = FirstMention(Text(query.l, i), Asm).args]
        BY <2>3, <4>1 DEF GiveAsmArguments, Few
      <4>. QED
        BY <4>2 DEF NoAnswer
    <3>. QED
      BY <2>1, <3>1, <3>3
  <2>4. ASSUME ~GiveAsmArguments, ~UNCHANGED vars, pc' = "idle", query'.kind = "asm", query'.code # <<>>, Found(query.l, 0)'
        PROVE  FALSE
    <3>1. CASE Ask
      <4>1. ASSUME NEW l \in Locations, NEW n, NEW code, FindArguments(l, n, code)
            PROVE  FALSE
        <5>1. query' = [kind |-> IF n = NoName THEN "asm" ELSE "call", l |-> l, r |-> l, names |-> <<n, n>>, code |-> code]
              /\ program' = program /\ ~(Found(l, 0) /\ (n # NoName \/ code # <<>>))
          BY <2>4, <4>1 DEF FindArguments
        <5>2. query'.l = l /\ query'.code = code
          BY <5>1
        <5>3. Found(query.l, 0)' <=> Found(l, 0)
          BY <5>1, <5>2 DEF Found, Loc, File
        <5>. QED
          BY <2>4, <5>1, <5>2, <5>3
      <4>. QED
        BY <2>4, <3>1, <4>1 DEF Ask, FindDifference
    <3>2. CASE Work
      BY <2>4, <3>2 DEF Work, GetWithoutSearch, StartCollecting, StartSearch, Getting, CollectFile, FilesCollected, LookUp,
         ExpandNext, TextDone, GoOnForEver, EndSearch, TryLineBefore, Got, GiveCallArguments, Report
    <3>. QED
      BY <2>4, <3>1, <3>2 DEF Next
  <2>. QED
    BY <2>2, <2>3, <2>4
<1>3. Given => RightAssembly
  BY DEF RightAssembly, Own
<1>. HIDE DEF Given
<1>4. Typed /\ Given => RightAssembly
  BY <1>3
<1>. QED
  BY <1>1, <1>2, <1>4, PTL DEF Spec

=============================================================================
