---------------------- MODULE SessionRefinement_proofs ----------------------
(***************************************************************************)
(* Proof that a session implements IndependentCompare: the graph and the   *)
(* cache kept from one comparison to the next change no result.            *)
(*                                                                         *)
(* The programs are those without variants, inlined calls and header       *)
(* functions, and neither a repeated run of SimpLL nor a link fails; each  *)
(* of these lets an earlier comparison show.  The graph of the session is  *)
(* then always complete: what it has a definitive result of, it has the    *)
(* calls and the callees of too.  A search of any complete graph finds the *)
(* same results, whichever comparisons the graph was put together from.    *)
(***************************************************************************)
EXTENDS CompareSession_proofs, NaturalsInduction, WellFoundedInduction

-----------------------------------------------------------------------------
(* Induction and recursion over the natural numbers, for sets and functions. *)

\* A set of numbers that is not empty has a least element.
LEMMA LeastExists ==
    ASSUME NEW S \in SUBSET Nat, S # {}
    PROVE  \E n \in S : \A m \in S : n <= m
<1>. DEFINE R == OpToRel(<, Nat)
<1>1. IsWellFoundedOn(R, Nat)
  BY NatLessThanWellFounded
<1>2. PICK n \in S : \A m \in S : <<m, n>> \notin R
  BY <1>1, WFMin
<1>3. ASSUME NEW m \in S, m < n
      PROVE  <<m, n>> \in R
  BY <1>3 DEF OpToRel
<1>. HIDE DEF R
<1>4. ASSUME NEW m \in S
      PROVE  n <= m
  <2>1. ~(m < n)
    BY <1>2, <1>3
  <2>2. m \in Nat /\ n \in Nat
    OBVIOUS
  <2>. QED
    BY <2>1, <2>2
<1>. QED
  BY <1>4

\* A set that holds 0, and the successor of each of its elements, has them all.
LEMMA AllNumbers ==
    ASSUME NEW S, 0 \in S, \A n \in Nat : n \in S => n + 1 \in S
    PROVE  Nat \subseteq S
<1>. SUFFICES ASSUME Nat \ S # {}
              PROVE  FALSE
  OBVIOUS
<1>1. PICK n \in Nat \ S : \A m \in Nat \ S : n <= m
  BY LeastExists
<1>2. n # 0 /\ n - 1 \in Nat
  BY <1>1
<1>3. n - 1 \in S
  BY <1>1, <1>2
<1>4. n - 1 + 1 \in S
  BY <1>2, <1>3
<1>. QED
  BY <1>1, <1>4

\* The values of f, from a: there is a function of the steps to the values.
Steps(S, a, f, n) == {h \in [0..n -> S] : h[0] = a /\ \A i \in 1..n : h[i] = f[h[i - 1]]}

LEMMA StepsAgree ==
    ASSUME NEW S, NEW a \in S, NEW f \in [S -> S], NEW m \in Nat, NEW n \in Nat,
           NEW g \in Steps(S, a, f, m), NEW h \in Steps(S, a, f, n),
           NEW k \in Nat, k <= m, k <= n
    PROVE  g[k] = h[k]
<1>. DEFINE T == {i \in Nat : i <= m /\ i <= n => g[i] = h[i]}
<1>1. 0 \in T
  BY DEF Steps
<1>2. ASSUME NEW i \in Nat, i \in T
      PROVE  i + 1 \in T
  <2>. SUFFICES ASSUME i + 1 <= m, i + 1 <= n
                PROVE  g[i + 1] = h[i + 1]
    OBVIOUS
  <2>1. i + 1 \in 1..m /\ i + 1 \in 1..n /\ i + 1 - 1 = i
    OBVIOUS
  <2>2. g[i + 1] = f[g[i]] /\ h[i + 1] = f[h[i]]
    BY <2>1 DEF Steps
  <2>. QED
    BY <1>2, <2>2
<1>. HIDE DEF T
<1>3. k \in T
  BY <1>1, <1>2, AllNumbers
<1>. QED
  BY <1>3 DEF T

LEMMA StepsExist ==
    ASSUME NEW S, NEW a \in S, NEW f \in [S -> S], NEW n \in Nat
    PROVE  Steps(S, a, f, n) # {}
<1>. DEFINE T == {i \in Nat : Steps(S, a, f, i) # {}}
<1>1. 0 \in T
  <2>1. [i \in 0..0 |-> a] \in Steps(S, a, f, 0)
    BY DEF Steps
  <2>. QED
    BY <2>1
<1>2. ASSUME NEW i \in Nat, i \in T
      PROVE  i + 1 \in T
  <2>1. PICK h \in [0..i -> S] : h[0] = a /\ \A j \in 1..i : h[j] = f[h[j - 1]]
    BY <1>2 DEF Steps
  <2>. DEFINE g == [j \in 0..(i + 1) |-> IF j = i + 1 THEN f[h[i]] ELSE h[j]]
  <2>2. h[i] \in S /\ f[h[i]] \in S
    BY <2>1
  <2>3. g \in [0..(i + 1) -> S]
    BY <2>1, <2>2
  <2>4. g[0] = a
    BY <2>1
  <2>5. ASSUME NEW j \in 1..(i + 1)
        PROVE  g[j] = f[g[j - 1]]
    <3>1. CASE j = i + 1
      BY <3>1
    <3>2. CASE j \in 1..i
      <4>1. h[j] = f[h[j - 1]] /\ j - 1 \in 0..i /\ j - 1 # i + 1 /\ j # i + 1
        BY <2>1, <3>2
      <4>. QED
        BY <4>1
    <3>. QED
      BY <3>1, <3>2
  <2>6. g \in Steps(S, a, f, i + 1)
    BY <2>3, <2>4, <2>5 DEF Steps
  <2>. QED
    BY <2>6
<1>. HIDE DEF T
<1>3. n \in T
  BY <1>1, <1>2, AllNumbers
<1>. QED
  BY <1>3 DEF T

LEMMA IterationExists ==
    ASSUME NEW S, NEW a \in S, NEW f \in [S -> S]
    PROVE  \E h : h = [n \in Nat |-> IF n = 0 THEN a ELSE f[h[n - 1]]] /\ h \in [Nat -> S]
<1>. DEFINE Upto(n) == CHOOSE h : h \in Steps(S, a, f, n)
            h == [n \in Nat |-> Upto(n)[n]]
<1>1. ASSUME NEW n \in Nat
      PROVE  Upto(n) \in Steps(S, a, f, n)
  BY StepsExist
<1>. HIDE DEF Upto
<1>2. h \in [Nat -> S]
  BY <1>1 DEF Steps
<1>3. h[0] = a
  BY <1>1 DEF Steps
<1>4. ASSUME NEW n \in Nat, n # 0
      PROVE  h[n] = f[h[n - 1]]
  <2>1. n - 1 \in Nat /\ n \in 1..n /\ n - 1 <= n
    BY <1>4
  <2>2. Upto(n)[n] = f[Upto(n)[n - 1]]
    BY <1>1, <2>1 DEF Steps
  <2>3. Upto(n)[n - 1] = Upto(n - 1)[n - 1]
    BY <1>1, <2>1, StepsAgree
  <2>. QED
    BY <2>1, <2>2, <2>3
<1>5. ASSUME NEW n \in Nat
      PROVE  h[n] = IF n = 0 THEN a ELSE f[h[n - 1]]
  BY <1>3, <1>4
<1>. HIDE DEF h
<1>6. h = [n \in Nat |-> IF n = 0 THEN a ELSE f[h[n - 1]]]
  BY <1>2, <1>5
<1>. QED
  BY <1>2, <1>6

-----------------------------------------------------------------------------
(* What the breadth-first search of the graph finds. *)

\* w begins with start, and every other element is called by an earlier one.
Met(g, s, start, w) ==
    /\ w \in Seq(DOMAIN g) /\ w # <<>> /\ w[1] = start
    /\ \A j \in DOMAIN w : j > 1 =>
            \E i \in 1..(j - 1) : \E e \in Followed(g, s, start, w[i]) : e.to = w[j]

\* All that the elements of w call is in w.
Finished(g, s, start, w) == \A i \in DOMAIN w : NewCallees(g, s, start, w, i) = {}

\* A visit adds a callee that was not met yet, unless there is none.
LEMMA VisitMeaning ==
    ASSUME NEW g, IsGraph(g), NEW s, NEW start, NEW w \in Seq(DOMAIN g)
    PROVE  \/ Finished(g, s, start, w) /\ Visit(g, s, start, w) = w
           \/ \E i \in DOMAIN w : \E x \in NewCallees(g, s, start, w, i) :
                Visit(g, s, start, w) = Append(w, x)
<1>. DEFINE Callers == {i \in DOMAIN w : NewCallees(g, s, start, w, i) # {}}
<1>1. CASE Callers = {}
  BY <1>1 DEF Visit, Finished
<1>2. CASE Callers # {}
  <2>1. Callers \in SUBSET Nat
    OBVIOUS
  <2>2. Least(Callers) \in Callers
    BY <1>2, <2>1, LeastExists DEF Least
  <2>. DEFINE new == NewCallees(g, s, start, w, Least(Callers))
  <2>3. new # {}
    BY <2>2
  <2>4. new \in SUBSET Nat
    BY FunsAssumption DEF NewCallees, Followed, IsGraph
  <2>5. Least(new) \in new
    BY <2>3, <2>4, LeastExists DEF Least
  <2>6. Visit(g, s, start, w) = Append(w, Least(new))
    BY <1>2 DEF Visit
  <2>. QED
    BY <2>2, <2>5, <2>6
<1>. QED
  BY <1>1, <1>2

LEMMA VisitMet ==
    ASSUME NEW g, IsGraph(g), NEW s, NEW start, NEW w, Met(g, s, start, w)
    PROVE  /\ Met(g, s, start, Visit(g, s, start, w))
           /\ Finished(g, s, start, w) => Visit(g, s, start, w) = w
           /\ ~Finished(g, s, start, w) =>
                \E x \in DOMAIN g \ Range(w) :
                    Range(Visit(g, s, start, w)) = Range(w) \cup {x}
<1>1. w \in Seq(DOMAIN g)
  BY DEF Met
<1>2. CASE Finished(g, s, start, w)
  <2>1. \A i \in DOMAIN w : NewCallees(g, s, start, w, i) = {}
    BY <1>2 DEF Finished
  <2>2. Visit(g, s, start, w) = w
    BY <1>1, <2>1, VisitMeaning, Zenon
  <2>. QED
    BY <1>2, <2>2
<1>3. CASE ~Finished(g, s, start, w)
  <2>1. PICK i \in DOMAIN w : \E x \in NewCallees(g, s, start, w, i) :
                Visit(g, s, start, w) = Append(w, x)
    BY <1>1, <1>3, VisitMeaning, Zenon
  <2>2. PICK x \in NewCallees(g, s, start, w, i) : Visit(g, s, start, w) = Append(w, x)
    BY <2>1
  <2>3. PICK e \in Followed(g, s, start, w[i]) : e.to = x
    BY DEF NewCallees
  <2>4. x \in DOMAIN g /\ x \notin Range(w)
    BY <2>3 DEF NewCallees, Followed
  <2>. DEFINE v == Append(w, x)
  <2>5. /\ v \in Seq(DOMAIN g) /\ v # <<>> /\ Len(v) = Len(w) + 1
        /\ DOMAIN v = 1..(Len(w) + 1) /\ DOMAIN w = 1..Len(w) /\ Len(w) \in Nat
        /\ \A j \in DOMAIN w : v[j] = w[j]
        /\ v[Len(w) + 1] = x
    BY <1>1, <2>4
  <2>. HIDE DEF v
  <2>6. ASSUME NEW j \in DOMAIN v, j > 1
        PROVE  \E k \in 1..(j - 1) : \E c \in Followed(g, s, start, v[k]) : c.to = v[j]
    <3>1. CASE j = Len(w) + 1
      <4>1. i \in 1..(j - 1) /\ v[i] = w[i]
        BY <2>5, <3>1
      <4>2. e \in Followed(g, s, start, v[i]) /\ e.to = v[j]
        BY <2>3, <2>5, <3>1, <4>1
      <4>. QED
        BY <4>1, <4>2
    <3>2. CASE j \in DOMAIN w
      <4>1. PICK k \in 1..(j - 1) : \E c \in Followed(g, s, start, w[k]) : c.to = w[j]
        BY <2>6, <3>2 DEF Met
      <4>2. k \in DOMAIN w /\ v[k] = w[k] /\ v[j] = w[j]
        BY <2>5, <3>2
      <4>. QED
        BY <4>1, <4>2
    <3>. QED
      BY <2>5, <3>1, <3>2
  <2>7. v[1] = start
    BY <2>5 DEF Met
  <2>8. Met(g, s, start, v)
    BY <2>5, <2>6, <2>7 DEF Met
  <2>9. Range(v) = Range(w) \cup {x}
    <3>1. Range(v) \subseteq Range(w) \cup {x}
      BY <2>5 DEF Range
    <3>2. Range(w) \subseteq Range(v)
      BY <2>5 DEF Range
    <3>3. x \in Range(v)
      BY <2>5 DEF Range
    <3>. QED
      BY <3>1, <3>2, <3>3
  <2>10. Visit(g, s, start, w) = v
    BY <2>2 DEF v
  <2>. QED
    BY <1>3, <2>4, <2>8, <2>9, <2>10
<1>. QED
  BY <1>2, <1>3

\* The search ends with everything it can meet.
LEMMA SearchFinds ==
    ASSUME NEW g, IsGraph(g), NEW s, NEW start \in DOMAIN g
    PROVE  /\ Met(g, s, start, SearchOrder(g, s, start))
           /\ Finished(g, s, start, SearchOrder(g, s, start))
<1>. DEFINE S == Seq(DOMAIN g)
            F == [w \in S |-> Visit(g, s, start, w)]
            Walk == CHOOSE h : h = [n \in Nat |-> IF n = 0 THEN <<start>>
                                                  ELSE Visit(g, s, start, h[n - 1])]
<1>1. ASSUME NEW w \in S
      PROVE  Visit(g, s, start, w) \in S
  <2>1. CASE Visit(g, s, start, w) = w
    BY <2>1
  <2>2. CASE \E i \in DOMAIN w : \E x \in NewCallees(g, s, start, w, i) :
                Visit(g, s, start, w) = Append(w, x)
    BY <2>2 DEF NewCallees, Followed
  <2>. QED
    BY <2>1, <2>2, VisitMeaning
<1>2. F \in [S -> S] /\ <<start>> \in S /\ \A w \in S : F[w] = Visit(g, s, start, w)
  BY <1>1
<1>. HIDE DEF F, S
<1>3. PICK h : h = [n \in Nat |-> IF n = 0 THEN <<start>> ELSE F[h[n - 1]]] /\ h \in [Nat -> S]
  BY <1>2, IterationExists
<1>4. h = [n \in Nat |-> IF n = 0 THEN <<start>> ELSE Visit(g, s, start, h[n - 1])]
  <2>1. ASSUME NEW n \in Nat, n # 0
        PROVE  F[h[n - 1]] = Visit(g, s, start, h[n - 1])
    <3>1. n - 1 \in Nat
      BY <2>1
    <3>2. h[n - 1] \in S
      BY <1>3, <3>1
    <3>. QED
      BY <1>2, <3>2
  <2>. QED
    BY <1>3, <2>1
<1>5. Walk = [n \in Nat |-> IF n = 0 THEN <<start>> ELSE Visit(g, s, start, Walk[n - 1])]
  BY <1>4
<1>6. SearchOrder(g, s, start) = Walk[Cardinality(Funs)]
  BY DEF SearchOrder
<1>. HIDE DEF Walk
<1>7. Walk[0] = <<start>> /\ \A n \in Nat : Walk[n + 1] = Visit(g, s, start, Walk[n])
  BY <1>5
<1>. DEFINE T == {n \in Nat : /\ Met(g, s, start, Walk[n])
                              /\ IsFiniteSet(Range(Walk[n]))
                              /\ \/ Finished(g, s, start, Walk[n])
                                 \/ Cardinality(Range(Walk[n])) > n}
<1>8. 0 \in T
  <2>1. Met(g, s, start, <<start>>)
    BY DEF Met
  <2>2. Range(<<start>>) = {start}
    BY DEF Range
  <2>. QED
    BY <1>7, <2>1, <2>2, FS_Singleton
<1>9. ASSUME NEW n \in Nat, n \in T
      PROVE  n + 1 \in T
  <2>. DEFINE w == Walk[n]
  <2>0. Met(g, s, start, w) /\ IsFiniteSet(Range(w))
    BY <1>9
  <2>1. Walk[n + 1] = Visit(g, s, start, w)
    BY <1>7
  <2>. HIDE DEF w
  <2>2. Met(g, s, start, Walk[n + 1])
    BY <2>0, <2>1, VisitMet
  <2>3. CASE Finished(g, s, start, w)
    <3>1. Walk[n + 1] = w
      BY <2>0, <2>1, <2>3, VisitMet
    <3>. QED
      BY <2>0, <2>2, <2>3, <3>1
  <2>4. CASE ~Finished(g, s, start, w)
    <3>1. PICK x \in DOMAIN g \ Range(w) : Range(Walk[n + 1]) = Range(w) \cup {x}
      BY <2>0, <2>1, <2>4, VisitMet
    <3>2. /\ IsFiniteSet(Range(Walk[n + 1]))
          /\ Cardinality(Range(Walk[n + 1])) = Cardinality(Range(w)) + 1
      BY <2>0, <3>1, FS_AddElement
    <3>3. Cardinality(Range(w)) > n
      BY <1>9, <2>4 DEF w
    <3>4. Cardinality(Range(w)) \in Nat
      BY <2>0, FS_CardinalityType
    <3>5. Cardinality(Range(Walk[n + 1])) > n + 1
      BY <3>2, <3>3, <3>4
    <3>. QED
      BY <2>2, <3>2, <3>5
  <2>. QED
    BY <2>3, <2>4
<1>. DEFINE N == Cardinality(Funs)
<1>10. N \in Nat
  BY FunsAssumption, FS_CardinalityType
<1>11. N \in T
  <2>. HIDE DEF T
  <2>. QED
    BY <1>8, <1>9, <1>10, AllNumbers
<1>12. Met(g, s, start, Walk[N])
  BY <1>11
<1>13. Finished(g, s, start, Walk[N])
  <2>1. Range(Walk[N]) \subseteq Funs
    BY <1>12 DEF Met, Range, IsGraph
  <2>2. Cardinality(Range(Walk[N])) <= N
    BY <2>1, FunsAssumption, FS_Subset
  <2>3. Cardinality(Range(Walk[N])) \in Nat
    BY <1>11, FS_CardinalityType
  <2>4. ~(Cardinality(Range(Walk[N])) > N)
    BY <1>10, <2>2, <2>3
  <2>. QED
    BY <1>11, <2>4
<1>. QED
  BY <1>6, <1>12, <1>13

\* Without weak edges, what is reached is the least set that holds the start
\* and the callees, as far as they are followed, of its elements.
LEMMA ReachableMeaning ==
    ASSUME NEW g, IsGraph(g), NEW s, NEW start \in DOMAIN g,
           \A h \in DOMAIN g : \A e \in g[h].calls[s] : ~e.weak
    PROVE  /\ start \in ReachableFrom(g, s, start)
           /\ ReachableFrom(g, s, start) \subseteq DOMAIN g
           /\ \A h \in ReachableFrom(g, s, start) : \A e \in Followed(g, s, start, h) :
                e.to \in ReachableFrom(g, s, start)
           /\ \A T : /\ start \in T
                     /\ \A h \in T \cap DOMAIN g : \A e \in Followed(g, s, start, h) : e.to \in T
                     => ReachableFrom(g, s, start) \subseteq T
<1>. DEFINE w == SearchOrder(g, s, start)
            R == ReachableFrom(g, s, start)
<1>1. Met(g, s, start, w) /\ Finished(g, s, start, w)
  BY SearchFinds
<1>2. R = {start} \cup {w[j] : j \in {k \in DOMAIN w : \E i \in 1..(k - 1) :
                                        \E e \in Followed(g, s, start, w[i]) : e.to = w[k] /\ ~e.weak}}
  BY DEF ReachableFrom
<1>. HIDE DEF w, R
<1>3. w \in Seq(DOMAIN g) /\ w # <<>> /\ w[1] = start /\ DOMAIN w = 1..Len(w) /\ Len(w) \in Nat
  BY <1>1 DEF Met
<1>4. R = Range(w)
  <2>1. start \in Range(w)
    BY <1>3 DEF Range
  <2>2. R \subseteq Range(w)
    BY <1>2, <2>1 DEF Range
  <2>3. ASSUME NEW j \in DOMAIN w
        PROVE  w[j] \in R
    <3>1. CASE j = 1
      BY <1>2, <1>3, <3>1
    <3>2. CASE j > 1
      <4>1. PICK i \in 1..(j - 1) : \E e \in Followed(g, s, start, w[i]) : e.to = w[j]
        BY <1>1, <3>2 DEF Met
      <4>2. PICK e \in Followed(g, s, start, w[i]) : e.to = w[j]
        BY <4>1
      <4>3. w[i] \in DOMAIN g
        BY <1>3
      <4>4. ~e.weak
        BY <4>3 DEF Followed
      <4>. QED
        BY <1>2, <4>2, <4>4
    <3>. QED
      BY <1>3, <3>1, <3>2
  <2>. QED
    BY <2>2, <2>3 DEF Range
<1>5. start \in R /\ R \subseteq DOMAIN g
  BY <1>2, <1>3, <1>4 DEF Range
<1>6. ASSUME NEW h \in R, NEW e \in Followed(g, s, start, h)
      PROVE  e.to \in R
  <2>1. PICK i \in DOMAIN w : h = w[i]
    BY <1>4 DEF Range
  <2>. QED
    BY <1>1, <1>4, <2>1 DEF Finished, NewCallees
<1>7. ASSUME NEW T, start \in T,
             \A h \in T \cap DOMAIN g : \A e \in Followed(g, s, start, h) : e.to \in T,
             NEW j0 \in DOMAIN w
      PROVE  w[j0] \in T
  <2>. DEFINE Out == {j \in DOMAIN w : w[j] \notin T}
  <2>. SUFFICES ASSUME Out # {}
                PROVE  FALSE
    OBVIOUS
  <2>1. Out \in SUBSET Nat
    BY <1>3
  <2>2. PICK j \in Out : \A k \in Out : j <= k
    BY <2>1, LeastExists
  <2>3. j # 1 /\ j > 1
    BY <1>3, <1>7, <2>2
  <2>4. PICK i \in 1..(j - 1) : \E e \in Followed(g, s, start, w[i]) : e.to = w[j]
    BY <1>1, <2>3 DEF Met
  <2>5. i \in DOMAIN w /\ i \notin Out
    BY <1>3, <2>2
  <2>6. w[i] \in T \cap DOMAIN g
    BY <1>3, <2>5
  <2>. QED
    BY <1>7, <2>2, <2>4, <2>6
<1>8. ASSUME NEW T, start \in T,
             \A h \in T \cap DOMAIN g : \A e \in Followed(g, s, start, h) : e.to \in T
      PROVE  R \subseteq T
  BY <1>4, <1>7, <1>8 DEF Range
<1>9. /\ start \in R /\ R \subseteq DOMAIN g
      /\ \A h \in R : \A e \in Followed(g, s, start, h) : e.to \in R
      /\ \A T : /\ start \in T
                /\ \A h \in T \cap DOMAIN g : \A e \in Followed(g, s, start, h) : e.to \in T
                => R \subseteq T
  BY <1>5, <1>6, <1>8
<1>. QED
  BY <1>9 DEF R

-----------------------------------------------------------------------------
(* The graph of one run, for programs whose functions are all in C files and *)
(* that have neither variants nor inlined calls.                             *)

Plain(P) ==
    /\ CallsNoVariant(P)
    /\ \A p \in Pairs : \A s \in Side : P.inlined[p][s] = {}
    /\ \A s \in Side : \A f \in Funs : P.home[s][f] \in CFiles \cup {NoFile}

\* The edges to the functions of S.
EdgesTo(S) == {[to |-> h, variant |-> FALSE, weak |-> FALSE] : h \in S}

\* A definitive vertex is of a function of two C files, and has all its calls.
Exact(P, g) ==
    \A f \in Definitive(g) : \A s \in Side :
        /\ g[f].calls[s] = EdgesTo(CalleesOf(P, f))
        /\ P.home[s][f] \in CFiles

\* The callees that a definitive vertex has in its own file, and that the
\* other snapshot defines too, are in D.
CalleesIn(P, g, D) ==
    \A y \in Definitive(g) : \A x \in CalleesOf(P, y) : \A s \in Side :
        P.home[s][x] = P.home[s][y] /\ P.home[Other(s)][x] # NoFile => x \in D

\* Nothing is left to link for what was met.
AllLinked(P, main, ln, cached) ==
    \A d \in MissingDefs(P, main, ln, cached) : NewLinks(P, ln, d) = {}

\* Assigning to a field what it has changes nothing.
LEMMA SameField ==
    /\ \A p \in Pairs : \A b : p.void = b => [p EXCEPT !.void = b] = p
    /\ \A e \in Edge : \A b : e.weak = b => [e EXCEPT !.weak = b] = e
<1>1. ASSUME NEW p \in Pairs, NEW b, p.void = b
      PROVE  [p EXCEPT !.void = b] = p
  BY <1>1 DEF Pairs
<1>2. ASSUME NEW e \in Edge, NEW b, e.weak = b
      PROVE  [e EXCEPT !.weak = b] = e
  BY <1>2 DEF Edge
<1>. QED
  BY <1>1, <1>2

\* The edges of a vertex of a plain program.
LEMMA PlainCalls ==
    ASSUME NEW P \in Program, Plain(P), NEW s \in Side, NEW f \in Funs, NEW S \in SUBSET Funs
    PROVE  CallsOn(P, s, Strong(f), {Strong(h) : h \in S}) = EdgesTo(S)
<1>. DEFINE callees == {Strong(h) : h \in S}
            E(n) == [to |-> n.fun, variant |-> n.void, weak |-> n \in P.inlined[Strong(f)][s]]
<1>1. P.inlined[Strong(f)][s] = {}
  BY StrongFacts DEF Plain
<1>2. ASSUME NEW h \in S
      PROVE  /\ NameOn(P, s, Strong(h)) = Strong(h)
             /\ E(Strong(h)) = [to |-> h, variant |-> FALSE, weak |-> FALSE]
  <2>1. Strong(h) = [fun |-> h, void |-> FALSE]
    BY DEF Strong
  <2>2. Strong(h).void = FALSE /\ Strong(h).fun = h
    BY <2>1
  <2>3. (Strong(h).void /\ s = P.variantSide) = FALSE
    BY <2>2, Zenon
  <2>4. [Strong(h) EXCEPT !.void = FALSE] = Strong(h)
    BY <2>2, StrongFacts, SameField
  <2>5. NameOn(P, s, Strong(h)) = [Strong(h) EXCEPT !.void = Strong(h).void /\ s = P.variantSide]
    BY Zenon DEF NameOn
  <2>6. (Strong(h) \in P.inlined[Strong(f)][s]) = FALSE
    BY <1>1
  <2>7. NameOn(P, s, Strong(h)) = Strong(h)
    BY <2>3, <2>4, <2>5, Zenon
  <2>8. E(Strong(h)) = [to |-> h, variant |-> FALSE, weak |-> FALSE]
    BY <2>2, <2>6, Zenon
  <2>. QED
    BY <2>7, <2>8
<1>3. CallsOn(P, s, Strong(f), callees) = {E(n) : n \in {NameOn(P, s, q) : q \in callees}}
  BY DEF CallsOn
<1>. HIDE DEF E
<1>4. {NameOn(P, s, q) : q \in callees} = {Strong(h) : h \in S}
  BY <1>2
<1>5. {E(n) : n \in {Strong(h) : h \in S}} = EdgesTo(S)
  BY <1>2 DEF EdgesTo
<1>. QED
  BY <1>3, <1>4, <1>5

\* Weakening changes nothing where there is no call of a variant.
LEMMA WeakenPlain ==
    ASSUME NEW raw, NEW v \in Vertex, NEW S \in SUBSET Funs, \A s \in Side : v.calls[s] = EdgesTo(S)
    PROVE  \A s \in Side : WeakenEdges(raw, v).calls[s] = EdgesTo(S)
<1>. DEFINE CallsVariant(f) == \E s \in Side : \E e \in v.calls[s] : e.to = f /\ e.variant
            Weakened(e) == /\ CallsVariant(e.to)
                           /\ Variant(e.to) \in DOMAIN raw
                           /\ raw[Variant(e.to)].result = "equal"
            Weak(s) == {[e EXCEPT !.weak = @ \/ Weakened(e)] : e \in v.calls[s]}
<1>1. \A f : ~CallsVariant(f)
  BY DEF EdgesTo
<1>2. ASSUME NEW s \in Side, NEW e \in v.calls[s]
      PROVE  [e EXCEPT !.weak = @ \/ Weakened(e)] = e
  <2>1. ~Weakened(e)
    BY <1>1
  <2>2. PICK h \in S : e = [to |-> h, variant |-> FALSE, weak |-> FALSE]
    BY DEF EdgesTo
  <2>3. e.weak = FALSE
    BY <2>2
  <2>4. (e.weak \/ Weakened(e)) = FALSE
    BY <2>1, <2>3, Zenon
  <2>5. e \in Edge
    BY DEF Vertex
  <2>6. [e EXCEPT !.weak = FALSE] = e
    BY <2>3, <2>5, SameField
  <2>. QED
    BY <2>4, <2>6, Zenon
<1>. HIDE DEF Weakened, CallsVariant
<1>3. ASSUME NEW s \in Side
      PROVE  Weak(s) = v.calls[s]
  BY <1>2
<1>4. WeakenEdges(raw, v) = [v EXCEPT !.calls = [L |-> Weak("L"), R |-> Weak("R")]]
  BY DEF WeakenEdges, Weakened, CallsVariant
<1>. HIDE DEF Weak
<1>5. WeakenEdges(raw, v).calls = [L |-> Weak("L"), R |-> Weak("R")]
  BY <1>4 DEF Vertex
<1>6. "L" \in Side /\ "R" \in Side
  BY DEF Side
<1>7. Weak("L") = EdgesTo(S) /\ Weak("R") = EdgesTo(S)
  BY <1>3, <1>6
<1>. QED
  BY <1>5, <1>7 DEF Side

\* What a run makes of the functions it meets.
Shape(P, main, ln, cached, g) ==
    /\ DOMAIN g = {f \in Funs : Strong(f) \in ComparedPairs(P, main, ln, cached)}
    /\ \A f \in DOMAIN g :
         /\ g[f].result = PairVerdict(P, main, ln, cached, Strong(f))
         /\ g[f].files = FilesOf(P, main, ln, f)
         /\ HaveBodies(P, main, ln, f) /\ ~IsCached(P, main, ln, cached, Strong(f))
              => \A s \in Side : g[f].calls[s] = EdgesTo(CalleesOf(P, f))

LEMMA RunGraphShape ==
    ASSUME NEW P \in Program, Plain(P), NEW main \in Funs, NEW ln, NEW cached, NEW run \in Nat
    PROVE  Shape(P, main, ln, cached, RunGraph(P, main, ln, cached, run))
<1>. DEFINE raw == RawGraph(P, main, ln, cached, run)
            n == Normalize(raw)
            g == MarkUncachable(n)
            C == ComparedPairs(P, main, ln, cached)
<1>1. RunGraph(P, main, ln, cached, run) = g
  BY WholeIsIdentity DEF RunGraph
<1>2. /\ C \subseteq {Strong(f) : f \in Funs}
      /\ DOMAIN raw = C
      /\ DOMAIN raw \subseteq Pairs
      /\ raw \in [DOMAIN raw -> Vertex]
      /\ \A p \in DOMAIN raw :
            /\ raw[p].result = PairVerdict(P, main, ln, cached, p)
            /\ raw[p].files = FilesOf(P, main, ln, p.fun)
  BY RawGraphType, ComparedPairsType, StrongPairs DEF Plain
<1>3. ASSUME NEW f \in Funs, Strong(f) \in C, NEW s \in Side,
             HaveBodies(P, main, ln, f), ~IsCached(P, main, ln, cached, Strong(f))
      PROVE  raw[Strong(f)].calls[s] = EdgesTo(CalleesOf(P, f))
  <2>1. Strong(f).fun = f
    BY StrongFacts
  <2>2. Callees(P, main, ln, cached, Strong(f)) = P.calls[Strong(f)]
    BY <1>3, <2>1 DEF Callees
  <2>3. P.calls[Strong(f)] = {Strong(h) : h \in CalleesOf(P, f)}
    BY StrongFacts DEF Plain, CallsNoVariant, CalleesOf
  <2>4. raw[Strong(f)].calls = [L |-> CallsOn(P, "L", Strong(f), P.calls[Strong(f)]),
                                R |-> CallsOn(P, "R", Strong(f), P.calls[Strong(f)])]
    BY <1>2, <1>3, <2>2 DEF RawGraph
  <2>5. raw[Strong(f)].calls[s] = CallsOn(P, s, Strong(f), P.calls[Strong(f)])
    BY <2>4 DEF Side
  <2>. QED
    BY <2>3, <2>5, PlainCalls DEF CalleesOf
<1>. HIDE DEF raw, C
<1>4. /\ IsGraph(n)
      /\ DOMAIN n = {p.fun : p \in DOMAIN raw}
      /\ \A f \in DOMAIN n : Strong(f) \in DOMAIN raw =>
            n[f].result = raw[Strong(f)].result /\ n[f].files = raw[Strong(f)].files
  BY <1>2, NormalizeType
<1>5. DOMAIN n = {f \in Funs : Strong(f) \in C}
  <2>1. ASSUME NEW p \in C
        PROVE  p.fun \in Funs /\ Strong(p.fun) = p
    BY <1>2, StrongFacts
  <2>2. DOMAIN n \subseteq {f \in Funs : Strong(f) \in C}
    BY <1>2, <1>4, <2>1
  <2>3. {f \in Funs : Strong(f) \in C} \subseteq DOMAIN n
    BY <1>2, <1>4, StrongFacts
  <2>. QED
    BY <2>2, <2>3
<1>6. ASSUME NEW f \in DOMAIN n, NEW s \in Side,
             HaveBodies(P, main, ln, f), ~IsCached(P, main, ln, cached, Strong(f))
      PROVE  n[f].calls[s] = EdgesTo(CalleesOf(P, f))
  <2>1. n[f] = WeakenEdges(raw, raw[Strong(f)])
    BY <1>2, <1>4, <1>5 DEF Normalize
  <2>2. raw[Strong(f)] \in Vertex
    BY <1>2, <1>5
  <2>3. \A t \in Side : raw[Strong(f)].calls[t] = EdgesTo(CalleesOf(P, f))
    BY <1>3, <1>5, <1>6
  <2>4. CalleesOf(P, f) \in SUBSET Funs
    BY DEF CalleesOf
  <2>. QED
    BY <2>1, <2>2, <2>3, <2>4, WeakenPlain
<1>. HIDE DEF n
<1>7. /\ DOMAIN g = DOMAIN n
      /\ \A f \in DOMAIN n : /\ g[f].result = n[f].result
                             /\ g[f].files = n[f].files
                             /\ g[f].calls = n[f].calls
  BY <1>4, MarkUncachableType
<1>. HIDE DEF g
<1>8. Shape(P, main, ln, cached, g)
  BY <1>2, <1>4, <1>5, <1>6, <1>7, StrongFacts DEF Shape, C
<1>. QED
  BY <1>1, <1>8

\* What a run with nothing left to link makes of a plain program: its vertices
\* have the calls of their functions, and of the callees that a definitive vertex
\* has in its own file none is left out but those found in the cache.
HasHome(P, f) == \A s \in Side : P.home[s][f] # NoFile

Settles(P, main, cached, g) ==
    /\ Exact(P, g)
    /\ CalleesIn(P, g, Definitive(g) \cup Unknowns(g))
    /\ \A x \in Unknowns(g) : \E k \in cached : k.fun = x
    /\ HasHome(P, main) => main \in Definitive(g) \cup Unknowns(g)

LEMMA RunGraphSettles ==
    ASSUME NEW P \in Program, Plain(P), ~ControlFlowOnly, NEW main \in Funs,
           NEW ln \in SUBSET Link, NEW cached, NEW run \in Nat, AllLinked(P, main, ln, cached)
    PROVE  Settles(P, main, cached, RunGraph(P, main, ln, cached, run))
<1>. DEFINE g == RunGraph(P, main, ln, cached, run)
            C == ComparedPairs(P, main, ln, cached)
<1>0. Shape(P, main, ln, cached, g)
  BY RunGraphShape
<1>. HIDE DEF g
<1>1. /\ DOMAIN g = {f \in Funs : Strong(f) \in C}
      /\ \A f \in DOMAIN g :
           /\ g[f].result = PairVerdict(P, main, ln, cached, Strong(f))
           /\ g[f].files = FilesOf(P, main, ln, f)
           /\ HaveBodies(P, main, ln, f) /\ ~IsCached(P, main, ln, cached, Strong(f))
                => \A s \in Side : g[f].calls[s] = EdgesTo(CalleesOf(P, f))
  BY <1>0 DEF Shape
<1>2. ASSUME NEW f \in Funs, NEW s \in Side, f \in Bodies(P, main, ln, s)
      PROVE  P.home[s][f] \in CFiles
  <2>1. P.home[s][f] \in CFiles \cup {NoFile}
    BY DEF Plain
  <2>2. P.home[s][f] \in Headers \cup ({P.home[s][main]} \ {NoFile})
                            \cup {l.file : l \in {k \in ln : k.side = s}}
    BY <1>2 DEF Bodies
  <2>3. {l.file : l \in {k \in ln : k.side = s}} \subseteq CFiles
    BY DEF Link
  <2>. QED
    BY <2>1, <2>2, <2>3, FilesAssumption
<1>3. ASSUME NEW f \in Definitive(g)
      PROVE  /\ f \in Funs /\ Strong(f) \in C
             /\ HaveBodies(P, main, ln, f) /\ ~IsCached(P, main, ln, cached, Strong(f))
  BY <1>1, StrongFacts DEF Definitive, Definite, PairVerdict
<1>4. Exact(P, g)
  <2>1. ASSUME NEW f \in Definitive(g), NEW s \in Side
        PROVE  g[f].calls[s] = EdgesTo(CalleesOf(P, f)) /\ P.home[s][f] \in CFiles
    BY <1>1, <1>2, <1>3 DEF HaveBodies
  <2>. QED
    BY <2>1 DEF Exact
<1>5. ASSUME NEW f \in DOMAIN g, HaveBodies(P, main, ln, f)
      PROVE  f \in Definitive(g) \cup Unknowns(g)
  BY <1>1, <1>5, StrongFacts DEF Definitive, Unknowns, Definite, PairVerdict
<1>6. ASSUME NEW y \in Definitive(g), NEW x \in CalleesOf(P, y), NEW s \in Side,
             P.home[s][x] = P.home[s][y], P.home[Other(s)][x] # NoFile
      PROVE  x \in Definitive(g) \cup Unknowns(g)
  <2>1. Strong(x) \in Callees(P, main, ln, cached, Strong(y)) /\ x \in Funs
    BY <1>3, StrongFacts DEF Callees, CalleesOf
  <2>2. Strong(x) \in C
    BY <1>3, <2>1, CalleesMet
  <2>3. x \in DOMAIN g
    BY <1>1, <2>1, <2>2
  <2>4. x \in Bodies(P, main, ln, s)
    <3>1. y \in Bodies(P, main, ln, s)
      BY <1>3 DEF HaveBodies
    <3>. QED
      BY <1>6, <2>1, <3>1 DEF Bodies
  <2>5. x \in Bodies(P, main, ln, Other(s))
    <3>. SUFFICES ASSUME x \notin Bodies(P, main, ln, Other(s))
                  PROVE  FALSE
      OBVIOUS
    <3>. DEFINE o == Other(s)
                d == [side |-> o, fun |-> x, variant |-> FALSE]
                l == [side |-> o, file |-> P.home[o][x]]
    <3>1. o \in Side /\ Other(o) = s
      BY DEF Other, Side
    <3>2. NameOn(P, o, Strong(x)).void = FALSE
      BY DEF NameOn, Strong
    <3>4. d.fun = x /\ d.side = o /\ d.variant = FALSE
      OBVIOUS
    <3>. HIDE DEF o, d
    <3>5. d \in MissingDefs(P, main, ln, cached)
      <4>1. d \in MissingDef
        BY <2>1, <3>1 DEF MissingDef, d
      <4>0. Strong(x) \in ComparedPairs(P, main, ln, cached)
        BY <2>2
      <4>2. d.fun \notin Bodies(P, main, ln, d.side) /\ d.fun \in Bodies(P, main, ln, Other(d.side))
        BY <2>4, <3>1, <3>4 DEF o
      <4>. QED
        BY <4>0, <4>1, <4>2, <3>2, <3>4, <2>1, StrongFacts DEF MissingDefs
    <3>6. NewLinks(P, ln, d) = {}
      BY <3>5 DEF AllLinked
    <3>7. P.home[o][x] \in CFiles
      BY <1>6, <2>1, <3>1 DEF Plain, o
    <3>8. l \in Link /\ l.side = d.side /\ l.file = P.home[d.side][d.fun] /\ ~d.variant
      BY <3>1, <3>4, <3>7 DEF Link
    <3>9. l \in ln
      BY <3>6, <3>8 DEF NewLinks
    <3>10. l.file \in {k.file : k \in {k \in ln : k.side = o}} /\ l.file = P.home[o][x]
      BY <3>9
    <3>. QED
      BY <2>1, <3>10 DEF Bodies, o
  <2>6. HaveBodies(P, main, ln, x)
    BY <2>4, <2>5 DEF HaveBodies, Other, Side
  <2>. QED
    BY <1>5, <2>3, <2>6
<1>7. CalleesIn(P, g, Definitive(g) \cup Unknowns(g))
  BY <1>6 DEF CalleesIn
<1>8. ASSUME NEW x \in Unknowns(g)
      PROVE  \E k \in cached : k.fun = x
  <2>1. x \in DOMAIN g /\ x \in Funs /\ PairVerdict(P, main, ln, cached, Strong(x)) = "unknown"
    BY <1>1 DEF Unknowns
  <2>2. IsCached(P, main, ln, cached, Strong(x))
    BY <2>1 DEF PairVerdict
  <2>3. [fun |-> x, files |-> FilesOf(P, main, ln, x)] \in cached
    BY <2>1, <2>2, StrongFacts DEF IsCached
  <2>. QED
    BY <2>3
<1>9. main \in DOMAIN g
  BY <1>1, ComparedPairsType
<1>10. ASSUME HasHome(P, main)
       PROVE  main \in Definitive(g) \cup Unknowns(g)
  <2>1. HaveBodies(P, main, ln, main)
    BY <1>10 DEF HasHome, HaveBodies, Bodies
  <2>. QED
    BY <1>5, <1>9, <2>1
<1>11. Settles(P, main, cached, g)
  BY <1>4, <1>7, <1>8, <1>10 DEF Settles
<1>. QED
  BY <1>11 DEF g

\* A complete graph has the result of every function it says anything of.
Complete(P, g) ==
    /\ IsGraph(g) /\ FirmGraph(P, g) /\ Exact(P, g)
    /\ CalleesIn(P, g, Definitive(g))
    /\ Unknowns(g) = {}

\* The results that a complete graph finds from f depend on the program only.
Found(g, s, f) == ReachableFrom(g, s, f) \cap Definitive(g)

LEMMA FoundInBoth ==
    ASSUME NEW P \in Program, NEW g, Complete(P, g), NEW h, Complete(P, h),
           NEW f \in Definitive(g) \cap Definitive(h), NEW s \in Side
    PROVE  Found(g, s, f) \subseteq Found(h, s, f)
<1>0. DOMAIN g \subseteq Funs /\ DOMAIN h \subseteq Funs
  BY DEF Complete, IsGraph
<1>. DEFINE T == (DOMAIN g \ Definitive(g))
                    \cup {x \in Found(h, s, f) : P.home[s][x] = P.home[s][f]}
<1>1. ASSUME NEW k, Complete(P, k)
      PROVE  /\ \A x \in DOMAIN k : x \notin Definitive(k) => k[x].calls[s] = {}
             /\ \A x \in Definitive(k) : /\ k[x].files[s] = P.home[s][x]
                                         /\ k[x].calls[s] = EdgesTo(CalleesOf(P, x))
                                         /\ P.home[s][x] \in CFiles
                                         /\ P.home[Other(s)][x] \in CFiles
             /\ \A x \in DOMAIN k : \A e \in k[x].calls[s] : ~e.weak
  <2>1. \A x \in DOMAIN k : x \notin Definitive(k) => k[x].calls[s] = {}
    BY <1>1 DEF Complete, FirmGraph, Firm, Definitive
  <2>2. \A x \in Definitive(k) : k[x].files[s] = P.home[s][x]
    BY <1>1 DEF Complete, FirmGraph, Firm, Definitive
  <2>3. Other(s) \in Side
    BY DEF Other, Side
  <2>4. \A x \in Definitive(k) : /\ k[x].calls[s] = EdgesTo(CalleesOf(P, x))
                                 /\ P.home[s][x] \in CFiles /\ P.home[Other(s)][x] \in CFiles
    BY <1>1, <2>3 DEF Complete, Exact
  <2>5. \A x \in DOMAIN k : \A e \in k[x].calls[s] : ~e.weak
    BY <2>1, <2>4 DEF EdgesTo
  <2>. QED
    BY <2>1, <2>2, <2>4, <2>5
<1>2. /\ f \in DOMAIN g /\ f \in DOMAIN h
      /\ Definitive(g) \subseteq DOMAIN g /\ Definitive(h) \subseteq DOMAIN h
  BY DEF Definitive
<1>3. /\ f \in ReachableFrom(h, s, f)
      /\ \A x \in ReachableFrom(h, s, f) : \A e \in Followed(h, s, f, x) :
            e.to \in ReachableFrom(h, s, f)
  BY <1>1, <1>2, ReachableMeaning DEF Complete
<1>4. f \in T
  BY <1>2, <1>3 DEF Found
<1>5. ASSUME NEW y \in T \cap DOMAIN g, NEW e \in Followed(g, s, f, y)
      PROVE  e.to \in T
  <2>1. e \in g[y].calls[s] /\ e.to \in DOMAIN g
        /\ (g[e.to].files[s] \in CFiles => g[e.to].files[s] = g[f].files[s])
    BY DEF Followed
  <2>2. y \in Definitive(g)
    BY <1>1, <2>1
  <2>3. y \in Found(h, s, f) /\ P.home[s][y] = P.home[s][f]
    BY <2>2
  <2>. DEFINE x == e.to
  <2>4. x \in CalleesOf(P, y) /\ e \in EdgesTo(CalleesOf(P, y))
    BY <1>1, <2>1, <2>2 DEF EdgesTo
  <2>. SUFFICES ASSUME x \in Definitive(g)
                PROVE  x \in Found(h, s, f) /\ P.home[s][x] = P.home[s][f]
    BY <2>1
  <2>5. P.home[s][x] = P.home[s][f] /\ P.home[s][x] = P.home[s][y]
    BY <1>1, <2>1, <2>3
  <2>6. P.home[Other(s)][x] # NoFile
    BY <1>1, FilesAssumption
  <2>7. x \in Definitive(h)
    BY <2>3, <2>4, <2>5, <2>6 DEF Complete, CalleesIn, Found
  <2>8. e \in h[y].calls[s]
    BY <1>1, <2>3, <2>4 DEF Found
  <2>9. h[x].files[s] = h[f].files[s]
    BY <1>1, <2>5, <2>7
  <2>10. e \in Followed(h, s, f, y)
    BY <1>2, <2>7, <2>8, <2>9 DEF Followed
  <2>. QED
    BY <1>3, <2>3, <2>5, <2>7, <2>10 DEF Found
<1>. HIDE DEF T
<1>6. ReachableFrom(g, s, f) \subseteq T
  BY <1>1, <1>2, <1>4, <1>5, ReachableMeaning DEF Complete
<1>. QED
  BY <1>6 DEF T, Found

\* So does the report about f.
LEMMA SameReport ==
    ASSUME NEW P \in Program, NEW g, Complete(P, g), NEW h, Complete(P, h),
           NEW f \in Definitive(g) \cap Definitive(h)
    PROVE  Report(g, f) = Report(h, f)
<1>1. ASSUME NEW s \in Side
      PROVE  Found(g, s, f) = Found(h, s, f)
  <2>1. Found(g, s, f) \subseteq Found(h, s, f)
    BY FoundInBoth
  <2>2. Found(h, s, f) \subseteq Found(g, s, f)
    BY FoundInBoth
  <2>. QED
    BY <2>1, <2>2
<1>2. ASSUME NEW k, Complete(P, k)
      PROVE  FunPairs(k, f) = {x \in Found(k, "L", f) \cap Found(k, "R", f) :
                                    Outcome(P, x) = "not_equal"}
  <2>1. ASSUME NEW x \in DOMAIN k
        PROVE  k[x].result \notin {"equal", "assumed_equal"}
                 <=> x \in Definitive(k) /\ Outcome(P, x) = "not_equal"
    <3>1. k[x].result \in Verdicts /\ k[x].result # "unknown"
      BY <1>2 DEF Complete, IsGraph, Vertex, Unknowns
    <3>2. k[x].result \in Definite => k[x].result = Outcome(P, x)
      BY <1>2 DEF Complete, FirmGraph, Firm
    <3>. QED
      BY <3>1, <3>2 DEF Verdicts, Definite, Definitive
  <2>2. Definitive(k) \subseteq DOMAIN k
    BY DEF Definitive
  <2>. QED
    BY <2>1, <2>2 DEF FunPairs, Found
<1>3. FunPairs(g, f) = FunPairs(h, f)
  BY <1>1, <1>2 DEF Side
<1>4. ASSUME NEW k, Complete(P, k), NEW x \in FunPairs(k, f)
      PROVE  k[x].result = "not_equal"
  <2>1. x \in Definitive(k) /\ Outcome(P, x) = "not_equal"
    BY <1>2, <1>4 DEF Found
  <2>. QED
    BY <1>4, <2>1 DEF Complete, FirmGraph, Firm, Definitive
<1>. DEFINE pairs == FunPairs(g, f)
<1>5. \A x \in pairs : g[x].result = h[x].result
  BY <1>3, <1>4
<1>. HIDE DEF pairs
<1>6. {g[x].result : x \in pairs} = {h[x].result : x \in pairs}
  BY <1>5
<1>7. [x \in Funs |-> IF x \in pairs THEN g[x].result ELSE "none"]
        = [x \in Funs |-> IF x \in pairs THEN h[x].result ELSE "none"]
  BY <1>5
<1>8. FunPairs(g, f) = pairs /\ FunPairs(h, f) = pairs
  BY <1>3 DEF pairs
<1>. QED
  BY <1>6, <1>7, <1>8 DEF Report

\* A graph stays complete when a run is absorbed that found in the cache only
\* what the graph has a result of.
LEMMA AbsorbComplete ==
    ASSUME NEW P \in Program, NEW g, Complete(P, g), NEW new, IsGraph(new), FirmGraph(P, new),
           Exact(P, new), CalleesIn(P, new, Definitive(new) \cup Unknowns(new)),
           Unknowns(new) \subseteq Definitive(g)
    PROVE  /\ Complete(P, Absorb(g, new))
           /\ Definitive(g) \cup Definitive(new) \subseteq Definitive(Absorb(g, new))
<1>. DEFINE a == Absorb(g, new)
<1>1. /\ IsGraph(a)
      /\ DOMAIN a = DOMAIN g \cup DOMAIN new
      /\ \A f \in DOMAIN a :
           IF f \in Replaced(g, new)
           THEN f \in DOMAIN new /\ a[f] = new[f]
           ELSE /\ f \in DOMAIN g
                /\ a[f].result = g[f].result /\ a[f].files = g[f].files
                /\ a[f].calls = g[f].calls /\ a[f].run = g[f].run
  BY AbsorbType DEF Complete
<1>2. /\ FirmGraph(P, a)
      /\ \A f \in DOMAIN g : g[f].result \in Definite => f \in DOMAIN a /\ a[f].result = g[f].result
  BY AbsorbFirm DEF Complete
<1>. HIDE DEF a
<1>3. Definitive(g) \subseteq Definitive(a)
  BY <1>2 DEF Definitive
<1>4. ASSUME NEW x \in Definitive(new)
      PROVE  x \in Definitive(a)
  <2>1. CASE x \in Replaced(g, new)
    BY <1>1, <2>1 DEF Definitive
  <2>2. CASE x \notin Replaced(g, new)
    <3>1. x \in DOMAIN g /\ ~GivesWay(g[x], new[x])
      BY <2>2 DEF Replaced, Definitive
    <3>2. g[x] \in Vertex /\ g[x].result \notin {"assumed_equal", "unknown"}
      BY <3>1 DEF GivesWay, Complete, IsGraph
    <3>3. x \in Definitive(g)
      BY <3>1, <3>2 DEF Definitive, Definite, Vertex, Verdicts
    <3>. QED
      BY <1>3, <3>3
  <2>. QED
    BY <2>1, <2>2
<1>5. ASSUME NEW x \in Definitive(a)
      PROVE  \/ x \in Definitive(g) /\ a[x].calls = g[x].calls
             \/ x \in Definitive(new) /\ a[x].calls = new[x].calls
  BY <1>1 DEF Definitive
<1>6. Exact(P, a)
  <2>1. ASSUME NEW x \in Definitive(a), NEW s \in Side
        PROVE  a[x].calls[s] = EdgesTo(CalleesOf(P, x)) /\ P.home[s][x] \in CFiles
    BY <1>5 DEF Exact, Complete
  <2>. QED
    BY <2>1 DEF Exact
<1>7. CalleesIn(P, a, Definitive(a))
  <2>1. ASSUME NEW y \in Definitive(a), NEW x \in CalleesOf(P, y), NEW s \in Side,
               P.home[s][x] = P.home[s][y], P.home[Other(s)][x] # NoFile
        PROVE  x \in Definitive(a)
    <3>1. x \in Definitive(g) \cup Definitive(new) \cup Unknowns(new)
      BY <1>5, <2>1 DEF Complete, CalleesIn
    <3>. QED
      BY <1>3, <1>4, <3>1
  <2>. QED
    BY <2>1 DEF CalleesIn
<1>8. Unknowns(a) = {}
  <2>1. ASSUME NEW x \in Unknowns(a)
        PROVE  FALSE
    <3>1. x \in DOMAIN a /\ a[x].result = "unknown"
      BY DEF Unknowns
    <3>2. CASE x \in Replaced(g, new)
      <4>1. x \in Unknowns(new)
        BY <1>1, <3>1, <3>2 DEF Unknowns
      <4>2. x \in Definitive(a)
        BY <1>3, <4>1
      <4>. QED
        BY <3>1, <4>2 DEF Definitive, Definite
    <3>3. CASE x \notin Replaced(g, new)
      BY <1>1, <3>1, <3>3 DEF Unknowns, Complete
    <3>. QED
      BY <3>2, <3>3
  <2>. QED
    BY <2>1
<1>9. Complete(P, a) /\ Definitive(g) \cup Definitive(new) \subseteq Definitive(a)
  BY <1>1, <1>2, <1>3, <1>4, <1>6, <1>7, <1>8 DEF Complete
<1>. QED
  BY <1>9 DEF a

-----------------------------------------------------------------------------
(* The comparison of a function on its own.                                  *)

\* Linking what is missing again and again comes to an end: then nothing is
\* left to link.
LEMMA LinkedAloneLinks ==
    ASSUME NEW P \in Program, NEW f \in Funs
    PROVE  LinkedAlone(P, f) \in SUBSET Link /\ AllLinked(P, f, LinkedAlone(P, f), {})
<1>. DEFINE S == SUBSET Link
            F == [l \in S |-> LinkMissing(P, f, l)]
            Links == CHOOSE h : h = [n \in Nat |-> IF n = 0 THEN {} ELSE LinkMissing(P, f, h[n - 1])]
            N == 2 * Cardinality(CFiles)
<1>1. ASSUME NEW l \in S
      PROVE  LinkMissing(P, f, l) \in S /\ l \subseteq LinkMissing(P, f, l)
  BY DEF LinkMissing, NewLinks
<1>2. F \in [S -> S] /\ {} \in S /\ \A l \in S : F[l] = LinkMissing(P, f, l)
  BY <1>1
<1>. HIDE DEF F, S
<1>3. PICK h : h = [n \in Nat |-> IF n = 0 THEN {} ELSE F[h[n - 1]]] /\ h \in [Nat -> S]
  BY <1>2, IterationExists
<1>4. h = [n \in Nat |-> IF n = 0 THEN {} ELSE LinkMissing(P, f, h[n - 1])]
  <2>1. ASSUME NEW n \in Nat, n # 0
        PROVE  F[h[n - 1]] = LinkMissing(P, f, h[n - 1])
    <3>1. n - 1 \in Nat
      BY <2>1
    <3>2. h[n - 1] \in S
      BY <1>3, <3>1
    <3>. QED
      BY <1>2, <3>2
  <2>. QED
    BY <1>3, <2>1
<1>5. Links = [n \in Nat |-> IF n = 0 THEN {} ELSE LinkMissing(P, f, Links[n - 1])]
  BY <1>4
<1>6. LinkedAlone(P, f) = Links[N]
  BY DEF LinkedAlone
<1>. HIDE DEF Links
<1>7. Links[0] = {} /\ \A n \in Nat : Links[n + 1] = LinkMissing(P, f, Links[n])
  <2>. DEFINE G(n) == IF n = 0 THEN {} ELSE LinkMissing(P, f, Links[n - 1])
  <2>1. Links = [n \in Nat |-> G(n)]
    BY <1>5
  <2>. HIDE DEF G
  <2>2. \A n \in Nat : Links[n] = G(n)
    BY <2>1
  <2>3. Links[0] = {}
    BY <2>2 DEF G
  <2>4. ASSUME NEW n \in Nat
        PROVE  Links[n + 1] = LinkMissing(P, f, Links[n])
    <3>1. n + 1 \in Nat /\ n + 1 # 0 /\ n + 1 - 1 = n
      OBVIOUS
    <3>2. G(n + 1) = LinkMissing(P, f, Links[n + 1 - 1])
      BY <3>1 DEF G
    <3>. QED
      BY <2>2, <3>1, <3>2
  <2>. QED
    BY <2>3, <2>4
<1>. DEFINE T == {n \in Nat : /\ Links[n] \subseteq Link
                              /\ \/ LinkMissing(P, f, Links[n]) = Links[n]
                                 \/ Cardinality(Links[n]) >= n}
<1>8. 0 \in T
  BY <1>7, FS_EmptySet
<1>9. ASSUME NEW n \in Nat, n \in T
      PROVE  n + 1 \in T
  <2>. DEFINE l == Links[n]
              m == Links[n + 1]
  <2>1. l \subseteq Link /\ m = LinkMissing(P, f, l)
    BY <1>7, <1>9
  <2>2. m \subseteq Link /\ l \subseteq m
    BY <1>1, <2>1 DEF S
  <2>3. CASE m = l
    <3>1. Links[n + 1] \subseteq Link /\ LinkMissing(P, f, Links[n + 1]) = Links[n + 1]
      BY <2>1, <2>2, <2>3
    <3>. QED
      BY <3>1
  <2>4. CASE m # l
    <3>1. Cardinality(l) >= n
      BY <1>9, <2>1, <2>4
    <3>2. IsFiniteSet(m) /\ IsFiniteSet(l)
      BY <2>1, <2>2, LinkFinite, FS_Subset
    <3>3. /\ Cardinality(l) <= Cardinality(m) /\ Cardinality(l) # Cardinality(m)
          /\ Cardinality(l) \in Nat /\ Cardinality(m) \in Nat
      BY <2>2, <2>4, <3>2, FS_Subset, FS_CardinalityType
    <3>4. Cardinality(m) >= n + 1
      BY <3>1, <3>3
    <3>. QED
      BY <2>2, <3>4
  <2>. QED
    BY <2>3, <2>4
<1>10. N \in Nat /\ Cardinality(Link) <= N
  <2>. DEFINE Tuples == Side \X CFiles
              G == [t \in Tuples |-> [side |-> t[1], file |-> t[2]]]
  <2>1. IsFiniteSet(Side) /\ Cardinality(Side) = 2
    <3>1. IsFiniteSet({"L"}) /\ Cardinality({"L"}) = 1 /\ "R" \notin {"L"}
      BY FS_Singleton
    <3>2. /\ IsFiniteSet({"L"} \cup {"R"})
          /\ Cardinality({"L"} \cup {"R"}) = Cardinality({"L"}) + 1
      BY <3>1, FS_AddElement
    <3>3. Side = {"L"} \cup {"R"}
      BY DEF Side
    <3>. QED
      BY <3>1, <3>2, <3>3
  <2>2. Cardinality(CFiles) \in Nat
    BY FilesAssumption, FS_CardinalityType
  <2>3. IsFiniteSet(Tuples) /\ Cardinality(Tuples) = N
    BY <2>1, FilesAssumption, FS_Product
  <2>4. G \in Surjection(Tuples, Link)
    <3>1. G \in [Tuples -> Link]
      BY DEF Link
    <3>2. ASSUME NEW l \in Link
          PROVE  \E t \in Tuples : G[t] = l
      <4>1. <<l.side, l.file>> \in Tuples
        BY DEF Link
      <4>2. G[<<l.side, l.file>>] = l
        BY <4>1 DEF Link
      <4>. QED
        BY <4>1, <4>2
    <3>. QED
      BY <3>1, <3>2 DEF Surjection
  <2>. HIDE DEF G, Tuples
  <2>. QED
    BY <2>2, <2>3, <2>4, FS_Surjection
<1>. HIDE DEF N
<1>11. N \in T
  <2>. HIDE DEF T
  <2>. QED
    BY <1>8, <1>9, <1>10, AllNumbers
<1>. DEFINE L == Links[N]
<1>12. L \subseteq Link
  BY <1>11
<1>13. LinkMissing(P, f, L) = L
  <2>1. CASE Cardinality(L) >= N
    <3>1. Cardinality(L) <= Cardinality(Link) /\ Cardinality(L) \in Nat /\ Cardinality(Link) \in Nat
      BY <1>12, LinkFinite, FS_Subset, FS_CardinalityType
    <3>2. Cardinality(L) = Cardinality(Link)
      BY <1>10, <2>1, <3>1
    <3>3. L = Link
      BY <1>12, <3>2, LinkFinite, FS_Subset
    <3>. QED
      BY <1>1, <3>3 DEF S
  <2>. QED
    BY <1>11, <2>1
<1>. HIDE DEF L
<1>14. ASSUME NEW d \in MissingDefs(P, f, L, {})
       PROVE  NewLinks(P, L, d) = {}
  <2>1. NewLinks(P, L, d) \subseteq L
    BY <1>13 DEF LinkMissing
  <2>2. NewLinks(P, L, d) \cap L = {}
    BY DEF NewLinks
  <2>. QED
    BY <2>1, <2>2
<1>15. L \in SUBSET Link /\ AllLinked(P, f, L, {})
  BY <1>12, <1>14 DEF AllLinked
<1>. QED
  BY <1>6, <1>15 DEF L

\* The result of a function on its own is that of any complete graph that
\* says something definitive of it.
LEMMA AloneMeaning ==
    ASSUME NEW P \in Program, Plain(P), ~ControlFlowOnly, NEW f \in Funs, HasHome(P, f),
           NEW g, Complete(P, g), f \in Definitive(g)
    PROVE  ResultAlone(P, f) = Report(g, f)
<1>. DEFINE ln == LinkedAlone(P, f)
            a == RunGraph(P, f, ln, {}, 0)
<1>1. ln \in SUBSET Link /\ AllLinked(P, f, ln, {})
  BY LinkedAloneLinks
<1>. HIDE DEF ln
<1>2. 0 \in Nat /\ CallsNoVariant(P)
  BY DEF Plain
<1>3. Settles(P, f, {}, a)
  BY <1>1, <1>2, RunGraphSettles
<1>4. IsGraph(a) /\ FirmGraph(P, a)
  BY <1>2, RunGraphType, RunGraphFirm
<1>. HIDE DEF a
<1>5. Unknowns(a) = {}
  BY <1>3 DEF Settles
<1>6. Complete(P, a)
  BY <1>3, <1>4, <1>5 DEF Complete, Settles
<1>7. f \in Definitive(a)
  BY <1>3, <1>5 DEF HasHome, Settles
<1>8. Report(a, f) = Report(g, f)
  BY <1>6, <1>7, SameReport
<1>9. ResultAlone(P, f) = Report(a, f)
  BY DEF ResultAlone, HasHome, a, ln
<1>. QED
  BY <1>8, <1>9


-----------------------------------------------------------------------------
(* The invariant of the session, and the refinement.                         *)

\* The graph of the session is complete between two comparisons; that of a run
\* is, once nothing is left to link and it has been merged.
RefInv ==
    /\ Plain(prog)
    /\ Complete(prog, graph)
    /\ \A f \in todo \cup cur : results[f] = NoResult
    /\ pc = "next" => cur = {}
    /\ pc # "next" => \E f \in prog.group \ prog.absent :
                        cur = {f} /\ f \notin todo /\ HasHome(prog, f)
    /\ pc = "link" /\ ~relink => \A f \in cur :
            /\ \E n \in Nat : curr = RunGraph(prog, f, linked, Cached, n)
            /\ \A d \in MissingDefs(prog, f, linked, Cached) \ missing :
                    NewLinks(prog, linked, d) = {}
    /\ pc = "report" => Complete(prog, curr) /\ cur \subseteq Definitive(curr)

\* The programs and failures for which caching is proved transparent.
Transparent ==
    /\ \A P \in Programs : Plain(P)
    /\ ~ControlFlowOnly
    /\ "rerun" \notin MayFail /\ "link" \notin MayFail

LEMMA EmptyComplete == \A P : Complete(P, EmptyGraph)
BY DEF Complete, IsGraph, FirmGraph, Exact, CalleesIn, Unknowns, Definitive, EmptyGraph

LEMMA InitRef == Transparent /\ Init => RefInv
<1>. SUFFICES ASSUME Transparent, Init
              PROVE  RefInv
  OBVIOUS
<1>1. Plain(prog) /\ Complete(prog, graph)
  BY EmptyComplete DEF Transparent, Init
<1>2. \A f \in todo \cup cur : results[f] = NoResult
  <2>1. todo \cup cur \subseteq Funs
    BY ProgramsAssumption DEF Init, Program
  <2>. QED
    BY <2>1 DEF Init
<1>. QED
  BY <1>1, <1>2 DEF Init, RefInv

\* When nothing is left to link, the graph of the run settles its function.
LEMMA MergeSettles ==
    ASSUME Transparent, TypeOK, ResultsInv, RefInv, pc = "link", missing = {}, ~relink,
           NEW f \in cur
    PROVE  /\ Settles(prog, f, Cached, curr)
           /\ Unknowns(curr) \subseteq Definitive(graph)
           /\ IsGraph(curr) /\ FirmGraph(prog, curr)
           /\ HasHome(prog, f)
<1>1. PICK n \in Nat : curr = RunGraph(prog, f, linked, Cached, n)
  BY DEF RefInv
<1>2. AllLinked(prog, f, linked, Cached)
  BY DEF RefInv, AllLinked
<1>3. prog \in Program /\ Plain(prog) /\ ~ControlFlowOnly /\ f \in Funs /\ linked \in SUBSET Link
  BY DEF RefInv, TypeOK, Transparent
<1>4. Settles(prog, f, Cached, curr)
  BY <1>1, <1>2, <1>3, RunGraphSettles
<1>5. Unknowns(curr) \subseteq Definitive(graph)
  BY <1>4 DEF Settles, ResultsInv, CacheCoherent, Definitive
<1>6. IsGraph(curr) /\ FirmGraph(prog, curr)
  BY DEF TypeOK, ResultsInv
<1>7. HasHome(prog, f)
  BY DEF RefInv
<1>. QED
  BY <1>4, <1>5, <1>6, <1>7

\* Merging it gives a complete graph with a definitive result of the function.
LEMMA MergeComplete ==
    ASSUME Transparent, TypeOK, ResultsInv, RefInv, MergeGraph, NEW f \in cur
    PROVE  Complete(prog, graph') /\ Complete(prog, curr') /\ f \in Definitive(curr')
<1>1. /\ Settles(prog, f, Cached, curr)
      /\ Unknowns(curr) \subseteq Definitive(graph)
      /\ IsGraph(curr) /\ FirmGraph(prog, curr)
      /\ HasHome(prog, f)
  BY MergeSettles DEF MergeGraph
<1>2. Complete(prog, graph) /\ prog \in Program
  BY DEF RefInv, TypeOK
<1>3. CASE graph = EmptyGraph
  <2>1. graph' = graph /\ curr' = curr
    BY <1>3 DEF MergeGraph
  <2>2. Unknowns(curr) = {}
    BY <1>1, <1>3 DEF Definitive, EmptyGraph
  <2>3. Complete(prog, curr) /\ f \in Definitive(curr)
    BY <1>1, <2>2 DEF Complete, Settles
  <2>. QED
    BY <1>2, <2>1, <2>3
<1>4. CASE graph # EmptyGraph
  <2>1. graph' = Absorb(graph, curr) /\ curr' = graph'
    BY <1>4 DEF MergeGraph
  <2>2. Exact(prog, curr) /\ CalleesIn(prog, curr, Definitive(curr) \cup Unknowns(curr))
    BY <1>1 DEF Settles
  <2>3. /\ Complete(prog, Absorb(graph, curr))
        /\ Definitive(graph) \cup Definitive(curr) \subseteq Definitive(Absorb(graph, curr))
    BY <1>1, <1>2, <2>2, AbsorbComplete
  <2>4. f \in Definitive(graph) \cup Definitive(curr)
    BY <1>1 DEF Settles
  <2>. QED
    BY <2>1, <2>3, <2>4
<1>. QED
  BY <1>3, <1>4

LEMMA NextRef ==
    Transparent /\ TypeOK /\ ResultsInv /\ RefInv /\ [Next]_vars => RefInv'
<1>. SUFFICES ASSUME Transparent, TypeOK, ResultsInv, RefInv, [Next]_vars
              PROVE  RefInv'
  OBVIOUS
<1>0. /\ Plain(prog) /\ Complete(prog, graph) /\ prog \in Program
      /\ \A f \in todo \cup cur : results[f] = NoResult
      /\ todo \subseteq prog.group
  BY DEF RefInv, TypeOK
<1>1. CASE SkipAbsent \/ ReportUnknown
  <2>1. /\ pc = "next" /\ pc' = "next" /\ cur' = cur /\ cur = {}
        /\ prog' = prog /\ graph' = graph /\ curr' = curr
    BY <1>1 DEF SkipAbsent, ReportUnknown, RefInv
  <2>2. \A f \in todo' : f \in todo /\ results'[f] = results[f]
    <3>1. todo \subseteq Funs /\ results \in [Funs -> Result]
      BY DEF TypeOK, Program
    <3>2. CASE SkipAbsent
      BY <3>2 DEF SkipAbsent
    <3>3. CASE ReportUnknown
      <4>1. PICK f \in todo : /\ todo' = todo \ {f}
                             /\ results' = [results EXCEPT ![f].kind = "unknown"]
        BY <3>3 DEF ReportUnknown
      <4>. QED
        BY <3>1, <4>1
    <3>. QED
      BY <1>1, <3>2, <3>3
  <2>3. \A f \in todo' \cup cur' : results'[f] = NoResult
    BY <1>0, <2>1, <2>2
  <2>. QED
    BY <1>0, <2>1, <2>3 DEF RefInv
<1>2. CASE StartDiff
  <2>1. PICK f \in todo : /\ f \notin prog.absent /\ HasModules(f)
                          /\ todo' = todo \ {f} /\ cur' = {f}
    BY <1>2 DEF StartDiff
  <2>2. /\ pc = "next" /\ pc' = "simplify" /\ prog' = prog /\ graph' = graph
        /\ results' = results
    BY <1>2 DEF StartDiff
  <2>3. f \in prog.group \ prog.absent /\ cur' = {f} /\ f \notin todo' /\ HasHome(prog, f)
    BY <1>0, <2>1 DEF HasModules, HasHome
  <2>4. \A h \in todo' \cup cur' : results'[h] = NoResult
    BY <1>0, <2>1, <2>2
  <2>. QED
    BY <1>0, <2>2, <2>3, <2>4 DEF RefInv
<1>3. CASE ReuseGraph
  <2>1. /\ pc = "simplify" /\ pc' = "report" /\ curr' = graph
        /\ UNCHANGED <<prog, todo, cur, graph, results>>
        /\ \A f \in cur : Known(f)
    BY <1>3 DEF ReuseGraph
  <2>2. cur \subseteq Definitive(graph)
    <3>1. ASSUME NEW f \in cur
          PROVE  f \in Definitive(graph)
      <4>1. f \in DOMAIN graph /\ graph[f].result # "assumed_equal"
        BY <2>1 DEF Known
      <4>2. graph[f].result \in Verdicts /\ graph[f].result # "unknown"
        BY <1>0, <4>1 DEF Complete, IsGraph, Vertex, Unknowns
      <4>. QED
        BY <4>1, <4>2 DEF Definitive, Verdicts, Definite
    <3>. QED
      BY <3>1
  <2>3. \E f \in prog.group \ prog.absent : cur = {f} /\ f \notin todo /\ HasHome(prog, f)
    BY <2>1 DEF RefInv
  <2>. QED
    BY <1>0, <2>1, <2>2, <2>3 DEF RefInv
<1>4. CASE RunSimpLL
  <2>1. PICK f \in cur : /\ curr' = RunGraph(prog, f, linked, Cached, runs)
                         /\ missing' = MissingDefs(prog, f, linked, Cached)
    BY <1>4 DEF RunSimpLL
  <2>2. /\ pc = "simplify" /\ pc' = "link" /\ runs \in Nat
        /\ UNCHANGED <<prog, todo, cur, graph, linked, cache, results>>
    BY <1>4 DEF RunSimpLL, TypeOK
  <2>3. \E h \in prog.group \ prog.absent : cur = {h} /\ h \notin todo /\ HasHome(prog, h)
    BY <2>2 DEF RefInv
  <2>4. cur = {f} /\ Cached' = Cached
    BY <2>2, <2>3 DEF Cached
  <2>5. \A h \in cur' : /\ \E n \in Nat : curr' = RunGraph(prog, h, linked, Cached, n)
                        /\ MissingDefs(prog, h, linked, Cached) \ missing' = {}
    BY <2>1, <2>2, <2>4
  <2>. QED
    BY <1>0, <2>2, <2>3, <2>4, <2>5 DEF RefInv
<1>5. CASE SimpLLFails
  <2>1. /\ pc' = "next" /\ cur' = {} /\ prog' = prog /\ todo' = todo
        /\ graph' = IF curr = EmptyGraph THEN graph ELSE curr
        /\ (IF curr = EmptyGraph THEN "first run" ELSE "rerun") \in MayFail
    BY <1>5, Zenon DEF SimpLLFails
  <2>2. curr = EmptyGraph
    BY <2>1, Zenon DEF Transparent
  <2>3. \E f \in cur : results' = [results EXCEPT ![f].kind = "error"]
    BY <1>5, Zenon DEF SimpLLFails
  <2>4. pc # "next"
    BY <1>5 DEF SimpLLFails
  <2>5. \A f \in todo : results'[f] = results[f]
    <3>1. PICK f \in cur : results' = [results EXCEPT ![f].kind = "error"]
      BY <2>3
    <3>2. f \notin todo
      BY <2>4 DEF RefInv
    <3>. QED
      BY <1>0, <3>1, <3>2 DEF TypeOK, Program
  <2>. QED
    BY <1>0, <2>1, <2>2, <2>5 DEF RefInv
<1>6. CASE LinkDef
  <2>1. /\ pc = "link" /\ pc' = "link" /\ relink'
        /\ UNCHANGED <<prog, todo, cur, graph, results>>
    BY <1>6 DEF LinkDef
  <2>2. \E h \in prog.group \ prog.absent : cur = {h} /\ h \notin todo /\ HasHome(prog, h)
    BY <2>1 DEF RefInv
  <2>. QED
    BY <1>0, <2>1, <2>2 DEF RefInv
<1>7. CASE LinkDefFails
  <2>1. PICK d \in missing : missing' = missing \ {d} /\ NewLinks(prog, linked, d) = {}
    BY <1>7, Zenon DEF LinkDefFails, Transparent
  <2>2. /\ pc = "link" /\ pc' = "link" /\ relink' = relink /\ Cached' = Cached
        /\ UNCHANGED <<prog, todo, cur, graph, curr, linked, results>>
    BY <1>7, Zenon DEF LinkDefFails, Cached
  <2>3. \E h \in prog.group \ prog.absent : cur = {h} /\ h \notin todo /\ HasHome(prog, h)
    BY <2>2 DEF RefInv
  <2>4. ASSUME ~relink, NEW f \in cur
        PROVE  /\ \E n \in Nat : curr = RunGraph(prog, f, linked, Cached, n)
               /\ \A c \in MissingDefs(prog, f, linked, Cached) \ missing' :
                        NewLinks(prog, linked, c) = {}
    BY <2>1, <2>2, <2>4 DEF RefInv
  <2>. QED
    BY <1>0, <2>2, <2>3, <2>4 DEF RefInv
<1>8. CASE Rerun
  <2>1. /\ pc = "link" /\ pc' = "simplify"
        /\ UNCHANGED <<prog, todo, cur, graph, results>>
    BY <1>8 DEF Rerun
  <2>2. \E h \in prog.group \ prog.absent : cur = {h} /\ h \notin todo /\ HasHome(prog, h)
    BY <2>1 DEF RefInv
  <2>. QED
    BY <1>0, <2>1, <2>2 DEF RefInv
<1>9. CASE MergeGraph
  <2>1. /\ pc = "link" /\ pc' = "report" /\ UNCHANGED <<prog, todo, cur, results>>
    BY <1>9 DEF MergeGraph
  <2>2. \E h \in prog.group \ prog.absent : cur = {h} /\ h \notin todo /\ HasHome(prog, h)
    BY <2>1 DEF RefInv
  <2>3. Complete(prog, graph') /\ Complete(prog, curr') /\ cur \subseteq Definitive(curr')
    BY <1>9, <2>2, MergeComplete
  <2>. QED
    BY <1>0, <2>1, <2>2, <2>3 DEF RefInv
<1>10. CASE ReportResult
  <2>1. /\ pc = "report" /\ pc' = "next" /\ graph' = curr /\ cur' = {}
        /\ prog' = prog /\ todo' = todo
    BY <1>10 DEF ReportResult
  <2>2. Complete(prog, curr)
    BY <2>1 DEF RefInv
  <2>3. \A f \in todo : results'[f] = results[f]
    <3>1. PICK f \in cur : results' = [results EXCEPT ![f] = Report(curr, f)]
      BY <1>10 DEF ReportResult
    <3>2. f \notin todo
      BY <2>1 DEF RefInv
    <3>. QED
      BY <1>0, <3>1, <3>2 DEF TypeOK, Program
  <2>. QED
    BY <1>0, <2>1, <2>2, <2>3 DEF RefInv
<1>11. CASE Done \/ UNCHANGED vars
  <2>1. UNCHANGED vars
    BY <1>11 DEF Done
  <2>2. UNCHANGED <<prog, todo, cur, pc, graph, curr, missing, relink, linked, results>>
        /\ Cached' = Cached
    BY <2>1 DEF vars, Cached
  <2>. QED
    BY <2>2 DEF RefInv
<1>. QED
  BY <1>1, <1>2, <1>3, <1>4, <1>5, <1>6, <1>7, <1>8, <1>9, <1>10, <1>11 DEF Next

-----------------------------------------------------------------------------
LEMMA InitImplements == Init => Independent!Init
<1>. SUFFICES ASSUME Init
              PROVE  Independent!Init
  OBVIOUS
<1>1. prog \in Program /\ todo \cup cur = prog.group /\ results = [f \in Funs |-> NoResult]
  BY ProgramsAssumption DEF Init
<1>. QED
  BY <1>1 DEF Independent!Init

\* The steps that give a function its result are those of the comparison on its own.
LEMMA NextImplements ==
    Transparent /\ TypeOK /\ ResultsInv /\ RefInv /\ [Next]_vars
        => [Independent!Next]_<<prog, todo \cup cur, results>>
<1>. SUFFICES ASSUME Transparent, TypeOK, ResultsInv, RefInv, [Next]_vars
              PROVE  [Independent!Next]_<<prog, todo \cup cur, results>>
  OBVIOUS
<1>1. CASE SkipAbsent
  <2>1. PICK f \in todo : f \in prog.absent /\ todo' = todo \ {f}
    BY <1>1 DEF SkipAbsent
  <2>2. cur = {} /\ cur' = {} /\ UNCHANGED <<prog, results>>
    BY <1>1 DEF SkipAbsent, RefInv
  <2>3. f \in Funs
    BY DEF TypeOK, Program
  <2>4. Independent!Skip(f)
    BY <2>1, <2>2 DEF Independent!Skip
  <2>. QED
    BY <2>3, <2>4 DEF Independent!Next
<1>2. CASE ReportUnknown
  <2>1. PICK f \in todo : /\ f \notin prog.absent /\ ~HasModules(f)
                          /\ todo' = todo \ {f}
                          /\ results' = [results EXCEPT ![f].kind = "unknown"]
    BY <1>2 DEF ReportUnknown
  <2>2. cur = {} /\ cur' = {} /\ prog' = prog
    BY <1>2 DEF ReportUnknown, RefInv
  <2>3. f \in Funs /\ results \in [Funs -> Result] /\ results[f] = NoResult
    BY DEF TypeOK, Program, RefInv
  <2>4. ResultAlone(prog, f) = [NoResult EXCEPT !.kind = "unknown"]
    BY <2>1 DEF ResultAlone, HasModules
  <2>5. results' = [results EXCEPT ![f] = ResultAlone(prog, f)]
    BY <2>1, <2>3, <2>4
  <2>6. Independent!Compare(f)
    BY <2>1, <2>2, <2>5 DEF Independent!Compare
  <2>. QED
    BY <2>3, <2>6 DEF Independent!Next
<1>3. CASE ReportResult
  <2>1. pc = "report" /\ prog' = prog /\ todo' = todo /\ cur' = {}
    BY <1>3 DEF ReportResult
  <2>2. PICK f \in cur : results' = [results EXCEPT ![f] = Report(curr, f)]
    BY <1>3 DEF ReportResult
  <2>3. cur = {f} /\ f \in prog.group \ prog.absent /\ f \notin todo /\ HasHome(prog, f)
    BY <2>1, <2>2 DEF RefInv
  <2>4. /\ prog \in Program /\ Plain(prog) /\ ~ControlFlowOnly /\ f \in Funs
        /\ Complete(prog, curr) /\ f \in Definitive(curr)
    BY <2>1, <2>3 DEF RefInv, TypeOK, Transparent
  <2>5. ResultAlone(prog, f) = Report(curr, f)
    BY <2>3, <2>4, AloneMeaning
  <2>6. todo' \cup cur' = (todo \cup cur) \ {f} /\ f \in (todo \cup cur) \ prog.absent
    BY <2>1, <2>3
  <2>7. Independent!Compare(f)
    BY <2>1, <2>2, <2>5, <2>6 DEF Independent!Compare
  <2>. QED
    BY <2>4, <2>7 DEF Independent!Next
<1>4. CASE SimpLLFails
  <2>1. /\ pc = "simplify" /\ prog' = prog /\ todo' = todo /\ cur' = {}
        /\ (IF curr = EmptyGraph THEN "first run" ELSE "rerun") \in MayFail
    BY <1>4, Zenon DEF SimpLLFails
  <2>2. "first run" \in MayFail
    BY <2>1, Zenon DEF Transparent
  <2>3. PICK f \in cur : results' = [results EXCEPT ![f].kind = "error"]
    BY <1>4, Zenon DEF SimpLLFails
  <2>4. cur = {f} /\ f \in prog.group \ prog.absent /\ f \notin todo /\ f \in Funs
    BY <2>1, <2>3 DEF RefInv, TypeOK
  <2>5. todo' \cup cur' = (todo \cup cur) \ {f} /\ f \in (todo \cup cur) \ prog.absent
    BY <2>1, <2>4
  <2>6. Independent!Fail(f)
    BY <2>1, <2>2, <2>3, <2>5, Zenon DEF Independent!Fail
  <2>. QED
    BY <2>4, <2>6 DEF Independent!Next
<1>5. CASE StartDiff
  <2>1. PICK f \in todo : todo' = todo \ {f} /\ cur' = {f}
    BY <1>5 DEF StartDiff
  <2>2. cur = {} /\ prog' = prog /\ results' = results
    BY <1>5 DEF StartDiff, RefInv
  <2>3. todo' \cup cur' = todo \cup cur
    BY <2>1, <2>2
  <2>. QED
    BY <2>2, <2>3
<1>6. CASE UNCHANGED <<prog, todo, cur, results>>
  BY <1>6
<1>7. \/ SkipAbsent \/ ReportUnknown \/ ReportResult \/ SimpLLFails \/ StartDiff
      \/ UNCHANGED <<prog, todo, cur, results>>
  BY Zenon DEF Next, vars, ReuseGraph, RunSimpLL, LinkDef, LinkDefFails, Rerun, MergeGraph, Done
<1>. QED
  BY <1>1, <1>2, <1>3, <1>4, <1>5, <1>6, <1>7

\* For programs without variants, inlined calls and header functions, when
\* neither a repeated run of SimpLL nor a link fails, the session gives every
\* function the result it is given on its own: the graph and the cache that
\* earlier comparisons leave to functions_diff make no difference to a result.
THEOREM CachingMakesNoDifference ==
    ASSUME \A P \in Programs : Plain(P), ~ControlFlowOnly,
           "rerun" \notin MayFail, "link" \notin MayFail
    PROVE  Spec => CachingIsTransparent
<1>1. Transparent
  BY DEF Transparent
<1>2. Init => TypeOK /\ ResultsInv /\ RefInv /\ Independent!Init
  <2>1. \A P \in Programs : CallsNoVariant(P)
    BY DEF Plain
  <2>. QED
    BY <1>1, <2>1, InitType, InitResults, InitRef, InitImplements
<1>3. TypeOK /\ ResultsInv /\ RefInv /\ [Next]_vars => TypeOK' /\ ResultsInv' /\ RefInv'
  BY <1>1, NextType, NextResults, NextRef DEF Transparent
<1>4. TypeOK /\ ResultsInv /\ RefInv /\ [Next]_vars
        => [Independent!Next]_<<prog, todo \cup cur, results>>
  BY <1>1, NextImplements
<1>. QED
  BY <1>2, <1>3, <1>4, PTL DEF Spec, CachingIsTransparent, Independent!Spec

=============================================================================
