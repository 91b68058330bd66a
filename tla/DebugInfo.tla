------------------------------ MODULE DebugInfo ------------------------------
(***************************************************************************)
(* What SimpLL learns from debug information before it compares functions  *)
(* (DebugInfo.cpp): the names of the members of structs, by type and       *)
(* index, and which constants of the old version may come from a macro or  *)
(* an enumerator that has another value in the new one.  ValueCompare      *)
(* uses both.                                                              *)
(***************************************************************************)
EXTENDS Integers, Sequences, FiniteSets, SequencesExt, TLC

CONSTANTS
    Members,    \* side -> name of a struct -> its members in C, where there is debug information:
                \*   [name, off, size, align, storage], in bits.  align is what the source asks for,
                \*   or 0; storage is where the unit of a bit-field begins, and off elsewhere.
    Macros      \* side -> the macros and enumerators of its compile units: [name, value]

NoAccess == [src |-> "none"]    \* what is no GEP

-----------------------------------------------------------------------------
(***************************************************************************)
(* Members of structs.                                                     *)
(***************************************************************************)
isSameElemIndex(m) == m.storage # m.off

\* getTypeMemberIndex: the index of the member called name, or -1.
LookAt(s, m, name) ==
    LET shared == IF isSameElemIndex(m) THEN s.index - 1 ELSE s.index
        index  == IF m.align > 0 /\ s.next % m.align # 0 THEN shared + 1 ELSE shared
    IN  IF s.found >= 0 THEN s
        ELSE [index |-> IF m.size > 0 THEN index + 1 ELSE index, next |-> m.off + m.size,
              found |-> IF m.name = name THEN index ELSE -1]
getTypeMemberIndex(type, name) ==
    FoldLeft(LAMBDA s, m : LookAt(s, m, name), [index |-> 0, next |-> 0, found |-> -1], type).found

\* getElementNameAtIndex: the first member that begins an element of the number, or "".
BeginsAnyMember(m) == m.off > 0                             \* mutant: bit-fields are elements
Begins(m) == m.off > 0 /\ ~isSameElemIndex(m)
ElementOf(type, n) == Cardinality({k \in 1 .. n : Begins(type[k])})
getElementNameAtIndex(type, index) ==
    LET there == {n \in DOMAIN type : ElementOf(type, n) = index}
    IN  IF there = {} THEN "" ELSE type[CHOOSE n \in there : \A k \in there : n <= k].name

-----------------------------------------------------------------------------
(***************************************************************************)
(* Alignment of indices.  An access (GEP) is [src, idx]: the type that the *)
(* pointer points to, and the indices, of which the first counts elements  *)
(* of that type.                                                           *)
(***************************************************************************)
\* getIndexedType: path has the indices without the first.  Only constants that are in range
\* lead into a struct.
NullType == [id |-> "null"]
RECURSIVE PathType(_, _)
PathType(t, path) ==
    IF path = <<>> THEN t
    ELSE LET i == Head(path)
         IN  CASE t.id = "struct" /\ i.id = "int" /\ i.val < Len(t.sub) -> PathType(t.sub[i.val + 1], Tail(path))
               [] t.id \in {"array", "vector"} -> PathType(t.sub[1], Tail(path))
               [] OTHER -> NullType

\* The loop adds to the indices of the first GEP the one that comes next, and not the one it
\* was at: the type at the k-th index is found with the indices 3 .. k.  Where there is none
\* the code reads through a null pointer.
TypeAt(g, k) == PathType(g.src, SubSeq(g.idx, 3, k))
ReadsNull(g) == g # NoAccess /\ \E k \in DOMAIN g.idx : TypeAt(g, k) = NullType

\* Of those of the second GEP, others were added: none where the loop continues early.
TypeAtOther(o, others) == PathType(o.src, SubSeq(o.idx, 2, others))

StructsOf(side) == DOMAIN Members[side]
Keep(map, key, value) == IF key \in DOMAIN map THEN map ELSE key :> value @@ map

\* The struct of the second version whose member gets the name.
OtherStruct(t, o, others) ==
    IF o # NoAccess /\ TypeAtOther(o, others).id = "struct" THEN TypeAtOther(o, others).name ELSE t.name

\* extractAlignmentFromInstructions at the k-th index.  s has IndexMaps, StructFieldNames for
\* either side, and the number of indices of the second GEP.
AlignIndex(s, g, o, k) ==
    LET t == TypeAt(g, k)
        key == <<t.name, g.idx[k].val>>
        stepped == [s EXCEPT !.others = IF o # NoAccess /\ @ < Len(o.idx) THEN @ + 1 ELSE @]
        name == getElementNameAtIndex(Members.L[t.name], g.idx[k].val)
        second == getTypeMemberIndex(Members.R[t.name], name)
    IN  CASE t.id # "struct" -> s
          [] t.id = "struct" /\ g.idx[k].id # "int" -> stepped
          [] t.id = "struct" /\ g.idx[k].id = "int" ->
                IF key \in DOMAIN s.index THEN s
                ELSE IF t.name \notin StructsOf("L") \cap StructsOf("R")
                THEN [s EXCEPT !.index = key :> g.idx[k].val @@ @]
                ELSE IF second <= 0 THEN [stepped EXCEPT !.index = key :> g.idx[k].val @@ @]
                ELSE [stepped EXCEPT !.index = key :> second @@ @,
                                     !.L = Keep(@, key, name),
                                     !.R = Keep(@, <<OtherStruct(t, o, s.others), second>>, name)]

AlignInstructions(s, g, o) ==
    IF g = NoAccess THEN s
    ELSE FoldLeft(LAMBDA r, k : AlignIndex(r, g, o, k), [s EXCEPT !.others = 0], [k \in DOMAIN g.idx |-> k])

\* The instructions of a function of both versions, in their order; the second function may end
\* earlier.
calculateGEPIndexAlignments(funL, funR) ==
    FoldLeft(LAMBDA s, n : AlignInstructions(s, funL[n], IF n \in DOMAIN funR THEN funR[n] ELSE NoAccess),
             [index |-> <<>>, L |-> <<>>, R |-> <<>>, others |-> 0], [n \in DOMAIN funL |-> n])

-----------------------------------------------------------------------------
(***************************************************************************)
(* Constants from macros and enumerators, whose values are texts.          *)
(***************************************************************************)
Signed(c) == IF c.type.n < 31 /\ c.val >= 2 ^ (c.type.n - 1) THEN c.val - 2 ^ c.type.n ELSE c.val
valueAsString(c) == IF c.id = "int" THEN ToString(Signed(c)) ELSE ""

\* MacroUsageMap: the constants that have the value of a macro.
collectMacrosWithValue(name, used) ==
    SelectSeq(used, LAMBDA c : valueAsString(c) # "" /\ [name |-> name, value |-> valueAsString(c)] \in Range(Macros.L))

\* addAlignment: the value in the second version is compared with that of the first constant,
\* by address; addresses are in the order of used.  A constant keeps the first value it gets.
addAlignment(map, macro, used) ==
    LET usage == collectMacrosWithValue(macro.name, used)
    IN  IF usage = <<>> \/ valueAsString(usage[1]) = macro.value THEN map
        ELSE FoldLeft(LAMBDA m, c : Keep(m, c, macro.value), map, usage)

calculateMacroAlignments(used) == FoldLeft(LAMBDA map, macro : addAlignment(map, macro, used), <<>>, Macros.R)
=============================================================================
