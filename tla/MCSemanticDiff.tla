--------------------------- MODULE MCSemanticDiff ---------------------------
(* What a graph may report, for TLC: a function, and one or two objects that *)
(* llreve is asked about, of different or of the same name.                  *)
EXTENDS SemanticDiff

Object(n, k, s) == [name |-> n, diff_kind |-> k, kind |-> "NOT_EQUAL", same |-> s]
Lists == {<<>>}
    \cup {<<Object("f", "function", FALSE), Object("t", "type", s)>> : s \in BOOLEAN}
    \cup {<<Object("t", "type", s), Object(n, "syntactic", ~ s)>> : s \in BOOLEAN, n \in {"t", "m"}}
=============================================================================
