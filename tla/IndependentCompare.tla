------------------------- MODULE IndependentCompare -------------------------
(***************************************************************************)
(* What a user may expect of the comparison of a group: every function is  *)
(* given the result it would have been given on its own, with no graph and *)
(* no cache left by the functions compared before it.                      *)
(***************************************************************************)
CONSTANTS
    Funs, Program,       \* as in SimpLLRun
    NoResult,
    ResultAlone(_, _),   \* the result of a function of a program, on its own
    RunsMayFail          \* a function may end with an error instead

VARIABLES prog, todo, results

Init ==
    /\ prog \in Program
    /\ todo = prog.group
    /\ results = [f \in Funs |-> NoResult]

Skip(f) ==
    /\ f \in todo \cap prog.absent
    /\ todo' = todo \ {f}
    /\ UNCHANGED <<prog, results>>

Compare(f) ==
    /\ f \in todo \ prog.absent
    /\ todo' = todo \ {f}
    /\ results' = [results EXCEPT ![f] = ResultAlone(prog, f)]
    /\ UNCHANGED prog

Fail(f) ==
    /\ RunsMayFail
    /\ f \in todo \ prog.absent
    /\ todo' = todo \ {f}
    /\ results' = [results EXCEPT ![f].kind = "error"]
    /\ UNCHANGED prog

Next == \E f \in Funs : Skip(f) \/ Compare(f) \/ Fail(f)

Spec == Init /\ [][Next]_<<prog, todo, results>>

=============================================================================
