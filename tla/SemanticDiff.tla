---------------------------- MODULE SemanticDiff ----------------------------
(***************************************************************************)
(* The end of functions_diff (semdiff/function_diff.py): what the graph    *)
(* reports is compared once more, by llreve and Z3 where that was asked    *)
(* for.  llreve writes a formula into a pipe, Z3 reads it and answers, a   *)
(* timer kills both, and DiffKemp waits for Z3 only.  The processes, the   *)
(* timer's thread and DiffKemp's own are interleaved in every way.         *)
(***************************************************************************)
EXTENDS Naturals, Sequences, FiniteSets

CONSTANTS
    ObjectLists,  \* sequences of [name, diff_kind, kind, same] that a graph may report
    Formula,      \* length of the formula, its query being the last part
    PipeSize      \* what fits into a pipe, of the formula or of the answer

Objects == [name : STRING, diff_kind : STRING, kind : STRING, same : BOOLEAN]
ASSUME ObjectsAssumption == \A l \in ObjectLists : l \in Seq(Objects)
ASSUME SizesAssumption == Formula \in Nat \ {0} /\ PipeSize \in Nat \ {0}

VARIABLES
    objects,      \* objects_to_compare, those left
    reused,       \* whether the graph is that of the session, without simplified modules
    result,       \* the kind of the result and its inner results
    pc,           \* where DiffKemp's thread is
    llreve,       \* [state, written] of the llreve process
    pipe,         \* parts of the formula in the pipe
    z3,           \* [state, read, says, out] of the Z3 process
    timer,        \* state of the timer's thread
    result_kind,  \* the verdict as computed so far
    strays        \* llreve processes of earlier pairs that still run

procs == <<llreve, pipe, z3, timer>>
vars == <<objects, reused, result, pc, procs, result_kind, strays>>

\* Result.Kind: the later ones have priority.
Kinds == <<"NONE", "EQUAL_SYNTAX", "ASSUMED_EQUAL", "EQUAL", "NOT_EQUAL", "UNKNOWN", "TIMEOUT", "ERROR">>
Priority(k) == CHOOSE i \in DOMAIN Kinds : Kinds[i] = k
Worse(k, l) == IF Priority(k) > Priority(l) THEN k ELSE l

\* Result.add_inner: the last result of a name stays, the worst kind wins.
AddInner(kind, how) ==
    result' = [kind |-> Worse(result.kind, kind),
               inner |-> {r \in result.inner : r.name # Head(objects).name}
                            \cup {[name |-> Head(objects).name, same |-> Head(objects).same,
                                   kind |-> kind, how |-> how]}]

NoLlreve == [state |-> "none", written |-> 0]
NoZ3 == [state |-> "none", read |-> 0, says |-> <<>>, out |-> <<>>]

Init == /\ objects \in ObjectLists /\ reused \in BOOLEAN
        /\ result = [kind |-> IF objects = <<>> THEN "EQUAL_SYNTAX" ELSE "NONE", inner |-> {}]
        /\ pc = "next" /\ llreve = NoLlreve /\ pipe = 0 /\ z3 = NoZ3
        /\ timer = "none" /\ result_kind = "NONE" /\ strays = 0

-----------------------------------------------------------------------------
(***************************************************************************)
(* DiffKemp's thread.                                                      *)
(***************************************************************************)
FromGraph == [z3 |-> "none", read |-> 0, timer |-> "none"]
ByTool(o) == o.diff_kind # "function"

Finish == /\ pc = "next" /\ objects = <<>> /\ pc' = "done"
          /\ UNCHANGED <<objects, reused, result, procs, result_kind, strays>>

\* An object that the tool is not asked about keeps the kind the graph has.
KeepKind == /\ pc = "next" /\ objects # <<>> /\ ~ ByTool(Head(objects))
            /\ AddInner(Head(objects).kind, FromGraph)
            /\ objects' = Tail(objects)
            /\ UNCHANGED <<reused, pc, procs, result_kind, strays>>

\* The names of the simplified modules are empty: get_functions_called_by raises.
NoModules == /\ pc = "next" /\ objects # <<>> /\ ByTool(Head(objects)) /\ reused
             /\ pc' = "crashed"
             /\ UNCHANGED <<objects, reused, result, procs, result_kind, strays>>

StartLlreve == /\ pc = "next" /\ objects # <<>> /\ ByTool(Head(objects)) /\ ~ reused
               /\ llreve' = [state |-> "running", written |-> 0] /\ pipe' = 0
               /\ pc' = "popen_z3"
               /\ UNCHANGED <<objects, reused, result, z3, timer, result_kind, strays>>

StartZ3 == /\ pc = "popen_z3"
           /\ z3' = [NoZ3 EXCEPT !.state = "running"] /\ pc' = "start_timer"
           /\ UNCHANGED <<objects, reused, result, llreve, pipe, timer, result_kind, strays>>

\* There is no z3 to run: the exception ends DiffKemp.
Z3Missing == /\ pc = "popen_z3" /\ pc' = "crashed"
             /\ UNCHANGED <<objects, reused, result, procs, result_kind, strays>>

StartTimerNever == /\ pc = "start_timer" /\ pc' = "wait"
                   /\ UNCHANGED <<objects, reused, result, procs, result_kind, strays>>

StartTimer == /\ pc = "start_timer" /\ timer' = "running" /\ pc' = "wait"
              /\ UNCHANGED <<objects, reused, result, llreve, pipe, z3, result_kind, strays>>

WaitZ3 == /\ pc = "wait" /\ z3.state # "running" /\ pc' = "read"
          /\ UNCHANGED <<objects, reused, result, procs, result_kind, strays>>

Verdict == [sat |-> "NOT_EQUAL", unsat |-> "EQUAL", unknown |-> "UNKNOWN"]
LastVerdict(out) == LET said == {i \in DOMAIN out : out[i] \in DOMAIN Verdict}
                    IN IF said = {} THEN "ERROR" ELSE Verdict[out[CHOOSE i \in said : \A j \in said : j <= i]]
ExitedAnyhow(code, kind) == kind
ExitedWith(code, kind) == IF code # "ended" THEN "ERROR" ELSE kind

ReadVerdict == LastVerdict(z3.out)
ReadAnswer == /\ pc = "read"
              /\ result_kind' = ExitedWith(z3.state, ReadVerdict)
              /\ pc' = "finally"
              /\ UNCHANGED <<objects, reused, result, procs, strays>>

TimerIsWaiting == timer = "running"
TimerIsAlive == timer \in {"running", "killing_llreve", "killing_z3", "killed"}
OrTimeout(kind) == IF TimerIsAlive THEN kind ELSE "TIMEOUT"

CheckTimer == /\ pc = "finally" /\ pc' = "cancel"
              /\ result_kind' = OrTimeout(result_kind)
              /\ UNCHANGED <<objects, reused, result, procs, strays>>

\* Returning drops the last references to the pipe, which then has no reader left.
CancelTimer == /\ pc = "cancel"
               /\ timer' = IF timer = "running" THEN "cancelled" ELSE timer
               /\ AddInner(result_kind, [z3 |-> z3.state, read |-> z3.read, timer |-> timer])
               /\ objects' = Tail(objects) /\ pc' = "over"
               /\ UNCHANGED <<reused, llreve, pipe, z3, result_kind, strays>>

\* The timer's thread holds the processes until it is over.
NextPair == /\ pc = "over" /\ timer \in {"cancelled", "ended"}
            /\ strays' = strays + IF llreve.state = "running" THEN 1 ELSE 0
            /\ llreve' = NoLlreve /\ pipe' = 0 /\ z3' = NoZ3 /\ timer' = "none"
            /\ result_kind' = "NONE" /\ pc' = "next"
            /\ UNCHANGED <<objects, reused, result>>

Main == \/ Finish \/ KeepKind \/ NoModules \/ StartLlreve \/ StartZ3 \/ Z3Missing \/ StartTimer
        \/ WaitZ3 \/ ReadAnswer \/ CheckTimer \/ CancelTimer \/ NextPair

-----------------------------------------------------------------------------
(***************************************************************************)
(* The timer: after the timeout it kills each process of its list.         *)
(***************************************************************************)
Killed(state) == IF state = "running" THEN "killed" ELSE state

TimerExpires == /\ timer = "running" /\ timer' = "killing_llreve"
                /\ UNCHANGED <<objects, reused, result, pc, llreve, pipe, z3, result_kind, strays>>
KillLlreve == /\ timer = "killing_llreve" /\ timer' = "killing_z3"
              /\ llreve' = [llreve EXCEPT !.state = Killed(@)]
              /\ UNCHANGED <<objects, reused, result, pc, pipe, z3, result_kind, strays>>
KillZ3 == /\ timer = "killing_z3" /\ timer' = "killed"
          /\ z3' = [z3 EXCEPT !.state = Killed(@)]
          /\ UNCHANGED <<objects, reused, result, pc, llreve, pipe, result_kind, strays>>
TimerEnds == /\ timer = "killed" /\ timer' = "ended"
             /\ UNCHANGED <<objects, reused, result, pc, llreve, pipe, z3, result_kind, strays>>

TimerThread == TimerExpires \/ KillLlreve \/ KillZ3 \/ TimerEnds

-----------------------------------------------------------------------------
(***************************************************************************)
(* llreve and Z3.  Either may fail at any point; Z3 answers when it has    *)
(* read the query.  DiffKemp's own end of the pipe keeps it open after Z3  *)
(* is gone, so that llreve blocks instead of being told.                   *)
(***************************************************************************)
Rest == <<objects, reused, result, pc, timer, result_kind>>

LlreveWrites == /\ llreve.state = "running" /\ llreve.written < Formula /\ pipe < PipeSize
                /\ llreve' = [llreve EXCEPT !.written = @ + 1] /\ pipe' = pipe + 1
                /\ UNCHANGED <<Rest, z3, strays>>
LlreveEnds == /\ llreve.state = "running"
              /\ \/ llreve' = [llreve EXCEPT !.state = "failed"]
                 \/ llreve.written = Formula /\ llreve' = [llreve EXCEPT !.state = "ended"]
              /\ UNCHANGED <<Rest, pipe, z3, strays>>
\* A stray process ends, or writes into the pipe without a reader and is told.
StrayEnds == /\ strays > 0 /\ strays' = strays - 1
             /\ UNCHANGED <<Rest, llreve, pipe, z3>>

Z3Reads == /\ z3.state = "running" /\ pipe > 0
           /\ pipe' = pipe - 1 /\ z3' = [z3 EXCEPT !.read = @ + 1]
           /\ UNCHANGED <<Rest, llreve, strays>>

\* What Z3 prints when it has solved the query; then a model or messages may follow.
Z3Solves == /\ z3.state = "running" /\ z3.read = Formula /\ z3.says = <<>> /\ z3.out = <<>>
            /\ \E answer \in {IF Head(objects).same THEN "unsat" ELSE "sat", "unknown"}, n \in 0 .. PipeSize :
                  z3' = [z3 EXCEPT !.says = <<answer>> \o [i \in 1 .. n |-> "model"]]
            /\ UNCHANGED <<Rest, llreve, pipe, strays>>
Z3Prints == /\ z3.state = "running" /\ z3.says # <<>> /\ Len(z3.out) < PipeSize
            /\ z3' = [z3 EXCEPT !.says = Tail(@), !.out = Append(@, Head(z3.says))]
            /\ UNCHANGED <<Rest, llreve, pipe, strays>>
Z3Ends == /\ z3.state = "running"
          /\ \/ z3' = [z3 EXCEPT !.state = "failed"]
             \/ /\ pipe = 0 /\ llreve.state # "running" /\ z3.says = <<>>
                /\ z3.read = Formula => z3.out # <<>>
                /\ z3' = [z3 EXCEPT !.state = "ended"]
          /\ UNCHANGED <<Rest, llreve, pipe, strays>>

Processes == LlreveWrites \/ LlreveEnds \/ StrayEnds \/ Z3Reads \/ Z3Solves \/ Z3Prints \/ Z3Ends

Done == pc \in {"done", "crashed"} /\ UNCHANGED vars

Next == Main \/ TimerThread \/ Processes \/ Done

\* DiffKemp and its timer run on; nothing is assumed of llreve and Z3.
Spec == Init /\ [][Next]_vars /\ WF_vars(Main) /\ WF_vars(TimerThread)

-----------------------------------------------------------------------------
(***************************************************************************)
(* Properties.                                                             *)
(***************************************************************************)
\* The threads and processes stay in their states, pipes in their size.
TypeOK == /\ pc \in {"next", "popen_z3", "start_timer", "wait", "read", "finally", "cancel", "over", "done", "crashed"}
          /\ timer \in {"none", "running", "killing_llreve", "killing_z3", "killed", "ended", "cancelled"}
          /\ llreve.state \in {"none", "running", "ended", "failed", "killed"} /\ llreve.written \in 0 .. Formula
          /\ z3.state \in {"none", "running", "ended", "failed", "killed"} /\ z3.read \in 0 .. Formula
          /\ pipe \in 0 .. PipeSize /\ Len(z3.out) <= PipeSize
          /\ result_kind \in {Kinds[i] : i \in DOMAIN Kinds} /\ strays \in Nat

Asked == {r \in result.inner : r.how # FromGraph}

\* A verdict that llreve and Z3 gave is right, and given by a Z3 that had the
\* whole formula and ended by itself: a process that was killed or failed, and
\* a formula that was cut off, never say equal or not equal (function_diff.py:99-112).
VerdictsSound == \A r \in Asked :
    /\ r.kind = "EQUAL" => r.same
    /\ r.kind = "NOT_EQUAL" => ~ r.same
    /\ r.kind \in {"EQUAL", "NOT_EQUAL", "UNKNOWN"} => r.how.z3 = "ended" /\ r.how.read = Formula

\* A timeout is reported only if the timer went off, and a verdict only while the
\* timer was not over when it was asked (function_diff.py:113-116): a late answer
\* and the timer never give both, and Z3 killed in the middle is no verdict.
TimeoutsLate == \A r \in Asked :
    /\ r.kind = "TIMEOUT" => r.how.timer = "ended"
    /\ r.how.z3 = "killed" => r.kind \in {"TIMEOUT", "ERROR"} /\ r.how.timer \in {"killed", "ended"}

\* Whatever llreve and Z3 do, block on a full pipe included, the comparison of
\* every reported object ends: the timer sees to it (function_diff.py:95-99).
Terminates == <>(pc \in {"done", "crashed"})
=============================================================================
