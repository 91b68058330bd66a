------------------------- MODULE SemanticDiff_proofs -------------------------
(***************************************************************************)
(* Proofs about SemanticDiff: its types, and that the verdicts and timeouts *)
(* reported are right however the processes, the timer and DiffKemp's       *)
(* thread interleave.                                                       *)
(***************************************************************************)
EXTENDS SemanticDiff, TLAPS, SequenceTheorems

-----------------------------------------------------------------------------
(* The inductive invariant. *)

Words == {"sat", "unsat", "unknown", "model"}
ProcessStates == {"none", "running", "ended", "failed", "killed"}

TypeInv ==
    /\ TypeOK
    /\ objects \in Seq(Objects)
    /\ llreve \in [state : ProcessStates, written : 0 .. Formula]
    /\ z3 \in [state : ProcessStates, read : 0 .. Formula, says : Seq(Words), out : Seq(Words)]

\* What llreve has written is in the pipe or has been read.
PipeInv == llreve.written = z3.read + pipe

\* Where the thread is tells what the processes and the timer may be doing.
PhaseInv ==
    /\ pc \in {"next", "popen_z3", "done", "crashed"} => z3 = NoZ3
    /\ pc \in {"next", "popen_z3", "start_timer", "done", "crashed"} => timer = "none"
    /\ pc \in {"wait", "read", "finally", "cancel"} =>
          timer \in {"running", "killing_llreve", "killing_z3", "killed", "ended"}
    /\ pc \in {"popen_z3", "start_timer", "wait", "read", "finally", "cancel"} => objects # <<>>
    /\ pc \in {"read", "finally", "cancel", "over"} => z3.state # "running"
    /\ z3.state = "killed" => timer \in {"killed", "ended"}

\* What Z3 may answer about an object.
TrueAnswers(o) == {IF o.same THEN "unsat" ELSE "sat", "unknown"}

\* Z3 gives one answer, a true one and only to the whole formula; what it
\* prints behind that is no answer.
AnswerInv ==
    /\ z3.out # <<>> \/ z3.says # <<>> => z3.read = Formula
    /\ \A i \in 2 .. Len(z3.out) : z3.out[i] = "model"
    /\ \A i \in 2 .. Len(z3.says) : z3.says[i] = "model"
    /\ z3.out # <<>> /\ z3.says # <<>> => z3.says[1] = "model"
    /\ pc # "over" /\ z3.out # <<>> => z3.out[1] \in TrueAnswers(Head(objects))
    /\ pc # "over" /\ z3.out = <<>> /\ z3.says # <<>> => z3.says[1] \in TrueAnswers(Head(objects))

\* From the end of Z3 on the verdict is the one it printed, or a timeout.
KindInv ==
    /\ pc = "finally" => result_kind = ExitedWith(z3.state, ReadVerdict)
    /\ pc = "cancel" => \/ result_kind = ExitedWith(z3.state, ReadVerdict)
                        \/ result_kind = "TIMEOUT" /\ timer = "ended"

IInv == TypeInv /\ PipeInv /\ PhaseInv /\ AnswerInv /\ KindInv /\ VerdictsSound /\ TimeoutsLate

-----------------------------------------------------------------------------
(* What is read from the output of Z3. *)

\* Without output the verdict is an error, else the one of the first line, when
\* no other line is an answer.
LEMMA FirstLineDecides ==
    ASSUME NEW out \in Seq(Words), \A i \in 2 .. Len(out) : out[i] = "model"
    PROVE  /\ out = <<>> => LastVerdict(out) = "ERROR"
           /\ out # <<>> /\ out[1] # "model" => LastVerdict(out) = Verdict[out[1]]
<1>. DEFINE said == {i \in DOMAIN out : out[i] \in DOMAIN Verdict}
<1>1. DOMAIN Verdict = {"sat", "unsat", "unknown"}
  BY DEF Verdict
<1>2. DOMAIN out = 1 .. Len(out) /\ Len(out) \in Nat
  OBVIOUS
<1>3. ASSUME out = <<>>
      PROVE  LastVerdict(out) = "ERROR"
  <2>1. said = {}
    BY <1>3
  <2>. QED
    BY <2>1 DEF LastVerdict
<1>4. ASSUME out # <<>>, out[1] # "model"
      PROVE  LastVerdict(out) = Verdict[out[1]]
  <2>1. 1 \in DOMAIN out
    BY <1>4, EmptySeq
  <2>2. out[1] \in DOMAIN Verdict
    BY <1>1, <1>4, <2>1 DEF Words
  <2>3. said = {1}
    <3>1. ASSUME NEW i \in said
          PROVE  i = 1
      BY <1>1, <1>2
    <3>. QED
      BY <2>1, <2>2, <3>1
  <2>4. (CHOOSE i \in said : \A j \in said : j <= i) = 1
    BY <2>3
  <2>. QED
    BY <2>3, <2>4 DEF LastVerdict
<1>. QED
  BY <1>3, <1>4

\* The kinds of results.
LEMMA KindsAre ==
    {Kinds[i] : i \in DOMAIN Kinds} =
        {"NONE", "EQUAL_SYNTAX", "ASSUMED_EQUAL", "EQUAL", "NOT_EQUAL", "UNKNOWN", "TIMEOUT", "ERROR"}
BY DEF Kinds

\* A verdict read from an output that holds one true answer.
LEMMA VerdictRead ==
    ASSUME TypeInv, AnswerInv, pc # "over"
    PROVE  /\ ReadVerdict \in {"EQUAL", "NOT_EQUAL", "UNKNOWN", "ERROR"}
           /\ ReadVerdict # "ERROR" => z3.read = Formula
           /\ ReadVerdict = "EQUAL" => Head(objects).same
           /\ ReadVerdict = "NOT_EQUAL" => ~ Head(objects).same
<1>1. z3.out \in Seq(Words)
  BY DEF TypeInv
<1>2. \A i \in 2 .. Len(z3.out) : z3.out[i] = "model"
  BY DEF AnswerInv
<1>3. CASE z3.out = <<>>
  BY <1>1, <1>2, <1>3, FirstLineDecides DEF ReadVerdict
<1>4. CASE z3.out # <<>>
  <2>1. z3.out[1] \in TrueAnswers(Head(objects)) /\ z3.read = Formula
    BY <1>4 DEF AnswerInv
  <2>2. ReadVerdict = Verdict[z3.out[1]]
    BY <1>1, <1>2, <1>4, <2>1, FirstLineDecides DEF ReadVerdict, TrueAnswers
  <2>. QED
    BY <2>1, <2>2 DEF TrueAnswers, Verdict
<1>. QED
  BY <1>3, <1>4

-----------------------------------------------------------------------------
(* The initial states, and the steps of DiffKemp's thread. *)

LEMMA InitInv == Init => IInv
<1>. SUFFICES ASSUME Init PROVE IInv
  OBVIOUS
<1>1. objects \in Seq(Objects)
  BY ObjectsAssumption DEF Init
<1>2. result_kind \in {Kinds[i] : i \in DOMAIN Kinds}
  BY KindsAre DEF Init
<1>3. TypeInv /\ PipeInv
  BY <1>1, <1>2, SizesAssumption DEF Init, TypeInv, TypeOK, PipeInv, NoLlreve, NoZ3, ProcessStates
<1>4. PhaseInv /\ AnswerInv /\ KindInv
  BY DEF Init, PhaseInv, AnswerInv, KindInv, NoZ3
<1>5. VerdictsSound /\ TimeoutsLate
  BY DEF Init, VerdictsSound, TimeoutsLate, Asked
<1>. QED
  BY <1>3, <1>4, <1>5 DEF IInv

\* A result that is added leaves those of other names, and says what is given.
LEMMA AddInnerKeeps ==
    ASSUME NEW kind, NEW how, AddInner(kind, how),
           VerdictsSound, TimeoutsLate,
           how # FromGraph =>
               /\ kind = "EQUAL" => Head(objects).same
               /\ kind = "NOT_EQUAL" => ~ Head(objects).same
               /\ kind \in {"EQUAL", "NOT_EQUAL", "UNKNOWN"} => how.z3 = "ended" /\ how.read = Formula
               /\ kind = "TIMEOUT" => how.timer = "ended"
               /\ how.z3 = "killed" => kind \in {"TIMEOUT", "ERROR"} /\ how.timer \in {"killed", "ended"}
    PROVE  VerdictsSound' /\ TimeoutsLate'
<1>. DEFINE new == [name |-> Head(objects).name, same |-> Head(objects).same, kind |-> kind, how |-> how]
<1>1. result'.inner = {r \in result.inner : r.name # Head(objects).name} \cup {new}
  BY DEF AddInner
<1>2. new.same = Head(objects).same /\ new.kind = kind /\ new.how = how
  OBVIOUS
<1>. HIDE DEF new
<1>3. \A r \in Asked' : r \in Asked \/ (r = new /\ how # FromGraph)
  BY <1>1, <1>2 DEF Asked
<1>. QED
  BY <1>2, <1>3 DEF VerdictsSound, TimeoutsLate

\* The properties speak of the result only.
LEMMA SameResult ==
    ASSUME VerdictsSound, TimeoutsLate, UNCHANGED result
    PROVE  VerdictsSound' /\ TimeoutsLate'
BY DEF VerdictsSound, TimeoutsLate, Asked

\* Nothing but the result and the objects left: an object that needs no tool.
LEMMA KeepKindKeeps == ASSUME IInv, KeepKind PROVE IInv'
<1>. USE DEF IInv
<1>1. objects' \in Seq(Objects)
  BY DEF KeepKind, TypeInv
<1>2. TypeInv' /\ PipeInv' /\ PhaseInv' /\ KindInv'
  BY <1>1 DEF KeepKind, TypeInv, TypeOK, PipeInv, PhaseInv, KindInv, procs
<1>3. AnswerInv'
  <2>1. z3 = NoZ3 /\ z3' = NoZ3
    BY DEF KeepKind, PhaseInv, procs
  <2>. QED
    BY <2>1 DEF AnswerInv, NoZ3
<1>4. VerdictsSound' /\ TimeoutsLate'
  BY AddInnerKeeps DEF KeepKind
<1>. QED
  BY <1>2, <1>3, <1>4

\* Finishing, crashing and the start of the processes change no answer.
LEMMA StartsKeep ==
    ASSUME IInv, Finish \/ NoModules \/ StartLlreve \/ StartZ3 \/ Z3Missing \/ StartTimer
    PROVE  IInv'
<1>. USE DEF IInv
<1>1. VerdictsSound' /\ TimeoutsLate'
  BY SameResult DEF Finish, NoModules, StartLlreve, StartZ3, Z3Missing, StartTimer
<1>2. CASE Finish
  <2>1. TypeInv' /\ PipeInv' /\ PhaseInv'
    BY <1>2 DEF Finish, TypeInv, TypeOK, PipeInv, PhaseInv, procs
  <2>2. AnswerInv' /\ KindInv'
    BY <1>2 DEF Finish, AnswerInv, KindInv, procs
  <2>. QED
    BY <1>1, <2>1, <2>2
<1>3. CASE NoModules \/ Z3Missing
  <2>1. TypeInv' /\ PipeInv'
    BY <1>3 DEF NoModules, Z3Missing, TypeInv, TypeOK, PipeInv, procs
  <2>2. z3 = NoZ3 /\ z3' = NoZ3 /\ timer' = "none" /\ pc' = "crashed"
    BY <1>3 DEF NoModules, Z3Missing, PhaseInv, procs
  <2>3. PhaseInv' /\ AnswerInv' /\ KindInv'
    BY <2>2 DEF PhaseInv, AnswerInv, KindInv, NoZ3
  <2>. QED
    BY <1>1, <2>1, <2>3
<1>4. CASE StartLlreve
  <2>1. z3 = NoZ3 /\ z3' = NoZ3 /\ timer' = "none" /\ pc' = "popen_z3" /\ objects' # <<>>
    BY <1>4 DEF StartLlreve, PhaseInv
  <2>2. TypeInv' /\ PipeInv'
    BY <1>4, <2>1, SizesAssumption DEF StartLlreve, TypeInv, TypeOK, PipeInv, ProcessStates, NoZ3
  <2>3. PhaseInv' /\ AnswerInv' /\ KindInv'
    BY <2>1 DEF PhaseInv, AnswerInv, KindInv, NoZ3
  <2>. QED
    BY <1>1, <2>2, <2>3
<1>5. CASE StartZ3
  <2>1. z3' = [state |-> "running", read |-> 0, says |-> <<>>, out |-> <<>>] /\ z3.read = 0
    BY <1>5 DEF StartZ3, PhaseInv, NoZ3
  <2>2. TypeInv' /\ PipeInv'
    <3>1. z3' \in [state : ProcessStates, read : 0 .. Formula, says : Seq(Words), out : Seq(Words)]
      BY <2>1, SizesAssumption DEF ProcessStates
    <3>2. z3'.state = "running" /\ z3'.read = 0 /\ Len(z3'.out) = 0
      BY <2>1
    <3>3. z3'.read \in 0 .. Formula /\ Len(z3'.out) <= PipeSize
      BY <3>2, SizesAssumption
    <3>. QED
      BY <1>5, <2>1, <3>1, <3>2, <3>3 DEF StartZ3, TypeInv, TypeOK, PipeInv
  <2>3. PhaseInv' /\ AnswerInv' /\ KindInv'
    BY <1>5, <2>1 DEF StartZ3, PhaseInv, AnswerInv, KindInv
  <2>. QED
    BY <1>1, <2>2, <2>3
<1>6. CASE StartTimer
  <2>1. TypeInv' /\ PipeInv'
    BY <1>6 DEF StartTimer, TypeInv, TypeOK, PipeInv
  <2>2. PhaseInv' /\ AnswerInv' /\ KindInv'
    BY <1>6 DEF StartTimer, PhaseInv, AnswerInv, KindInv
  <2>. QED
    BY <1>1, <2>1, <2>2
<1>. QED
  BY <1>2, <1>3, <1>4, <1>5, <1>6

\* Waiting for Z3, reading what it printed, asking the timer.
LEMMA EndsKeep ==
    ASSUME IInv, WaitZ3 \/ ReadAnswer \/ CheckTimer
    PROVE  IInv'
<1>. USE DEF IInv
<1>1. VerdictsSound' /\ TimeoutsLate'
  BY SameResult DEF WaitZ3, ReadAnswer, CheckTimer
<1>2. PipeInv' /\ PhaseInv' /\ AnswerInv'
  BY DEF WaitZ3, ReadAnswer, CheckTimer, PipeInv, PhaseInv, AnswerInv, procs
<1>3. CASE WaitZ3
  <2>1. TypeInv' /\ KindInv'
    BY <1>3 DEF WaitZ3, TypeInv, TypeOK, KindInv, procs
  <2>. QED
    BY <1>1, <1>2, <2>1
<1>4. CASE ReadAnswer
  <2>1. ReadVerdict \in {"EQUAL", "NOT_EQUAL", "UNKNOWN", "ERROR"}
    BY <1>4, VerdictRead DEF ReadAnswer
  <2>2. result_kind' \in {Kinds[i] : i \in DOMAIN Kinds}
    BY <1>4, <2>1, KindsAre DEF ReadAnswer, ExitedWith
  <2>3. TypeInv'
    BY <1>4, <2>2 DEF ReadAnswer, TypeInv, TypeOK, procs
  <2>4. KindInv'
    BY <1>4 DEF ReadAnswer, KindInv, ReadVerdict, procs
  <2>. QED
    BY <1>1, <1>2, <2>3, <2>4
<1>5. CASE CheckTimer
  <2>1. timer \in {"running", "killing_llreve", "killing_z3", "killed", "ended"}
    BY <1>5 DEF CheckTimer, PhaseInv
  <2>2. result_kind' = result_kind \/ (result_kind' = "TIMEOUT" /\ timer = "ended")
    BY <1>5, <2>1 DEF CheckTimer, OrTimeout, TimerIsAlive
  <2>3. result_kind' \in {Kinds[i] : i \in DOMAIN Kinds}
    BY <2>2, KindsAre DEF TypeInv, TypeOK
  <2>4. TypeInv'
    BY <1>5, <2>3 DEF CheckTimer, TypeInv, TypeOK, procs
  <2>5. KindInv'
    BY <1>5, <2>2 DEF CheckTimer, KindInv, ReadVerdict, procs
  <2>. QED
    BY <1>1, <1>2, <2>4, <2>5
<1>. QED
  BY <1>3, <1>4, <1>5

\* The result of the pair is added: here the verdict meets the properties.
LEMMA CancelTimerKeeps == ASSUME IInv, CancelTimer PROVE IInv'
<1>. USE DEF IInv
<1>. DEFINE how == [z3 |-> z3.state, read |-> z3.read, timer |-> timer]
<1>1. objects # <<>> /\ pc' = "over" /\ pc = "cancel"
  BY DEF CancelTimer, PhaseInv
<1>2. objects' \in Seq(Objects)
  BY <1>1 DEF CancelTimer, TypeInv
<1>3. TypeInv' /\ PipeInv'
  BY <1>2 DEF CancelTimer, TypeInv, TypeOK, PipeInv
<1>4. PhaseInv' /\ AnswerInv' /\ KindInv'
  BY <1>1 DEF CancelTimer, PhaseInv, AnswerInv, KindInv
<1>5. VerdictsSound' /\ TimeoutsLate'
  <2>1. \/ result_kind = ExitedWith(z3.state, ReadVerdict)
        \/ result_kind = "TIMEOUT" /\ timer = "ended"
    BY <1>1 DEF KindInv
  <2>2. /\ ReadVerdict \in {"EQUAL", "NOT_EQUAL", "UNKNOWN", "ERROR"}
        /\ ReadVerdict # "ERROR" => z3.read = Formula
        /\ ReadVerdict = "EQUAL" => Head(objects).same
        /\ ReadVerdict = "NOT_EQUAL" => ~ Head(objects).same
    BY <1>1, VerdictRead
  <2>3. z3.state = "killed" => timer \in {"killed", "ended"}
    BY DEF PhaseInv
  <2>4. how.z3 = z3.state /\ how.read = z3.read /\ how.timer = timer
    OBVIOUS
  <2>5. AddInner(result_kind, how)
    BY DEF CancelTimer
  <2>. HIDE DEF how
  <2>6. /\ result_kind = "EQUAL" => Head(objects).same
        /\ result_kind = "NOT_EQUAL" => ~ Head(objects).same
        /\ result_kind \in {"EQUAL", "NOT_EQUAL", "UNKNOWN"} => how.z3 = "ended" /\ how.read = Formula
        /\ result_kind = "TIMEOUT" => how.timer = "ended"
        /\ how.z3 = "killed" => result_kind \in {"TIMEOUT", "ERROR"} /\ how.timer \in {"killed", "ended"}
    BY <2>1, <2>2, <2>3, <2>4 DEF ExitedWith
  <2>. QED
    BY <2>5, <2>6, AddInnerKeeps
<1>. QED
  BY <1>3, <1>4, <1>5

\* The next object starts with no process and no timer.
LEMMA NextPairKeeps == ASSUME IInv, NextPair PROVE IInv'
<1>. USE DEF IInv
<1>1. VerdictsSound' /\ TimeoutsLate'
  BY SameResult DEF NextPair
<1>2. result_kind' \in {Kinds[i] : i \in DOMAIN Kinds}
  BY KindsAre DEF NextPair
<1>3. strays' \in Nat
  BY DEF NextPair, TypeInv, TypeOK
<1>4. TypeInv' /\ PipeInv'
  BY <1>2, <1>3, SizesAssumption
  DEF NextPair, TypeInv, TypeOK, PipeInv, NoLlreve, NoZ3, ProcessStates
<1>5. PhaseInv' /\ AnswerInv' /\ KindInv'
  BY DEF NextPair, PhaseInv, AnswerInv, KindInv, NoZ3
<1>. QED
  BY <1>1, <1>4, <1>5

-----------------------------------------------------------------------------
(* The steps of the timer's thread and of the processes. *)

LEMMA TimerKeeps == ASSUME IInv, TimerThread PROVE IInv'
<1>. USE DEF IInv
<1>1. VerdictsSound' /\ TimeoutsLate'
  BY SameResult DEF TimerThread, TimerExpires, KillLlreve, KillZ3, TimerEnds
<1>2. CASE TimerExpires \/ TimerEnds
  <2>1. TypeInv' /\ PipeInv'
    BY <1>2 DEF TimerExpires, TimerEnds, TypeInv, TypeOK, PipeInv
  <2>2. PhaseInv' /\ AnswerInv'
    BY <1>2 DEF TimerExpires, TimerEnds, PhaseInv, AnswerInv
  <2>3. KindInv'
    BY <1>2 DEF TimerExpires, TimerEnds, KindInv, ReadVerdict
  <2>. QED
    BY <1>1, <2>1, <2>2, <2>3
<1>3. CASE KillLlreve
  <2>1. TypeInv' /\ PipeInv'
    BY <1>3 DEF KillLlreve, Killed, TypeInv, TypeOK, PipeInv, ProcessStates
  <2>2. PhaseInv' /\ AnswerInv'
    BY <1>3 DEF KillLlreve, PhaseInv, AnswerInv
  <2>3. KindInv'
    BY <1>3 DEF KillLlreve, KindInv, ReadVerdict
  <2>. QED
    BY <1>1, <2>1, <2>2, <2>3
<1>4. CASE KillZ3
  <2>1. z3' \in [state : ProcessStates, read : 0 .. Formula, says : Seq(Words), out : Seq(Words)]
    BY <1>4 DEF KillZ3, Killed, TypeInv, ProcessStates
  <2>2. /\ z3'.read = z3.read /\ z3'.says = z3.says /\ z3'.out = z3.out
        /\ z3'.state = Killed(z3.state) /\ z3'.state \in ProcessStates
    BY <1>4, <2>1 DEF KillZ3, TypeInv
  <2>3. TypeInv' /\ PipeInv'
    BY <1>4, <2>1, <2>2 DEF KillZ3, TypeInv, TypeOK, PipeInv, ProcessStates
  <2>4. pc \notin {"next", "popen_z3", "start_timer", "done", "crashed"}
    BY <1>4 DEF KillZ3, PhaseInv
  <2>5. PhaseInv' /\ AnswerInv'
    BY <1>4, <2>2, <2>4 DEF KillZ3, Killed, PhaseInv, AnswerInv
  <2>6. KindInv'
    BY <1>4, <2>2 DEF KillZ3, Killed, PhaseInv, KindInv, ReadVerdict
  <2>. QED
    BY <1>1, <2>3, <2>5, <2>6
<1>. QED
  BY <1>2, <1>3, <1>4 DEF TimerThread

\* Steps of llreve, and the end of one that was left behind.
LEMMA LlreveKeeps == ASSUME IInv, LlreveWrites \/ LlreveEnds \/ StrayEnds PROVE IInv'
<1>. USE DEF IInv
<1>1. VerdictsSound' /\ TimeoutsLate'
  BY SameResult DEF LlreveWrites, LlreveEnds, StrayEnds, Rest
<1>2. PhaseInv' /\ AnswerInv'
  BY DEF LlreveWrites, LlreveEnds, StrayEnds, Rest, PhaseInv, AnswerInv
<1>3. KindInv'
  BY DEF LlreveWrites, LlreveEnds, StrayEnds, Rest, KindInv, ReadVerdict
<1>4. CASE LlreveWrites
  <2>1. llreve.written + 1 \in 0 .. Formula /\ pipe + 1 \in 0 .. PipeSize
    BY <1>4, SizesAssumption DEF LlreveWrites, TypeInv, TypeOK
  <2>2. /\ llreve' \in [state : ProcessStates, written : 0 .. Formula]
        /\ llreve'.state = llreve.state /\ llreve'.written = llreve.written + 1
    BY <1>4, <2>1 DEF LlreveWrites, TypeInv
  <2>3. TypeInv'
    BY <1>4, <2>1, <2>2 DEF LlreveWrites, Rest, TypeInv, TypeOK
  <2>4. PipeInv'
    BY <1>4, <2>2 DEF LlreveWrites, Rest, TypeInv, TypeOK, PipeInv
  <2>. QED
    BY <1>1, <1>2, <1>3, <2>3, <2>4
<1>5. CASE LlreveEnds
  <2>1. TypeInv' /\ PipeInv'
    BY <1>5 DEF LlreveEnds, Rest, TypeInv, TypeOK, PipeInv, ProcessStates
  <2>. QED
    BY <1>1, <1>2, <1>3, <2>1
<1>6. CASE StrayEnds
  <2>1. TypeInv' /\ PipeInv'
    BY <1>6 DEF StrayEnds, Rest, TypeInv, TypeOK, PipeInv
  <2>. QED
    BY <1>1, <1>2, <1>3, <2>1
<1>. QED
  BY <1>4, <1>5, <1>6

\* While Z3 runs the thread is before the end of its wait and has no verdict.
LEMMA WhileZ3Runs ==
    ASSUME IInv, z3.state = "running", UNCHANGED Rest,
           z3'.state # "killed"
    PROVE  /\ pc \in {"start_timer", "wait"} /\ PhaseInv' /\ KindInv'
           /\ VerdictsSound' /\ TimeoutsLate'
<1>1. pc \in {"start_timer", "wait"}
  BY DEF IInv, TypeInv, TypeOK, PhaseInv, NoZ3
<1>. QED
  BY <1>1, SameResult DEF IInv, PhaseInv, KindInv, Rest

LEMMA Z3ReadsKeeps == ASSUME IInv, Z3Reads PROVE IInv'
<1>1. /\ z3' = [z3 EXCEPT !.read = @ + 1] /\ z3.state = "running"
      /\ z3 \in [state : ProcessStates, read : 0 .. Formula, says : Seq(Words), out : Seq(Words)]
  BY DEF Z3Reads, IInv, TypeInv
<1>2. z3.read + 1 \in 0 .. Formula /\ pipe - 1 \in 0 .. PipeSize
  BY SizesAssumption DEF Z3Reads, IInv, TypeInv, TypeOK, PipeInv
<1>3. /\ z3' \in [state : ProcessStates, read : 0 .. Formula, says : Seq(Words), out : Seq(Words)]
      /\ z3'.state = "running" /\ z3'.read = z3.read + 1 /\ z3'.says = z3.says /\ z3'.out = z3.out
  BY <1>1, <1>2
<1>4. TypeInv' /\ PipeInv'
  BY <1>2, <1>3 DEF Z3Reads, Rest, IInv, TypeInv, TypeOK, PipeInv
<1>5. PhaseInv' /\ KindInv' /\ VerdictsSound' /\ TimeoutsLate'
  BY <1>1, <1>3, WhileZ3Runs DEF Z3Reads
<1>6. AnswerInv'
  <2>1. z3.out = <<>> /\ z3.says = <<>>
    BY <1>2 DEF IInv, AnswerInv, TypeInv, TypeOK
  <2>. QED
    BY <1>3, <2>1 DEF AnswerInv
<1>. QED
  BY <1>4, <1>5, <1>6 DEF IInv

LEMMA Z3SolvesKeeps == ASSUME IInv, Z3Solves PROVE IInv'
<1>1. PICK answer \in TrueAnswers(Head(objects)), n \in 0 .. PipeSize :
          z3' = [z3 EXCEPT !.says = <<answer>> \o [i \in 1 .. n |-> "model"]]
  BY DEF Z3Solves, TrueAnswers
<1>. DEFINE says == <<answer>> \o [i \in 1 .. n |-> "model"]
<1>2. /\ z3.state = "running" /\ z3.read = Formula /\ z3.out = <<>>
      /\ z3 \in [state : ProcessStates, read : 0 .. Formula, says : Seq(Words), out : Seq(Words)]
  BY DEF Z3Solves, IInv, TypeInv
<1>3. <<answer>> \in Seq(Words) /\ [i \in 1 .. n |-> "model"] \in Seq(Words)
  BY SizesAssumption DEF TrueAnswers, Words
<1>4. says \in Seq(Words) /\ says # <<>> /\ says[1] = answer
  BY <1>3
<1>5. \A i \in 2 .. Len(says) : says[i] = "model"
  <2>1. Len(<<answer>>) = 1 /\ Len([i \in 1 .. n |-> "model"]) = n
    BY SizesAssumption
  <2>. QED
    BY <1>3, <2>1
<1>. HIDE DEF says
<1>6. /\ z3' \in [state : ProcessStates, read : 0 .. Formula, says : Seq(Words), out : Seq(Words)]
      /\ z3'.state = "running" /\ z3'.read = Formula /\ z3'.out = <<>> /\ z3'.says = says
  BY <1>1, <1>2, <1>4 DEF says
<1>7. TypeInv' /\ PipeInv'
  BY <1>2, <1>6 DEF Z3Solves, Rest, IInv, TypeInv, TypeOK, PipeInv
<1>8. PhaseInv' /\ KindInv' /\ VerdictsSound' /\ TimeoutsLate'
  BY <1>2, <1>6, WhileZ3Runs DEF Z3Solves
<1>9. AnswerInv'
  BY <1>4, <1>5, <1>6 DEF Z3Solves, Rest, AnswerInv
<1>. QED
  BY <1>7, <1>8, <1>9 DEF IInv

LEMMA Z3PrintsKeeps == ASSUME IInv, Z3Prints PROVE IInv'
<1>1. /\ z3' = [z3 EXCEPT !.says = Tail(@), !.out = Append(@, Head(z3.says))]
      /\ z3.state = "running" /\ z3.says # <<>> /\ Len(z3.out) < PipeSize
      /\ z3 \in [state : ProcessStates, read : 0 .. Formula, says : Seq(Words), out : Seq(Words)]
  BY DEF Z3Prints, IInv, TypeInv
<1>2. /\ z3.says \in Seq(Words) /\ z3.out \in Seq(Words) /\ Head(z3.says) = z3.says[1]
      /\ Head(z3.says) \in Words /\ Tail(z3.says) \in Seq(Words)
      /\ Append(z3.out, Head(z3.says)) \in Seq(Words)
  BY <1>1
<1>3. /\ z3' \in [state : ProcessStates, read : 0 .. Formula, says : Seq(Words), out : Seq(Words)]
      /\ z3'.state = "running" /\ z3'.read = z3.read
      /\ z3'.says = Tail(z3.says) /\ z3'.out = Append(z3.out, Head(z3.says))
  BY <1>1, <1>2
<1>4. Len(z3'.out) = Len(z3.out) + 1 /\ Len(z3'.out) <= PipeSize
  BY <1>1, <1>2, <1>3, SizesAssumption
<1>5. TypeInv' /\ PipeInv'
  BY <1>1, <1>3, <1>4 DEF Z3Prints, Rest, IInv, TypeInv, TypeOK, PipeInv
<1>6. PhaseInv' /\ KindInv' /\ VerdictsSound' /\ TimeoutsLate' /\ pc # "over" /\ pc' = pc
  BY <1>1, <1>3, WhileZ3Runs DEF Z3Prints, Rest
<1>7. AnswerInv'
  <2>1. z3'.read = Formula
    BY <1>1, <1>3 DEF IInv, AnswerInv
  <2>2. \A i \in 1 .. Len(z3'.says) : z3'.says[i] = "model"
    <3>1. ASSUME NEW i \in 1 .. Len(z3'.says)
          PROVE  z3'.says[i] = "model"
      <4>1. z3'.says[i] = z3.says[i + 1] /\ i + 1 \in 2 .. Len(z3.says)
        BY <1>1, <1>2, <1>3
      <4>. QED
        BY <4>1 DEF IInv, AnswerInv
    <3>. QED
      BY <3>1
  <2>3. z3'.out # <<>>
    BY <1>2, <1>3
  <2>4. \A i \in 2 .. Len(z3'.out) : z3'.out[i] = "model"
    <3>1. ASSUME NEW i \in 2 .. Len(z3'.out)
          PROVE  z3'.out[i] = "model"
      <4>1. CASE i \in 2 .. Len(z3.out)
        BY <1>2, <1>3, <4>1 DEF IInv, AnswerInv
      <4>2. CASE i = Len(z3.out) + 1
        BY <1>1, <1>2, <1>3, <4>2 DEF IInv, AnswerInv
      <4>. QED
        BY <1>2, <1>4, <4>1, <4>2
    <3>. QED
      BY <3>1
  <2>5. z3'.out[1] \in TrueAnswers(Head(objects))
    <3>1. CASE z3.out = <<>>
      BY <1>1, <1>2, <1>3, <1>6, <3>1 DEF IInv, AnswerInv
    <3>2. CASE z3.out # <<>>
      <4>1. z3'.out[1] = z3.out[1]
        BY <1>2, <1>3, <3>2
      <4>. QED
        BY <1>6, <3>2, <4>1 DEF IInv, AnswerInv
    <3>. QED
      BY <3>1, <3>2
  <2>6. z3'.says # <<>> => z3'.says[1] = "model"
    <3>1. ASSUME z3'.says # <<>>
          PROVE  1 \in 1 .. Len(z3'.says)
      BY <1>2, <1>3, <3>1, EmptySeq
    <3>. QED
      BY <2>2, <3>1
  <2>. QED
    BY <2>1, <2>2, <2>3, <2>4, <2>5, <2>6 DEF AnswerInv, Z3Prints, Rest
<1>. QED
  BY <1>5, <1>6, <1>7 DEF IInv

LEMMA Z3EndsKeeps == ASSUME IInv, Z3Ends PROVE IInv'
<1>1. /\ \/ z3' = [z3 EXCEPT !.state = "failed"]
         \/ z3' = [z3 EXCEPT !.state = "ended"]
      /\ z3.state = "running"
      /\ z3 \in [state : ProcessStates, read : 0 .. Formula, says : Seq(Words), out : Seq(Words)]
  BY DEF Z3Ends, IInv, TypeInv
<1>2. /\ z3' \in [state : ProcessStates, read : 0 .. Formula, says : Seq(Words), out : Seq(Words)]
      /\ z3'.state \in {"failed", "ended"} /\ z3'.read = z3.read /\ z3'.says = z3.says /\ z3'.out = z3.out
  BY <1>1 DEF ProcessStates
<1>3. TypeInv' /\ PipeInv'
  BY <1>2 DEF Z3Ends, Rest, IInv, TypeInv, TypeOK, PipeInv
<1>4. PhaseInv' /\ KindInv' /\ VerdictsSound' /\ TimeoutsLate'
  BY <1>1, <1>2, WhileZ3Runs DEF Z3Ends
<1>5. AnswerInv'
  BY <1>2 DEF Z3Ends, Rest, IInv, AnswerInv
<1>. QED
  BY <1>3, <1>4, <1>5 DEF IInv

-----------------------------------------------------------------------------
\* Each step keeps the invariant.
LEMMA StepKeeps == IInv /\ [Next]_vars => IInv'
<1>. SUFFICES ASSUME IInv, [Next]_vars PROVE IInv'
  OBVIOUS
<1>1. CASE Main
  BY <1>1, StartsKeep, KeepKindKeeps, EndsKeep, CancelTimerKeeps, NextPairKeeps DEF Main
<1>2. CASE TimerThread
  BY <1>2, TimerKeeps
<1>3. CASE Processes
  BY <1>3, LlreveKeeps, Z3ReadsKeeps, Z3SolvesKeeps, Z3PrintsKeeps, Z3EndsKeeps DEF Processes
<1>4. CASE UNCHANGED vars
  <2>1. /\ objects' = objects /\ result' = result /\ pc' = pc /\ llreve' = llreve /\ pipe' = pipe
        /\ z3' = z3 /\ timer' = timer /\ result_kind' = result_kind /\ strays' = strays
    BY <1>4 DEF vars, procs
  <2>2. TypeInv' /\ PipeInv' /\ PhaseInv' /\ AnswerInv'
    BY <2>1 DEF IInv, TypeInv, TypeOK, PipeInv, PhaseInv, AnswerInv
  <2>3. KindInv'
    BY <2>1 DEF IInv, KindInv, ReadVerdict
  <2>4. VerdictsSound' /\ TimeoutsLate'
    BY <2>1, SameResult DEF IInv
  <2>. QED
    BY <2>2, <2>3, <2>4 DEF IInv
<1>. QED
  BY <1>1, <1>2, <1>3, <1>4 DEF Next, Done

LEMMA InvHolds == Spec => []IInv
BY InitInv, StepKeeps, PTL DEF Spec

\* The thread, the timer, the processes and the pipes stay in their types, for
\* any list of objects and any size of pipe (_run_llreve_z3).
THEOREM SemanticTyped == Spec => []TypeOK
<1>1. IInv => TypeOK
  BY DEF IInv, TypeInv
<1>. QED
  BY <1>1, InvHolds, PTL

\* No interleaving of llreve, Z3, the timer and DiffKemp makes a verdict that Z3
\* did not give, or gave to a part of the formula (function_diff.py:99-112).
THEOREM VerdictsOfZ3Sound == Spec => []VerdictsSound
<1>1. IInv => VerdictsSound
  BY DEF IInv
<1>. QED
  BY <1>1, InvHolds, PTL

\* A timeout is reported only when the timer is over, and a Z3 that was killed
\* gives no verdict (function_diff.py:113-116).
THEOREM TimeoutsAreLate == Spec => []TimeoutsLate
<1>1. IInv => TimeoutsLate
  BY DEF IInv
<1>. QED
  BY <1>1, InvHolds, PTL
=============================================================================
