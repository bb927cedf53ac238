-------------------------- MODULE DynamicSplitting --------------------------
(***************************************************************************)
(* Dynamic program splitting (workflows/flows/split.py).  A weak verifier   *)
(* checks the whole program; as long as programs are left on which it was   *)
(* not conclusive, rounds are run: the first open programs are split into   *)
(* two halves each and both halves are checked, all of it in parallel.      *)
(* The result is a bug, or the programs that were verified and those that   *)
(* are left (the residuals) for another verifier.                           *)
(*                                                                         *)
(* One action is one task that finishes and what its listeners do: the     *)
(* splitter (SplitTask), a check (CheckTask), the two checks of a split     *)
(* (ParallelCompose), an IdentityTask, and the round (ComposeResults), with *)
(* the continuation that evaluates it.                                      *)
(***************************************************************************)
EXTENDS Integers, Sequences, SequencesExt, FiniteSets

CONSTANTS
  Unit,        \* programs: the input and the files the splitter writes
  Whole,       \* the input
  Halved,      \* the programs the splitter can split (it may still fail)
  Left, Right, \* [Halved -> Unit]: what it makes of them
  Path,        \* the executions of the input
  Paths,       \* [Unit -> SUBSET Path]: those a program still has
  MaxWidth,    \* split_config["splitting"]
  MaxHeight,   \* split_config["steps_limit"]
  Parallel,    \* the argument parallelization_limit
  SoftTimeout  \* is there a timeout for the splitter?

ParallelizationLimit == IF Parallel = -1 THEN MaxWidth ELSE Parallel

\* A mutation: one task for a split is counted, not the two checks in it.
SplitsOnly == ParallelizationLimit

\* How many programs a round splits.
SplitCheckLimit == ParallelizationLimit \div 2

\* The halves of a program are new files, and every execution of the program
\* is an execution of one of them.
ASSUME SplitAssumption ==
  /\ Whole \in Unit
  /\ Halved \subseteq Unit
  /\ Left \in [Halved -> Unit] /\ Right \in [Halved -> Unit]
  /\ Paths \in [Unit -> SUBSET Path]
  /\ \A u \in Halved : Paths[u] \subseteq Paths[Left[u]] \cup Paths[Right[u]]
ASSUME FreshAssumption ==
  /\ \A u \in Halved : Left[u] # Right[u] /\ Whole \notin {Left[u], Right[u]}
  /\ \A u, v \in Halved : u # v => {Left[u], Right[u]} \cap {Left[v], Right[v]} = {}
\* What the table _splitting_config in workflows/splitflows.py gives.
ASSUME ConfigAssumption ==
  /\ MaxWidth \in Int /\ MaxHeight \in Int /\ Parallel \in Int
  /\ SoftTimeout \in BOOLEAN
  /\ ParallelizationLimit >= 2 \/ MaxWidth \in {0, 1}

VARIABLES
  phase,      \* "whole": the input is being checked, "round", "over"
  open,       \* _open_tasks
  executed,   \* _executed_tasks
  results,    \* _results: the programs verified correct
  steps,      \* _steps
  stage,      \* what the task for a program of this round is doing
  check,      \* the CheckTask of a program
  got,        \* ParallelCompose._results of the two halves of a program
  decided,    \* ParallelCompose._aggregated_result
  collected,  \* ComposeResults._results
  result      \* the DynamicSplitResult

vars == <<phase, open, executed, results, steps, stage, check, got, decided,
          collected, result>>

\* A list of task results: the open programs in it in their order, the verified
\* ones, and whether there is a bug in it.
Items == [open : Seq(Unit), correct : SUBSET Unit, bug : BOOLEAN]
NoItems == [open |-> <<>>, correct |-> {}, bug |-> FALSE]
Bug == [NoItems EXCEPT !.bug = TRUE]
Open(u) == [NoItems EXCEPT !.open = <<u>>]
Plus(i, j) == [open |-> i.open \o j.open, correct |-> i.correct \cup j.correct,
               bug |-> i.bug \/ j.bug]

Result(status, bug, verified, residual) ==
  [status |-> status, bug |-> bug, verified |-> verified, residual |-> residual]
NoResult == Result("none", FALSE, {}, <<>>)

Halves(u) == {Left[u], Right[u]}
Answers == {"correct", "incorrect", "unknown", "error"}

TypeOK ==
  /\ phase \in {"whole", "round", "over"}
  /\ open \in Seq(Unit)
  /\ executed \in SUBSET Unit
  /\ results \in SUBSET Unit
  /\ steps \in Nat
  /\ stage \in [Unit -> {"none", "split", "identity", "check", "collected"}]
  /\ check \in [Unit -> {"none", "running", "stopped"} \cup Answers]
  /\ got \in [Unit -> Items]
  /\ decided \in [Unit -> {"none", "items", "bug", "error"}]
  /\ collected \in Items
  /\ result \in [status : {"none", "DONE", "ERROR"}, bug : BOOLEAN,
                 verified : SUBSET Unit, residual : Seq(Unit)]

Init ==
  /\ phase = "whole"
  /\ open = <<>> /\ executed = {} /\ results = {} /\ steps = 0
  /\ stage = [u \in Unit |-> "none"]
  /\ check = [u \in Unit |-> IF u = Whole THEN "running" ELSE "none"]
  /\ got = [u \in Unit |-> NoItems]
  /\ decided = [u \in Unit |-> "none"]
  /\ collected = NoItems
  /\ result = NoResult

-----------------------------------------------------------------------------
(* DynamicSplittingVerificationTask.continuation *)

\* A mutation: rounds are not counted.
StepsNotCounted == steps

StepsAfter == steps + 1

\* _stop_splitter, but for the soft timeout.
StepOrSplitLimit(s, o) ==
  \/ MaxHeight >= 0 /\ s >= MaxHeight
  \/ MaxWidth >= 0 /\ Len(o) >= MaxWidth

\* The programs of o that the next round splits, and the others.
ExecTasks(o) == SubSeq(o, 1, IF SplitCheckLimit < Len(o) THEN SplitCheckLimit ELSE Len(o))

\* A mutation: the last program that is split stays open.
OtherTasksOffByOne(o) == SubSeq(o, SplitCheckLimit, Len(o))

OtherTasks(o) == SubSeq(o, SplitCheckLimit + 1, Len(o))

\* A mutation: the list of programs becomes one element of the set.
ExecutedAddsList(o) == executed \cup {ExecTasks(o)}

ExecutedAfter(o) == executed \cup ToSet(ExecTasks(o))

End(r) ==
  /\ phase' = "over"
  /\ result' = r
  /\ stage' = [u \in Unit |-> "none"]
  /\ collected' = NoItems

\* Split and check the first open programs; a program that was executed before
\* could not be split and is only passed on.
NextRound(o) ==
  /\ phase' = "round"
  /\ open' = OtherTasks(o)
  /\ executed' = ExecutedAfter(o)
  /\ stage' = [u \in Unit |-> IF u \notin ToSet(ExecTasks(o)) THEN "none"
                              ELSE IF u \in executed THEN "identity" ELSE "split"]
  /\ collected' = NoItems
  /\ UNCHANGED result

\* What becomes of the results i of the first check or of a round.
Continuation(i) ==
  LET o == open \o i.open
      r == results \cup i.correct
  IN
    /\ results' = r
    /\ \/ /\ i.bug
          /\ End(Result("DONE", TRUE, {}, <<>>))
          /\ open' = o
          /\ UNCHANGED <<executed, steps>>
       \/ /\ ~i.bug
          /\ o = <<>>
          /\ End(Result("DONE", FALSE, r, <<>>))
          /\ open' = o
          /\ UNCHANGED <<executed, steps>>
       \/ /\ ~i.bug
          /\ o # <<>>
          /\ StepOrSplitLimit(StepsAfter, o) \/ SoftTimeout
          /\ steps' = StepsAfter
          /\ End(Result("DONE", FALSE, r, o))
          /\ open' = o
          /\ UNCHANGED executed
       \/ /\ ~i.bug
          /\ o # <<>>
          /\ ~StepOrSplitLimit(StepsAfter, o)
          /\ steps' = StepsAfter
          /\ NextRound(o)

\* A result other than DONE is passed on as it is.
Fails ==
  /\ End(Result("ERROR", FALSE, {}, <<>>))
  /\ UNCHANGED <<open, executed, results, steps>>

-----------------------------------------------------------------------------
(* The check of the whole program *)

\* A mutation: whatever is not a bug counts as verified.
ReportedVerified(u, a) ==
  IF a = "incorrect" THEN Bug ELSE [NoItems EXCEPT !.correct = {u}]

\* What a CheckTask reports of its program: a program on which the verifier
\* was not conclusive is handed back.
Reported(u, a) ==
  CASE a = "correct" -> [NoItems EXCEPT !.correct = {u}]
    [] a = "incorrect" -> Bug
    [] OTHER -> Open(u)

CheckWhole ==
  /\ phase = "whole"
  /\ check[Whole] = "running"
  /\ \E a \in Answers : check' = [check EXCEPT ![Whole] = a]
  /\ UNCHANGED <<phase, open, executed, results, steps, stage, got, decided,
                 collected, result>>

WholeChecked ==
  /\ phase = "whole"
  /\ check[Whole] # "running"
  /\ IF check[Whole] = "error" THEN Fails ELSE Continuation(Reported(Whole, check[Whole]))
  /\ UNCHANGED <<check, got, decided>>

-----------------------------------------------------------------------------
(* A round: ComposeResults over the programs that are split *)

\* aggregate() of ComposeResults gets the results i of the task for u: when it
\* was the last task, the round is done and its continuation runs.
Collect(u, i) ==
  LET others == {v \in Unit \ {u} : stage[v] \notin {"none", "collected"}} IN
    IF others = {}
    THEN Continuation(Plus(collected, i))
    ELSE /\ stage' = [stage EXCEPT ![u] = "collected"]
         /\ collected' = Plus(collected, i)
         /\ UNCHANGED <<phase, open, executed, results, steps, result>>

\* The splitter wrote the halves: SplitAndCheckTask is replaced by
\* ParallelCompose over the checks of the two.
SplitDone(u) ==
  /\ phase = "round"
  /\ stage[u] = "split"
  /\ u \in Halved
  /\ stage' = [stage EXCEPT ![u] = "check"]
  /\ check' = [v \in Unit |-> IF v \in Halves(u) THEN "running" ELSE check[v]]
  /\ UNCHANGED <<phase, open, executed, results, steps, got, decided, collected, result>>

\* A mutation: a program that cannot be split is done with.
SplitFailedDropped(u) ==
  /\ phase = "round"
  /\ stage[u] = "split"
  /\ Collect(u, NoItems)
  /\ UNCHANGED <<check, got, decided>>

\* The splitter raised ValueError: the program stays open.
SplitFailed(u) ==
  /\ phase = "round"
  /\ stage[u] = "split"
  /\ Collect(u, Open(u))
  /\ UNCHANGED <<check, got, decided>>

Identity(u) ==
  /\ phase = "round"
  /\ stage[u] = "identity"
  /\ Collect(u, Open(u))
  /\ UNCHANGED <<check, got, decided>>

\* aggregate() of ParallelCompose: an error or a bug decides at once and drops
\* what was gathered, otherwise the second answer decides.
CheckDone(u, h) ==
  /\ phase = "round"
  /\ stage[u] = "check"
  /\ check[h] = "running"
  /\ decided[u] = "none"
  /\ \E a \in Answers :
       /\ check' = [check EXCEPT ![h] = a]
       /\ got' = [got EXCEPT ![u] = IF a = "error" THEN NoItems
                                    ELSE IF a = "incorrect" THEN Bug
                                    ELSE Plus(got[u], Reported(h, a))]
       /\ decided' = [decided EXCEPT ![u] =
            CASE a = "error" -> "error"
              [] a = "incorrect" -> "bug"
              [] a \notin {"error", "incorrect"} /\
                 \A v \in Halves(u) \ {h} : check[v] # "running" -> "items"
              [] OTHER -> "none"]
  /\ UNCHANGED <<phase, open, executed, results, steps, stage, collected, result>>

\* The other half is stopped; whatever it still answers is not looked at.
CheckStopped(u, h) ==
  /\ phase = "round"
  /\ stage[u] = "check"
  /\ check[h] = "running"
  /\ decided[u] # "none"
  /\ check' = [check EXCEPT ![h] = "stopped"]
  /\ UNCHANGED <<phase, open, executed, results, steps, stage, got, decided,
                 collected, result>>

\* ParallelCompose is done when both halves are.  ComposeResults passes an
\* error on at once; what is still running is stopped and forgotten.
SplitChecked(u) ==
  /\ phase = "round"
  /\ stage[u] = "check"
  /\ decided[u] # "none"
  /\ \A h \in Halves(u) : check[h] # "running"
  /\ IF decided[u] = "error" THEN Fails ELSE Collect(u, got[u])
  /\ UNCHANGED <<check, got, decided>>

TaskFinishes ==
  \/ CheckWhole \/ WholeChecked
  \/ \E u \in Unit : SplitDone(u) \/ SplitFailed(u) \/ Identity(u) \/ SplitChecked(u)
  \/ \E u \in Halved : \E h \in Halves(u) : CheckDone(u, h) \/ CheckStopped(u, h)

Over == phase = "over" /\ UNCHANGED vars

Next == TaskFinishes \/ Over

Spec == Init /\ [][Next]_vars

\* The verifiers have timeouts, so some task of the round always finishes.
FairSpec == Spec /\ WF_vars(TaskFinishes)

-----------------------------------------------------------------------------
(* Properties *)

Executions(S) == UNION {Paths[u] : u \in S}

\* The verified programs and the residuals of a result without a bug have all
\* the executions of the input: when the residuals are found correct too, so
\* is the input.
Soundness ==
  result.status = "DONE" /\ ~result.bug =>
    Paths[Whole] \subseteq Executions(result.verified \cup ToSet(result.residual))

InRound == {u \in Unit : stage[u] \notin {"none", "collected"}}

\* The halves of a program are its two branches: no execution takes both.
HalvesShareNothing ==
  \A u \in Halved : /\ Paths[Left[u]] \cap Paths[Right[u]] = {}
                    /\ Paths[Left[u]] \cup Paths[Right[u]] \subseteq Paths[u]

\* No program is waiting or split twice, and none that another one covers: no
\* execution is analysed twice.
NoWorkTwice ==
  phase # "over" =>
    /\ IsInjective(open \o collected.open)
    /\ InRound \cap ToSet(open \o collected.open) = {}
    /\ \A u, v \in InRound \cup ToSet(open \o collected.open)
                           \cup results \cup collected.correct :
         u # v => Paths[u] \cap Paths[v] = {}

\* The number n of programs is within what the limit on the width allows, where
\* the last round may have added as many as it split; -1 stands for no limit.
WidthKept(n) ==
  MaxWidth >= 0 => n <= IF MaxWidth <= 1 THEN 1 ELSE MaxWidth - 1 + SplitCheckLimit

\* No more checks run at a time than parallelization_limit says; and the splitter
\* stops once there are MaxWidth programs.
LimitsKept ==
  /\ phase = "round" =>
       Cardinality({u \in Unit : check[u] = "running"}) <= ParallelizationLimit
  /\ WidthKept(Len(result.residual))

\* The number of rounds is limited, so there is a result in the end.
Terminates == <>(result.status # "none")

\* What the algorithm does with the program, seen from outside: see
\* ProgramSplitting.
Algorithm == INSTANCE ProgramSplitting WITH
  frontier <- {u \in Unit : check[u] \notin {"none", "correct"} /\
                           ~(u \in Halved /\ check[Left[u]] # "none")},
  verified <- {u \in Unit : check[u] = "correct"},
  refuted <- \E u \in Unit : check[u] = "incorrect",
  answer <- CASE result.status = "none" -> "none"
              [] result.status = "ERROR" -> "error"
              [] OTHER -> IF result.bug THEN "bug" ELSE "reduced",
  residuals <- ToSet(result.residual),
  done <- result.verified

\* The lists that travel through tasks, results and replacements hold exactly
\* what the algorithm says that they do.
ImplementsSplitting == Algorithm!Spec

\* The comment at the loop over the results says: "Abort if error: if x \in
\* results: return x, splits".  Then a bug that was found is the result.
FoundBugIsReported ==
  phase = "over" /\ (\E u \in Unit : check[u] = "incorrect") => result.bug

=============================================================================
