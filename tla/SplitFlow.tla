----------------------------- MODULE SplitFlow -----------------------------
(***************************************************************************)
(* The splitting workflow (workflows/splitflows.py): dynamic splitting, an *)
(* optional merge of the programs that are left (flows/split.py), then the *)
(* backup verifiers on what is left (flows/verifiers.py), and, if all that *)
(* was not conclusive, the backup verifiers on the whole input, all of it  *)
(* under a timeout.  What splitting does is that of ProgramSplitting,      *)
(* which DynamicSplitting implements.                                      *)
(*                                                                         *)
(* A program is the set of executions it has.  Verifiers are right but may *)
(* know nothing or fail.                                                   *)
(***************************************************************************)
EXTENDS Verdicts, FiniteSets

CONSTANTS
  Unit, Whole, Halved, Left, Right, Path, Paths,  \* see DynamicSplitting
  Verifier, \* the backup verifiers
  Backups,  \* backup chains: "a+b-c" is <<{a, b}, {c}>>
  Merges    \* the merge operators to choose from: "none", "cpa"

ASSUME TreeAssumption ==
  /\ IsFiniteSet(Unit) /\ Whole \in Unit /\ Halved \subseteq Unit
  /\ Left \in [Halved -> Unit] /\ Right \in [Halved -> Unit]
  /\ Paths \in [Unit -> SUBSET Path]
  /\ \A u \in Halved : Paths[u] = Paths[Left[u]] \cup Paths[Right[u]]
  /\ \A u \in Halved : Left[u] # Right[u] /\ Whole \notin {Left[u], Right[u]}
  /\ \A u, v \in Halved : u # v => {Left[u], Right[u]} \cap {Left[v], Right[v]} = {}
ASSUME ChainAssumption ==
  /\ IsFiniteSet(Verifier) /\ Merges \subseteq {"none", "cpa"}
  /\ \A b \in Backups : b \in Seq((SUBSET Verifier) \ {{}}) /\ b # <<>>

VARIABLES
  frontier, verified, refuted, answer, residuals, done,  \* see ProgramSplitting
  buggy,     \* the executions that violate the property: never read by the code
  backup,    \* the chain of backup verifiers
  merge,     \* the merge operator
  stage,     \* "split", "merge", "residuals", "whole" (the backups run), "over"
  worklist,  \* _incremental_merge: worklist
  merged,    \* _incremental_merge: merge_results
  exported,  \* residual_program.c, if there is one
  programs,  \* what the backup verifiers run on
  task,      \* for each program, how far its chain is
  gathered,  \* ParallelCompositionTask._results over the programs
  ended,     \* "no", by a "result", an "exception" or a "timeout"
  printed,   \* the SV-COMP verdict
  found,     \* history: did a backup verifier find a bug?
  proved,    \* history: the executions some backup verifier proved correct
  failed     \* history: did a backup verifier fail?

reduction == <<frontier, verified, refuted, answer, residuals, done>>
config == <<buggy, backup, merge>>
merging == <<worklist, merged>>
history == <<found, proved, failed>>
outcome == <<ended, printed>>
vars == <<reduction, config, stage, merging, exported, programs, task, gathered, outcome,
          history>>

Splitter == INSTANCE ProgramSplitting

\* One verdict of a verifier, about the one property that is checked.
Says(kind) == AVerdict(kind, "unreach")
Says3 == {Says(kind) : kind \in {"CORRECT", "INCORRECT", "UNKNOWN"}}

\* The task for a program: the element of the chain that runs, the verifiers of
\* it that have not answered, and the verdicts of the others.
Chain(at) == [at |-> at, waiting |-> backup[at], results |-> <<>>]
ChainOver == [at |-> 0, waiting |-> {}, results |-> <<>>]

TypeOK ==
  /\ stage \in {"split", "merge", "residuals", "whole", "over"}
  /\ worklist \in Seq(Unit)
  /\ DOMAIN merged \subseteq Unit /\ \A u \in DOMAIN merged : merged[u] \subseteq Path
  /\ exported \in Seq(SUBSET Path) /\ Len(exported) <= 1
  /\ programs \in Seq(SUBSET Path)
  /\ DOMAIN task = DOMAIN programs
  /\ \A i \in DOMAIN task :
       /\ task[i].at \in 0..Len(backup)
       /\ task[i].waiting \subseteq Verifier
       /\ task[i].results \in Seq(Says3)
  /\ gathered \in Seq(Says3)
  /\ ended \in {"no", "result", "exception", "timeout"}
  /\ printed \in {"none", "true", "unreach", "unknown", "error"}
  /\ proved \subseteq Path

Init ==
  /\ Splitter!Init
  /\ buggy \in SUBSET Path /\ backup \in Backups /\ merge \in Merges
  /\ stage = "split" /\ worklist = <<>> /\ merged = <<>> /\ exported = <<>>
  /\ programs = <<>> /\ task = <<>> /\ gathered = <<>>
  /\ ended = "no" /\ printed = "none"
  /\ found = FALSE /\ proved = {} /\ failed = FALSE

-----------------------------------------------------------------------------
(* The end, and what runs next *)

End(why, line) == stage' = "over" /\ ended' = why /\ printed' = line

\* A final result with verdicts, a final result ERROR, an exception.
ProcessResult(verdicts) == End("result", Printed(verdicts))
ProcessError == End("result", "none")
Raise == End("exception", "none")

\* The backup verifiers start on some programs, one chain for each.
Start(s, progs) ==
  /\ stage' = s
  /\ programs' = progs
  /\ task' = [i \in DOMAIN progs |-> Chain(1)]
  /\ gathered' = <<>>
  /\ UNCHANGED outcome

\* CheckWithBackup: only a conclusive result is taken from the programs that
\* are left, after anything else the whole input is verified.
BackupOnWhole == Start("whole", <<Paths[Whole]>>)

-----------------------------------------------------------------------------
(* Splitting *)

\* The verifier that splitting uses is right, too.
Splitting ==
  /\ stage = "split"
  /\ \/ \E u \in Unit : Splitter!Verify(u) /\ Paths[u] \cap buggy = {}
     \/ \E u \in Unit : Splitter!Split(u)
     \/ Splitter!Refute /\ ~refuted /\ \E u \in frontier : Paths[u] \cap buggy # {}
     \/ Splitter!Report
  /\ UNCHANGED <<config, stage, merging, exported, programs, task, gathered, outcome, history>>

\* A mutation: several programs are saved, too.
ResidualsAllSaved(progs) ==
  /\ exported' = progs
  /\ Start("residuals", progs)
  /\ UNCHANGED history

\* A program to export and to run the backup verifiers on: one program is saved.
Residuals(progs) ==
  /\ exported' = IF Len(progs) = 1 THEN progs ELSE exported
  /\ Start("residuals", progs)
  /\ UNCHANGED history

\* The result of splitting passes the merge operator, the export and the call
\* of the backup verifiers, which look only at one that has residuals.
SplittingOver ==
  /\ stage = "split"
  /\ answer # "none"
  /\ CASE answer = "error" ->
            BackupOnWhole /\ UNCHANGED <<merging, exported, history>>
       [] answer = "bug" ->
            /\ ProcessResult(<<Says("INCORRECT")>>)
            /\ UNCHANGED <<merging, exported, programs, task, gathered, history>>
       [] answer = "reduced" /\ residuals = {} ->
            /\ ProcessResult(<<Says("CORRECT")>>)
            /\ UNCHANGED <<merging, exported, programs, task, gathered, history>>
       [] answer = "reduced" /\ merge = "cpa" /\ Cardinality(residuals) > 1 ->
            /\ stage' = "merge"
            /\ worklist' \in SetToSeqs(residuals)
            /\ merged' = [u \in residuals |-> Paths[u]]
            /\ UNCHANGED <<exported, programs, task, gathered, outcome, history>>
       [] OTHER ->
            /\ \E order \in SetToSeqs(residuals) :
                 Residuals([i \in DOMAIN order |-> Paths[order[i]]])
            /\ UNCHANGED merging
  /\ UNCHANGED <<reduction, config>>

-----------------------------------------------------------------------------
(* Merging: a program of the tree of splits stands for its check and for     *)
(* the task that split it                                                    *)

\* A program with all that comes from it, and what comes from a program.
ClosedBelow(C) == \A u \in C \cap Halved : {Left[u], Right[u]} \subseteq C
Below == [u \in Unit |-> {v \in Unit : \A C \in SUBSET Unit : u \in C /\ ClosedBelow(C) => v \in C}]

Parent(u) == CHOOSE p \in Halved : u \in {Left[p], Right[p]}

\* The children of p in the tree of splits: the halves with a residual below.
Children(p) == {u \in {Left[p], Right[p]} : Below[u] \cap residuals # {}}

\* A mutation: a half without a residual is waited for.
ReadyBoth(p) == \A c \in {Left[p], Right[p]} : c \in DOMAIN merged

Ready(p) == \A c \in Children(p) : c \in DOMAIN merged

\* Mutations: one half stands for both; merging always gives the input.
MergeFnOneHalf(p) == {merged[c] : c \in Children(p)}
MergeFnInput(p) == {Paths[Whole]}

\* What two halves become: a program with the executions of the two or, when
\* merging them fails, the one that was split.  A single half is passed on.
MergeFn(p) ==
  LET union == UNION {merged[c] : c \in Children(p)}
  IN  IF Cardinality(Children(p)) = 2 THEN {union, Paths[p]} ELSE {union}

MergeStep ==
  /\ stage = "merge" /\ worklist # <<>>
  /\ LET node == Head(worklist) IN
       IF node = Whole \/ Parent(node) \in DOMAIN merged \/ ~Ready(Parent(node))
       THEN worklist' = Tail(worklist) /\ UNCHANGED merged
       ELSE /\ worklist' = Append(Tail(worklist), Parent(node))
            /\ \E m \in MergeFn(Parent(node)) :
                 merged' = [u \in DOMAIN merged \cup {Parent(node)} |->
                              IF u = Parent(node) THEN m ELSE merged[u]]
  /\ UNCHANGED <<reduction, config, stage, exported, programs, task, gathered, outcome,
                 history>>

\* The program at the root replaces the residuals; without one an assertion
\* fails.
Merged ==
  /\ stage = "merge" /\ worklist = <<>>
  /\ IF Whole \in DOMAIN merged
     THEN Residuals(<<merged[Whole]>>)
     ELSE Raise /\ UNCHANGED <<exported, programs, task, gathered, history>>
  /\ UNCHANGED <<reduction, config, merging>>

-----------------------------------------------------------------------------
(* The backup verifiers *)

Running == stage \in {"residuals", "whole"}

\* A mutation: whatever is left is verified again on the whole input.
BackupsOverAgain(verdicts) ==
  IF stage = "residuals" THEN BackupOnWhole
                         ELSE ProcessResult(verdicts) /\ UNCHANGED <<programs, task, gathered>>

\* The backup verifiers have verdicts.
BackupsOver(verdicts) ==
  IF stage = "residuals" /\ ~Conclusive(verdicts)
  THEN BackupOnWhole
  ELSE ProcessResult(verdicts) /\ UNCHANGED <<programs, task, gathered>>

\* Their result is an ERROR.
BackupsFailed ==
  IF stage = "residuals"
  THEN BackupOnWhole
  ELSE ProcessError /\ UNCHANGED <<programs, task, gathered>>

RaiseNow == Raise /\ UNCHANGED <<programs, task, gathered>>

\* ParallelCompositionTask over several programs: a bug decides, of another
\* result the first verdict is kept, and the last result makes the list.
ProgramOver(i, verdicts) ==
  LET all == Append(gathered, verdicts[1]) IN
    CASE Len(programs) = 1 \/ "INCORRECT" \in Kinds(verdicts) -> BackupsOver(verdicts)
      [] OTHER ->
           IF \A j \in DOMAIN task \ {i} : task[j] = ChainOver
           THEN BackupsOver(all)
           ELSE /\ gathered' = all
                /\ task' = [task EXCEPT ![i] = ChainOver]
                /\ UNCHANGED <<stage, outcome, programs>>

NextInChain(i, at) ==
  /\ task' = [task EXCEPT ![i] = Chain(at)]
  /\ UNCHANGED <<stage, outcome, programs, gathered>>

\* A mutation: the same verifier is tried once more.
NextElementSame(i) == task[i].at

NextElement(i) == task[i].at + 1

\* SequentialCompositionTask: what is not conclusive is done again by the next
\* element of the chain, if there is one.
ElementOver(i, verdicts) ==
  IF ~Conclusive(verdicts) /\ task[i].at < Len(backup)
  THEN NextInChain(i, NextElement(i))
  ELSE ProgramOver(i, verdicts)

Alone(i) == Cardinality(backup[task[i].at]) = 1

\* A verifier answers; several of one element are a ParallelCompositionTask.
Answer(i, v, claim) ==
  LET results == Append(task[i].results, claim) IN
    IF Alone(i) \/ claim.kind = "INCORRECT" \/ task[i].waiting = {v}
    THEN ElementOver(i, IF claim.kind = "INCORRECT" THEN <<claim>> ELSE results)
    ELSE /\ task' = [task EXCEPT ![i] =
                        [at |-> @.at, waiting |-> @.waiting \ {v}, results |-> results]]
         /\ UNCHANGED <<stage, outcome, programs, gathered>>

\* Verifiers claim only what is true.
Claims(program) ==
  {Says("UNKNOWN"), IF program \cap buggy = {} THEN Says("CORRECT") ELSE Says("INCORRECT")}

VerifierAnswers ==
  /\ Running
  /\ \E i \in DOMAIN task : \E v \in task[i].waiting, claim \in Claims(programs[i]) :
       /\ Answer(i, v, claim)
       /\ found' = (found \/ claim.kind = "INCORRECT")
       /\ proved' = IF claim.kind = "CORRECT" THEN proved \cup programs[i] ELSE proved
  /\ UNCHANGED <<reduction, config, merging, exported, failed>>

\* The result of a verifier is ERROR, which has no output.  A chain goes on; a
\* composition takes the first element of the output and raises.
VerifierFails ==
  /\ Running
  /\ \E i \in DOMAIN task : task[i].waiting # {} /\
       IF ~Alone(i) THEN RaiseNow
       ELSE IF task[i].at < Len(backup) THEN NextInChain(i, NextElement(i))
       ELSE IF Len(programs) > 1 THEN RaiseNow
       ELSE BackupsFailed
  /\ failed' = TRUE
  /\ UNCHANGED <<reduction, config, merging, exported, found, proved>>

\* The watchdog stops everything; a continuation that was stopped is an ERROR.
Timeout ==
  /\ stage # "over"
  /\ End("timeout", "none")
  /\ UNCHANGED <<reduction, config, merging, exported, programs, task, gathered, history>>

Works == Splitting \/ SplittingOver \/ MergeStep \/ Merged \/ VerifierAnswers \/ VerifierFails

Over == stage = "over" /\ UNCHANGED vars

Next == Works \/ Timeout \/ Over

Spec == Init /\ [][Next]_vars

\* Verifiers come to an end, by themselves or by a timeout of their own.
FairSpec == Spec /\ WF_vars(Works)

-----------------------------------------------------------------------------
(* Properties *)

Executions(S) == UNION {Paths[u] : u \in S}

\* The printed verdict is right, although parts of the program were verified by
\* one tool, others merged, and others handed to the next tool.
VerdictIsRight ==
  /\ printed = "true" => Paths[Whole] \cap buggy = {}
  /\ printed = "unreach" => Paths[Whole] \cap buggy # {}

\* What the backup verifiers get has all the executions that splitting left;
\* a merged program is no larger than the smallest program of the tree of
\* splits above them, and so is the residual program that is saved.
MergeIsTight ==
  stage = "residuals" =>
    /\ Executions(residuals) \subseteq UNION ToSet(programs)
    /\ \A u \in Unit : residuals \subseteq Below[u] => UNION ToSet(programs) \subseteq Paths[u]
    /\ exported = (IF Len(programs) = 1 THEN programs ELSE <<>>)

\* The halves of a program are its two branches, and none is without executions:
\* of a program that cannot be run at all nothing is left to prove, but a
\* verifier may well be at a loss.
OwnExecutions ==
  /\ \A u \in Unit : Paths[u] # {}
  /\ \A u \in Halved : Paths[Left[u]] \cap Paths[Right[u]] = {}

\* Whatever is composed with it, a bug that was found is the verdict, and so
\* are proofs of everything unless verifiers that run side by side disagree:
\* splitting drops a bug when it fails, and an exception or the timeout may be
\* faster.
ResultsAreUsed ==
  ended = "result" =>
    /\ found \/ (refuted /\ answer # "error") => printed = "unreach"
    /\ /\ Paths[Whole] \subseteq Executions(done) \cup proved
       /\ \A k \in DOMAIN backup : Cardinality(backup[k]) = 1
       => printed = "true"

\* There is a verdict unless the time is over, or a verifier fails and is the
\* last to run on the input or is composed with another one that runs.
NoVerdictReasons ==
  stage = "over" /\ printed = "none" =>
    \/ ended = "timeout"
    \/ failed /\ ended = "result" /\ programs = <<Paths[Whole]>>
    \/ failed /\ ended = "exception" /\
       (Len(programs) > 1 \/ \E k \in DOMAIN backup : Cardinality(backup[k]) > 1)

\* The workflow comes to an end.
Ends == <>(stage = "over")

=============================================================================
