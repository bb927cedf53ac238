----------------------------- MODULE Scheduler ------------------------------
(***************************************************************************)
(* The workflow splitting-svcomp24 (workflows/scheduler.py): KLEE checks   *)
(* the program for a few seconds, what it does not solve is split, a       *)
(* backup runs KLEE for longer and then SlowBeast, and a violation that    *)
(* was found is validated: its witness becomes a harness, and KLEE runs on *)
(* the program with the harness.  One task runs at a time.  The first      *)
(* split raises, so nothing beyond it is here; Verdicts has the parsers    *)
(* and what is printed.                                                    *)
(***************************************************************************)
EXTENDS SvcompRun

KleeStage == {"weak", "strong", "validate"}
Stage == {"compile", "split", "backup", "recompile", "sb", "harness", "link", "over"}
           \cup KleeStage

VARIABLES
  memory,    \* what the parser of the tool that runs, or ran last, remembers
  found,     \* who saw the violation that is to be validated
  linked     \* the files that KLEE validates

runVars == <<asked, violated, stage, memory, found, linked, stopped, printed>>

SchedulerTypeOK ==
  /\ RunTyped
  /\ stage \in Stage
  /\ memory \in Parsers
  /\ found \in {"nobody", "clang", "klee", "sb"}
  /\ linked \subseteq {"program", "harness"}

SchedulerInit ==
  /\ RunStarts
  /\ memory = NewParser
  /\ found = "nobody"
  /\ linked = {}

\* A task is replaced by the next one.
Replace(s) == stage' = s /\ memory' = NewParser /\ UNCHANGED printed

\* The final result is printed.
Answer(verdicts) == stage' = "over" /\ printed' = Printed(verdicts) /\ UNCHANGED memory

\* A mutation: an ERROR is printed like a verdict.
NoAnswerPrinted == stage' = "over" /\ printed' = "ERROR" /\ UNCHANGED memory

\* The workflow ends with a result ERROR or with an exception, which prints no
\* verdict.
NoAnswer == stage' = "over" /\ UNCHANGED <<memory, printed>>

-----------------------------------------------------------------------------
(* Validation *)

\* A mutation: a violation is the verdict as it is.
CheckAndValidateTrusts(who, verdicts) ==
  /\ found' = (IF "INCORRECT" \in Kinds(verdicts) THEN who ELSE found)
  /\ Answer(verdicts)

\* CheckAndValidate.continuation.  A violation needs a witness in GraphML; what
\* clang and SlowBeast report has none: the option that the parser of
\* SlowBeast looks for is not the one that SlowBeast is given.
CheckAndValidate(who, verdicts) ==
  IF "INCORRECT" \in Kinds(verdicts)
  THEN /\ found' = who
       /\ \/ who = "klee" /\ Replace("harness")
          \/ NoAnswer
  ELSE Answer(verdicts) /\ UNCHANGED found

\* The witness is malformed or calls a function that has no signature: an ERROR
\* or an exception.
ConvertHarness ==
  /\ stage = "harness" /\ ~stopped
  /\ Replace("link") \/ NoAnswer
  /\ UNCHANGED <<asked, violated, found, linked, stopped>>

\* The program and the harness are compiled and linked; when one fails, the
\* other one is the program (see Compiler).
LinkHarness ==
  /\ stage = "link" /\ ~stopped
  /\ linked' \in SUBSET {"program", "harness"}
  /\ IF linked' = {} THEN NoAnswer ELSE Replace("validate")
  /\ UNCHANGED <<asked, violated, found, stopped>>

\* A list of verdicts is not a file that KLEE can be run on: execute() raises.
LinkHarnessWithWarning ==
  /\ stage = "link" /\ ~stopped /\ MayWarn
  /\ NoAnswer
  /\ UNCHANGED <<asked, violated, found, linked, stopped>>

-----------------------------------------------------------------------------
(* The tools: they report violations that there are *)

Finds(p) == Len(memory.errors) < MaxErrors /\ p \in violated

KleeFinds ==
  /\ stage \in KleeStage /\ linked # {"harness"}
  /\ \E p \in Keys \ {"termination"} :
       Finds(p) /\ memory' = KleeError(memory, p, asked)
  /\ UNCHANGED <<asked, violated, stage, found, linked, stopped, printed>>

SlowBeastFinds ==
  /\ stage = "sb" /\ ~memory.clean
  /\ \E p \in SlowBeastLooksFor(asked) :
       /\ Finds(p)
       /\ IF SlowBeastRaises(p, asked) THEN NoAnswer
          ELSE /\ memory' = [memory EXCEPT !.errors = Append(@, p)]
               /\ UNCHANGED <<stage, printed>>
  /\ UNCHANGED <<asked, violated, found, linked, stopped>>

\* A path is given up; so KLEE does with the rest when its timeout is over.
GivesUpPath ==
  /\ stage \in KleeStage \cup {"sb"}
  /\ \E why \in IF stage = "sb" THEN {"path"} ELSE {"path", "float"} :
       memory' = [memory EXCEPT !.killed = @ \cup {why}]
  /\ UNCHANGED <<asked, violated, stage, found, linked, stopped, printed>>

FindsNothing ==
  /\ stage = "sb" /\ memory.errors = <<>>
  /\ memory' = [memory EXCEPT !.clean = TRUE]
  /\ UNCHANGED <<asked, violated, stage, found, linked, stopped, printed>>

\* A tool that ends well and without a reservation has found what there is, but
\* a program with a harness has one execution only, and a harness without the
\* program cannot be run.
CanEnd(retval) ==
  /\ retval = 0 /\ memory.errors = <<>> /\ memory.killed = {} /\ (stage = "sb" => memory.clean)
       => violated \cap asked = {} \/ linked = {"program", "harness"}
  /\ linked = {"harness"} => retval # 0

-----------------------------------------------------------------------------
(* The check of the whole program *)

Compile ==
  /\ stage = "compile" /\ ~stopped
  /\ Replace("weak") \/ Replace("backup")
  /\ UNCHANGED <<asked, violated, found, linked, stopped>>

\* The verdict of the compiler is handed to KLEE as its input.
CompileWithWarning ==
  /\ stage = "compile" /\ ~stopped /\ MayWarn
  /\ found' = "clang"
  /\ NoAnswer
  /\ UNCHANGED <<asked, violated, linked, stopped>>

WeakEnds ==
  /\ stage = "weak" /\ ~stopped
  /\ \E retval \in {0, 1} :
       LET verdicts == KleeResult(memory, retval, asked) IN
         /\ CanEnd(retval)
         /\ IF Conclusive(verdicts) THEN CheckAndValidate("klee", verdicts)
            ELSE Replace("split") /\ UNCHANGED found
  /\ UNCHANGED <<asked, violated, linked, stopped>>

\* SplitTask.execute asks the options of the task, which are None.
Split ==
  /\ stage = "split" /\ ~stopped
  /\ NoAnswer
  /\ UNCHANGED <<asked, violated, found, linked, stopped>>

-----------------------------------------------------------------------------
(* The backup, after the first compilation failed *)

CompileBackup ==
  /\ stage = "backup" /\ ~stopped
  /\ Replace("strong") \/ NoAnswer
  /\ UNCHANGED <<asked, violated, found, linked, stopped>>

CompileBackupWithWarning ==
  /\ stage = "backup" /\ ~stopped /\ MayWarn
  /\ CheckAndValidate("clang", Warning)
  /\ UNCHANGED <<asked, violated, linked, stopped>>

\* RunStrongVerifier.continuation.  Backward symbolic execution is not for
\* termination: to ask for it raises.
AfterStrong(verdicts) ==
  IF Conclusive(verdicts) THEN CheckAndValidate("klee", verdicts)
  ELSE /\ IF "termination" \in asked /\ "float" \notin memory.killed THEN NoAnswer
          ELSE Replace(IF Instrumented THEN "recompile" ELSE "sb")
       /\ UNCHANGED found

StrongEnds ==
  /\ stage = "strong" /\ ~stopped
  /\ \E retval \in {0, 1} :
       CanEnd(retval) /\ AfterStrong(KleeResult(memory, retval, asked))
  /\ UNCHANGED <<asked, violated, linked, stopped>>

Recompile ==
  /\ stage = "recompile" /\ ~stopped
  /\ Replace("sb") \/ NoAnswer
  /\ UNCHANGED <<asked, violated, found, linked, stopped>>

SlowBeastEnds ==
  /\ stage = "sb" /\ ~stopped
  /\ \E retval \in {0, 1} :
       CanEnd(retval) /\ CheckAndValidate("sb", SlowBeastResult(memory, retval, asked))
  /\ UNCHANGED <<asked, violated, linked, stopped>>

-----------------------------------------------------------------------------
(* The end *)

\* A mutation: what was not confirmed is not answered.
AfterValidationSilent(verdicts) ==
  IF "INCORRECT" \in Kinds(verdicts) THEN Answer(verdicts) ELSE NoAnswer

\* KLEE has replaced the tasks around it: what it says is the final result,
\* also when it was stopped.
AfterValidation(verdicts) == Answer(verdicts)

ValidationEnds ==
  /\ stage = "validate"
  /\ \E retval \in {0, 1} :
       CanEnd(retval) /\ AfterValidation(KleeResult(memory, retval, asked))
  /\ UNCHANGED <<asked, violated, found, linked, stopped>>

WatchdogStops ==
  /\ stage # "over" /\ ~stopped
  /\ stopped' = TRUE
  /\ UNCHANGED <<asked, violated, stage, memory, found, linked, printed>>

\* A continuation that was stopped answers ERROR, a task that was stopped before
\* its start makes the start raise, and what a task was to be replaced by is
\* dropped.
StoppedEnds ==
  /\ stage # "over" /\ stopped
  /\ NoAnswer
  /\ UNCHANGED <<asked, violated, found, linked, stopped>>

HasEnded == stage = "over" /\ UNCHANGED runVars

SchedulerNext ==
  \/ Compile \/ CompileWithWarning \/ WeakEnds \/ Split
  \/ CompileBackup \/ CompileBackupWithWarning \/ StrongEnds \/ Recompile \/ SlowBeastEnds
  \/ ConvertHarness \/ LinkHarness \/ LinkHarnessWithWarning \/ ValidationEnds
  \/ KleeFinds \/ SlowBeastFinds \/ GivesUpPath \/ FindsNothing
  \/ WatchdogStops \/ StoppedEnds
  \/ HasEnded

SchedulerSpec == SchedulerInit /\ [][SchedulerNext]_runVars

-----------------------------------------------------------------------------
(* Properties *)

\* "false(p)" is printed only when KLEE has seen a violation twice, in the
\* program and after its validation was prepared, and p was asked for and is
\* violated; but "true" is printed of a program that violates what was asked
\* for when KLEE saw the violation and the one run on its harness missed it,
\* and never otherwise.
VerdictIsConfirmed ==
  /\ printed \in Keys =>
       found = "klee" /\ linked \in {{"program"}, {"program", "harness"}}
         /\ printed \in violated \cap asked
  /\ printed = "true" =>
       violated \cap asked = {} \/ (found = "klee" /\ linked = {"program", "harness"})

\* A run without a verdict was stopped, or nobody saw a violation in it that was
\* asked for before SlowBeast met one that was not, or the violation was seen by
\* clang or SlowBeast, had no usable witness, could not be linked with its harness
\* (a warning of clang about what is linked counts as that), or was followed by two
\* different ones in the validation.
NoAnswerReasons ==
  stage = "over" /\ printed = "none" =>
    \/ stopped
    \/ found = "nobody" /\ (memory.errors = <<>> \/ "unreach" \in violated \ asked)
    \/ found \in {"clang", "sb"}
    \/ found = "klee" /\ linked = {}
    \/ linked # {} /\ Cardinality(ToSet(memory.errors)) > 1

=============================================================================
