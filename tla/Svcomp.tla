------------------------------- MODULE Svcomp -------------------------------
(***************************************************************************)
(* The SV-COMP workflow (workflows/svcomp.py) from the first compilation   *)
(* to the verdict that is printed.  KLEE runs first; when it is not        *)
(* conclusive, SlowBeast runs alone (if KLEE failed on floats) or forward  *)
(* and backward symbolic execution run together.  Termination is checked   *)
(* by KLEE and SlowBeast side by side.  The engine is that of Workflow;    *)
(* here it is what is said about the program that counts.                  *)
(***************************************************************************)
EXTENDS SvcompRun

Tool == {"klee", "sb", "se", "bself"}

VARIABLES
  running,   \* the tools that run
  parser,    \* [Tool -> Parsers]
  result     \* the verdicts of the final result

vars == <<asked, violated, stage, running, parser, stopped, result, printed>>

TypeOK ==
  /\ RunTyped
  /\ stage \in {"compile", "klee", "recompile", "sb", "coop", "termination", "over"}
  /\ running \subseteq Tool
  /\ parser \in [Tool -> Parsers]
  /\ ToSet(result) \subseteq Verdicts

Init ==
  /\ RunStarts
  /\ running = {}
  /\ parser = [t \in Tool |-> NewParser]
  /\ result = <<>>

Start(s, tools) == stage' = s /\ running' = tools

\* The final result is printed and whatever still runs is stopped.
Over(verdicts) ==
  /\ Start("over", {})
  /\ result' = verdicts
  /\ printed' = Printed(verdicts)

\* The workflow ends with an exception or with a result ERROR: nothing but a
\* message is printed.
NoVerdict == Start("over", {}) /\ UNCHANGED <<result, printed>>

-----------------------------------------------------------------------------
(* Compilation *)

Compiled ==
  /\ stage = "compile" /\ ~stopped
  /\ IF asked = {"termination"} THEN Start("termination", {"klee", "sb"})
                                ELSE Start("klee", {"klee"})
  /\ UNCHANGED <<asked, violated, parser, stopped, result, printed>>

CompiledWithWarning ==
  /\ stage = "compile" /\ ~stopped /\ MayWarn
  /\ Over(Warning)
  /\ UNCHANGED <<asked, violated, parser, stopped>>

\* A continuation that was stopped ends with an ERROR, too.
CompilationFails ==
  /\ stage = "compile" \/ (stage = "recompile" /\ stopped)
  /\ NoVerdict
  /\ UNCHANGED <<asked, violated, parser, stopped>>

\* The input has been compiled with these options before.
Recompiled ==
  /\ stage = "recompile" /\ ~stopped
  /\ Start("coop", {"se", "bself"})
  /\ UNCHANGED <<asked, violated, parser, stopped, result, printed>>

-----------------------------------------------------------------------------
(* The tools: they report violations that there are *)

Reports(t, p) == Len(parser[t].errors) < MaxErrors /\ p \in violated

KleeReports ==
  /\ "klee" \in running
  /\ \E p \in Keys \ {"termination"} :
       /\ Reports("klee", p)
       /\ parser' = [parser EXCEPT !["klee"] = KleeError(@, p, asked)]
  /\ UNCHANGED <<asked, violated, stage, running, stopped, result, printed>>

SlowBeastReports ==
  /\ \E t \in running \ {"klee"}, p \in SlowBeastLooksFor(asked) :
       /\ Reports(t, p) /\ ~parser[t].clean
       /\ IF SlowBeastRaises(p, asked)
          THEN NoVerdict /\ UNCHANGED parser
          ELSE /\ parser' = [parser EXCEPT ![t].errors = Append(@, p)]
               /\ UNCHANGED <<stage, running, result, printed>>
  /\ UNCHANGED <<asked, violated, stopped>>

\* A path is given up: a limit, a float, a thread, an interrupt.
KillsPath ==
  /\ \E t \in running : \E why \in IF t = "klee" THEN {"path", "float"} ELSE {"path"} :
       parser' = [parser EXCEPT ![t].killed = @ \cup {why}]
  /\ UNCHANGED <<asked, violated, stage, running, stopped, result, printed>>

SaysClean ==
  /\ \E t \in running \ {"klee"} :
       /\ parser[t].errors = <<>>
       /\ parser' = [parser EXCEPT ![t].clean = TRUE]
  /\ UNCHANGED <<asked, violated, stage, running, stopped, result, printed>>

\* A tool that ends well and without a reservation has found what there is.
MayEnd(t, retval) ==
  retval = 0 /\ parser[t].errors = <<>> /\ parser[t].killed = {}
    /\ (t = "klee" \/ parser[t].clean)
  => violated \cap asked = {}

ToolResult(t, retval) ==
  IF t = "klee" THEN KleeResult(parser[t], retval, asked)
                ELSE SlowBeastResult(parser[t], retval, asked)

-----------------------------------------------------------------------------
(* The ends of the tools *)

\* A mutation: KLEE is tried again until it is conclusive.
AfterKleeAgain(verdicts) ==
  IF Conclusive(verdicts) THEN Over(verdicts)
  ELSE IF stopped THEN NoVerdict
  ELSE Start("klee", {"klee"}) /\ UNCHANGED <<result, printed>>

\* StartVerificationKlee.finish.  The tasks that are to follow are dropped if
\* KLEE had been stopped, and then there is no result.
AfterKlee(verdicts) ==
  IF Conclusive(verdicts) THEN Over(verdicts)
  ELSE IF stopped THEN NoVerdict
  ELSE /\ IF "float" \in parser["klee"].killed THEN Start("sb", {"sb"})
          ELSE IF Instrumented THEN Start("recompile", {})
          ELSE Start("coop", {"se", "bself"})
       /\ UNCHANGED <<result, printed>>

\* A mutation: the first of two results is taken, conclusive or not.
AfterOneOfTwoFirst(t, verdicts) == Over(verdicts)

\* A mutation: there is no answer when no tool was conclusive.
AfterOneOfTwoNoAnswer(t, verdicts) ==
  IF Conclusive(verdicts) THEN Over(verdicts)
  ELSE IF running # {t}
       THEN running' = running \ {t} /\ UNCHANGED <<stage, result, printed>>
  ELSE NoVerdict

\* CooperativeSeBself and StartTerminationVerification: the first conclusive
\* result counts.  Only the former has an answer when there is none.
AfterOneOfTwo(t, verdicts) ==
  IF Conclusive(verdicts) THEN Over(verdicts)
  ELSE IF running # {t}
       THEN running' = running \ {t} /\ UNCHANGED <<stage, result, printed>>
  ELSE IF stage = "coop" THEN Over(<<AVerdict("UNKNOWN", "none")>>)
  ELSE NoVerdict

ToolEnds ==
  /\ \E t \in running, retval \in {0, 1} :
       /\ MayEnd(t, retval)
       /\ CASE stage = "klee" -> AfterKlee(ToolResult(t, retval))
            [] stage = "sb" -> Over(ToolResult(t, retval))
            [] OTHER -> AfterOneOfTwo(t, ToolResult(t, retval))
  /\ UNCHANGED <<asked, violated, parser, stopped>>

\* The timeout of KLEE or of the watchdog: the tools are interrupted.
Timeout ==
  /\ stage # "over" /\ ~stopped
  /\ stopped' = TRUE
  /\ UNCHANGED <<asked, violated, stage, running, parser, result, printed>>

Stutter == stage = "over" /\ UNCHANGED vars

Progress == Compiled \/ CompiledWithWarning \/ CompilationFails \/ Recompiled \/ ToolEnds

Next ==
  \/ Progress
  \/ KleeReports \/ SlowBeastReports \/ KillsPath \/ SaysClean
  \/ Timeout
  \/ Stutter

Spec == Init /\ [][Next]_vars

\* Compilers and tools end, by themselves or because they are killed.
FairSpec == Spec /\ WF_vars(Progress)

-----------------------------------------------------------------------------
(* Properties *)

\* Bubaak says "true" only of a program that violates none of the properties
\* asked for, and "false(p)" only when p was asked for and is violated, as long
\* as the tools are right; a reservation of any tool is not lost on the way.
VerdictIsRight ==
  /\ printed = "true" => violated \cap asked = {}
  /\ printed \in Keys => printed \in violated \cap asked

\* Once a violation has been seen in a tool's output, no timeout, no other
\* tool and no order of events turns the answer into "true" or "unknown".
SeenBugIsNotLost ==
  printed \in {"true", "unknown", "error"} => \A t \in Tool : parser[t].errors = <<>>

\* A run ends without a verdict only if two different properties were found
\* violated, SlowBeast met a failing assertion that nobody asked for, or no
\* tool found anything and the compilation failed, the run was stopped, or
\* termination stayed open.
NoVerdictReasons ==
  stage = "over" /\ printed = "none" =>
    \/ \E t \in Tool : Cardinality(ToSet(parser[t].errors)) > 1
    \/ "unreach" \in violated \ asked
    \/ /\ \A t \in Tool : parser[t].errors = <<>>
       /\ stopped \/ asked = {"termination"} \/ \A t \in Tool : parser[t] = NewParser

\* Whatever the tools say, the workflow ends: no tool is started for ever.
Ends == <>(stage = "over")

=============================================================================
