----------------------------- MODULE SvcompRun ------------------------------
(***************************************************************************)
(* What the two workflows for SV-COMP, Svcomp and Scheduler, have in        *)
(* common: a run of Bubaak is asked for some properties of a program, a     *)
(* timeout may stop it, and in the end it prints a verdict or none.         *)
(***************************************************************************)
EXTENDS Verdicts, FiniteSets

CONSTANTS
  Tasks,     \* the sets of properties that are asked for together
  MaxErrors  \* bound: the errors one tool reports

ASSUME TasksAssumption == Tasks \subseteq SUBSET Keys
ASSUME ErrorsAssumption == MaxErrors \in Nat

VARIABLES
  asked,     \* the properties to check
  violated,  \* what the program really violates: never read by the code
  stage,     \* which part of the workflow runs
  stopped,   \* a timeout, of a tool or of the watchdog, has stopped the run
  printed    \* the SV-COMP verdict

RunTyped ==
  /\ asked \in Tasks
  /\ violated \subseteq Keys
  /\ stopped \in BOOLEAN
  /\ printed \in Answers

RunStarts ==
  /\ asked \in Tasks
  /\ violated \in SUBSET Keys
  /\ stage = "compile"
  /\ stopped = FALSE
  /\ printed = "none"

\* Sanitizers are compiled in for KLEE.
Instrumented == asked \cap {"no-signed-overflow", "valid-deref"} # {}

\* Clang warns of an overflow in a constant expression.
MayWarn == "no-signed-overflow" \in asked \cap violated
Warning == <<AVerdict("INCORRECT", "no-signed-overflow")>>

=============================================================================
