-------------------------- MODULE ProgramSplitting --------------------------
(***************************************************************************)
(* What dynamic splitting promises, whatever runs in parallel and however   *)
(* results are passed on: a set of programs that has all the executions of  *)
(* the input, in which a program is replaced by its halves, until it is     *)
(* reported which of them are verified and which are left.                  *)
(***************************************************************************)
CONSTANTS Unit, Whole, Halved, Left, Right, Path, Paths

VARIABLES
  frontier,   \* the programs that are neither verified nor split
  verified,   \* the programs found correct
  refuted,    \* was a bug found?
  answer,     \* "none" yet, "bug", "reduced" to the residuals, or "error"
  residuals,  \* the programs reported as left to verify
  done        \* the programs reported as verified

vars == <<frontier, verified, refuted, answer, residuals, done>>

Init ==
  /\ frontier = {Whole} /\ verified = {} /\ refuted = FALSE
  /\ answer = "none" /\ residuals = {} /\ done = {}

Verify(u) ==
  /\ answer = "none" /\ u \in frontier
  /\ frontier' = frontier \ {u}
  /\ verified' = verified \cup {u}
  /\ UNCHANGED <<refuted, answer, residuals, done>>

Refute ==
  /\ answer = "none" /\ refuted' = TRUE
  /\ UNCHANGED <<frontier, verified, answer, residuals, done>>

Split(u) ==
  /\ answer = "none" /\ u \in frontier \cap Halved
  /\ frontier' = (frontier \ {u}) \cup {Left[u], Right[u]}
  /\ UNCHANGED <<verified, refuted, answer, residuals, done>>

Report ==
  /\ answer = "none"
  /\ \/ refuted /\ answer' = "bug" /\ UNCHANGED <<residuals, done>>
     \/ answer' = "error" /\ UNCHANGED <<residuals, done>>
     \/ ~refuted /\ answer' = "reduced" /\ residuals' = frontier /\ done' = verified
  /\ UNCHANGED <<frontier, verified, refuted>>

Next == Refute \/ Report \/ \E u \in Unit : Verify(u) \/ Split(u)

Spec == Init /\ [][Next]_vars

=============================================================================
