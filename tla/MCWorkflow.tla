----------------------------- MODULE MCWorkflow -----------------------------
(* Plans of real workflows for the model checker: who is the child of whom.  *)
EXTENDS Workflow, TLC

CONSTANTS w, c, cc, u, k, a, s1, s2, d, p, c1, b1, q1, t2, b2, s, v, u2, ln

\* workflows/svcomp.py: TimeoutWatchdog(CompileAndCheck >> StartVerificationKlee)
\* and, when KLEE is not conclusive, CooperativeSeBself with its two processes.
SvcompKind ==
  (w :> "aggregate") @@ (c :> "continuation") @@ (cc :> "aggregate") @@
  (u :> "process") @@ (k :> "process") @@ (a :> "aggregate") @@
  (s1 :> "process") @@ (s2 :> "process")
SvcompPolicy ==
  [t \in Task |-> CASE t = w -> "eager" [] t = cc -> "compiler" [] OTHER -> "lenient"]
SvcompInitial ==
  [t \in Task |-> CASE t = w -> <<c>> [] t = c -> <<cc>> [] t = cc -> <<u>>
                    [] t = a -> <<s1, s2>> [] OTHER -> <<>>]
SvcompSuccessors ==
  [t \in Task |-> CASE t = c -> {k} [] t = k -> {a} [] OTHER -> {}]

\* workflows/flows/split.py: a ContinuationTask over ParallelCompose of two
\* checks, one of them in TimeoutWatchdog (CBMCVerifier), the other a process
\* that may ask for a replacement; then the root is replaced by a task that
\* splits a file in place.
SplitKind ==
  (d :> "continuation") @@ (p :> "aggregate") @@ (c1 :> "continuation") @@
  (b1 :> "process") @@ (q1 :> "process") @@ (t2 :> "aggregate") @@
  (b2 :> "process") @@ (s :> "continuation") @@ (v :> "inline")
SplitPolicy == [t \in Task |-> IF t = t2 THEN "eager" ELSE "compose"]
SplitInitial ==
  [t \in Task |-> CASE t = d -> <<p>> [] t = p -> <<c1, t2>> [] t = c1 -> <<b1>>
                    [] t = t2 -> <<b2>> [] t = s -> <<v>> [] OTHER -> <<>>]
SplitSuccessors ==
  [t \in Task |-> CASE t = d -> {s} [] t = b1 -> {q1} [] OTHER -> {}]

\* bbk/compiler.py: CompilerTask over two files, whose outputs are linked by a
\* replacement, below the watchdog and a continuation.
CompileKind ==
  (w :> "aggregate") @@ (c :> "continuation") @@ (cc :> "aggregate") @@
  (u :> "process") @@ (u2 :> "process") @@ (ln :> "process")
CompilePolicy == [t \in Task |-> IF t = w THEN "eager" ELSE "compiler"]
CompileInitial ==
  [t \in Task |-> CASE t = w -> <<c>> [] t = c -> <<cc>> [] t = cc -> <<u, u2>>
                    [] OTHER -> <<>>]
CompileSuccessors == [t \in Task |-> IF t = cc THEN {ln} ELSE {}]
=============================================================================
