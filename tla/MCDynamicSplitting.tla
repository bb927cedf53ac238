------------------------ MODULE MCDynamicSplitting ------------------------
(* A tree of splits for the model checker: three programs of four can be     *)
(* split a third time.                                                       *)
EXTENDS DynamicSplitting, TLC

CONSTANTS main, le, ri, ll, lr, rl, rr, l1, l2, l3, l4, r1, r2

\* parallelization_limit when it is not given.
DefaultParallel == -1

TreeLeft ==
  (main :> le) @@ (le :> ll) @@ (ri :> rl) @@ (ll :> l1) @@ (lr :> l3) @@ (rl :> r1)
TreeRight ==
  (main :> ri) @@ (le :> lr) @@ (ri :> rr) @@ (ll :> l2) @@ (lr :> l4) @@ (rl :> r2)
TreePaths ==
  (main :> 1..7) @@ (le :> 1..4) @@ (ri :> 5..7) @@ (ll :> 1..2) @@ (lr :> 3..4) @@
  (rl :> 5..6) @@ (rr :> {7}) @@ (l1 :> {1}) @@ (l2 :> {2}) @@ (l3 :> {3}) @@
  (l4 :> {4}) @@ (r1 :> {5}) @@ (r2 :> {6})

ASSUME BranchAssumption == HalvesShareNothing
=============================================================================
