---------------------------- MODULE MCSplitFlow ----------------------------
(* Three programs at most to merge, on two levels, and backup verifiers side *)
(* by side, one after the other, and both.                                   *)
EXTENDS SplitFlow, TLC

CONSTANTS main, le, ri, ll, lr, a, b

FlowLeft == (main :> le) @@ (le :> ll)
FlowRight == (main :> ri) @@ (le :> lr)
FlowPaths == (main :> 1..3) @@ (le :> 1..2) @@ (ri :> {3}) @@ (ll :> {1}) @@ (lr :> {2})
FlowBackups == {<<{a, b}>>, <<{a}, {b}>>, <<{a, b}, {b}>>}

ASSUME BranchAssumption == OwnExecutions
=============================================================================
