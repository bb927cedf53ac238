---------------------------- MODULE MCScheduler -----------------------------
(* Properties that are asked for together, as in the categories of SV-COMP.  *)
EXTENDS Scheduler, TLC

Categories == {{"unreach"}, {"no-signed-overflow"}, {"valid-deref", "valid-free", "no-memleak"},
               {"memcleanup"}, {"termination"}}
=============================================================================
