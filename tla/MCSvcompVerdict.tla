-------------------------- MODULE MCSvcompVerdict ---------------------------
(* The categories of SV-COMP for the model checker: the properties that are  *)
(* asked for together.                                                       *)
EXTENDS Svcomp, TLC

Categories == {{"unreach"}, {"no-signed-overflow"}, {"valid-deref", "valid-free", "no-memleak"},
               {"memcleanup"}, {"termination"}}
=============================================================================
