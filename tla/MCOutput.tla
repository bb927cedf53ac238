------------------------------ MODULE MCOutput ------------------------------
(* The reading of a tool's output for the model checker.                     *)
EXTENDS Output, TLC
=============================================================================
