-------------------------- MODULE MCWorkStealing --------------------------
(* Two verifiers of one name and a third one, whose task is not replaced.    *)
EXTENDS WorkStealing

TwoOfAName == <<"sb", "sb", "cbmc">>
===========================================================================
