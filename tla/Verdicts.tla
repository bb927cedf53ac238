------------------------------ MODULE Verdicts ------------------------------
(***************************************************************************)
(* From the lines of a tool to the verdict that Bubaak prints: the parsers *)
(* of KLEE and SlowBeast (bbk/tools/klee.py, bbk/tools/slowbeast.py), when *)
(* a result is conclusive (workflows/svcomp.py), and what process_result   *)
(* of bubaak and svcomp/helpers.py make of the final result.               *)
(***************************************************************************)
EXTENDS Naturals, Sequences, SequencesExt

MemorySafety == {"valid-deref", "valid-free", "no-memleak"}
Keys == MemorySafety \cup {"unreach", "memcleanup", "no-signed-overflow", "termination"}

\* A verdict about one property, or about no particular one.
AVerdict(kind, prp) == [kind |-> kind, prp |-> prp]
Verdicts == [kind : {"CORRECT", "INCORRECT", "UNKNOWN", "ERROR"}, prp : Keys \cup {"none"}]

\* What a parser remembers: the properties found violated, why paths were
\* killed, and whether the tool said that it found no error.
Parsers == [errors : Seq(Keys), killed : SUBSET {"path", "float"}, clean : BOOLEAN]
NewParser == [errors |-> <<>>, killed |-> {}, clean |-> FALSE]

-----------------------------------------------------------------------------
(* KLEE; asked is the set of properties to check *)

AddErrorOrKilled(parser, p, asked) ==
  IF p \in asked THEN [parser EXCEPT !.errors = Append(@, p)]
  ELSE [parser EXCEPT !.killed = @ \cup {"path"}]

\* A failed assertion just ends a path when nothing else than termination or
\* memory cleanup is checked; memory that is not cleaned up is not an error
\* among the memory errors looked for in a check of memory safety.
KleeError(parser, p, asked) ==
  CASE p = "unreach" /\ asked \in {{"termination"}, {"memcleanup"}} -> parser
    [] p = "memcleanup" /\ asked \cap MemorySafety # {} ->
         [parser EXCEPT !.killed = @ \cup {"path"}]
    [] OTHER -> AddErrorOrKilled(parser, p, asked)

\* A mutation: killed paths are forgotten when KLEE ends without an error.
KleeResultKilledIgnored(parser, retval, asked) ==
  CASE parser.errors # <<>> -> [i \in DOMAIN parser.errors |-> AVerdict("INCORRECT", parser.errors[i])]
    [] parser.errors = <<>> /\ retval = 0 -> SetToSeq({AVerdict("CORRECT", p) : p \in asked})
    [] OTHER -> <<AVerdict("ERROR", "none")>>

KleeResult(parser, retval, asked) ==
  CASE parser.errors # <<>> -> [i \in DOMAIN parser.errors |-> AVerdict("INCORRECT", parser.errors[i])]
    [] parser.errors = <<>> /\ parser.killed # {} -> <<AVerdict("UNKNOWN", "none")>>
    [] parser.errors = <<>> /\ parser.killed = {} /\ retval = 0 ->
         SetToSeq({AVerdict("CORRECT", p) : p \in asked})
    [] OTHER -> <<AVerdict("ERROR", "none")>>

-----------------------------------------------------------------------------
(* SlowBeast *)

\* The violations that its parser has a pattern for; SlowBeast looks for failing
\* assertions always and for the others only when it is asked to.
SlowBeastLooksFor(asked) == {"unreach"} \cup (asked \cap {"termination", "no-signed-overflow"})

\* A violation of a property that is not asked for raises.
SlowBeastRaises(p, asked) == p \notin asked

\* To have ended well is not enough: SlowBeast must have said that it found no
\* error.
SlowBeastResult(parser, retval, asked) ==
  CASE parser.errors # <<>> -> [i \in DOMAIN parser.errors |-> AVerdict("INCORRECT", parser.errors[i])]
    [] parser.errors = <<>> /\ retval # 0 -> <<AVerdict("ERROR", "none")>>
    [] parser.errors = <<>> /\ retval = 0 /\ parser.killed # {} -> <<AVerdict("UNKNOWN", "none")>>
    [] parser.errors = <<>> /\ retval = 0 /\ parser.killed = {} /\ ~parser.clean ->
         <<AVerdict("ERROR", "none")>>
    [] OTHER -> SetToSeq({AVerdict("CORRECT", p) : p \in asked})

-----------------------------------------------------------------------------
(* Results *)

Kinds(result) == {v.kind : v \in ToSet(result)}

\* task_result_is_conclusive, of a result that is DONE.
Conclusive(result) == "INCORRECT" \in Kinds(result) \/ Kinds(result) = {"CORRECT"}

\* process_result raises: of several verdicts that are violations of different
\* properties it asks is_memsafety, which an SV-COMP property does not have.
PrintRaises(result) ==
  Kinds(result) = {"INCORRECT"} /\ \E v, u \in ToSet(result) : v.prp # u.prp

Answers == {"none", "true", "unknown", "error"} \cup Keys

\* A mutation: a verdict that says nothing is printed as it is.
PrintedRaw(result) ==
  CASE PrintRaises(result) -> "none"
    [] Kinds(result) = {"CORRECT"} -> "true"
    [] Kinds(result) = {"INCORRECT"} /\ ~PrintRaises(result) -> result[1].prp
    [] OTHER -> result[1].kind

\* The line "SV-COMP verdict: ...": "true", the property of "false(...)", or
\* an answer without a claim; "none" when the line is missing.
Printed(result) ==
  CASE PrintRaises(result) -> "none"
    [] Kinds(result) = {"CORRECT"} -> "true"
    [] Kinds(result) = {"INCORRECT"} /\ ~PrintRaises(result) -> result[1].prp
    [] Kinds(result) = {"ERROR"} /\ Len(result) = 1 -> "error"
    [] OTHER -> "unknown"

=============================================================================
