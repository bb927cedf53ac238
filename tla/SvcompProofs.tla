---------------------------- MODULE SvcompProofs ----------------------------
(***************************************************************************)
(* What holds of the verdict of the two workflows for SV-COMP, for every   *)
(* selection of properties and any number of reported errors: that it is   *)
(* right, or confirmed, as long as the tools are right, that a violation a *)
(* tool has reported is never forgotten, and why a run may end without a   *)
(* verdict.                                                                *)
(***************************************************************************)
EXTENDS Svcomp, Scheduler, FiniteSetTheorems, SequenceTheorems, TLAPS

Real == violated \cap asked

\* What the parsers remember is violated and was asked for.
ErrorsAreReal == \A t \in Tool : ToSet(parser[t].errors) \subseteq Real

\* The tools that run in a stage.
StageRuns ==
  /\ stage \in {"compile", "recompile", "over"} => running = {}
  /\ stage = "klee" => running = {"klee"}
  /\ stage = "sb" => running = {"sb"}

\* Nothing is printed, and no error is forgotten, before the end.
Undecided ==
  stage # "over" => /\ printed = "none"
                    /\ \A t \in Tool \ running : parser[t].errors = <<>>

Inductive ==
  TypeOK /\ ErrorsAreReal /\ StageRuns /\ Undecided /\ VerdictIsRight /\ SeenBugIsNotLost

\* Violations among verdicts are real; right verdicts are also right when they say
\* that there is none.
BugsAreReal(vs) ==
  /\ vs \in Seq(Verdicts)
  /\ \A i \in DOMAIN vs : vs[i].kind = "INCORRECT" => vs[i].prp \in Real

Right(vs) == BugsAreReal(vs) /\ ("CORRECT" \in Kinds(vs) => Real = {})

\* The result of a tool whose parser remembers q.
ResultOf(sb, q, retval) ==
  IF sb THEN SlowBeastResult(q, retval, asked) ELSE KleeResult(q, retval, asked)

-----------------------------------------------------------------------------
(* Lemmas about verdicts *)

\* The kinds in a sequence of verdicts.
LEMMA KindsOf ==
  ASSUME NEW vs
  PROVE  Kinds(vs) = {vs[i].kind : i \in DOMAIN vs}
BY DEF Kinds, ToSet

\* An answer that claims something claims what the verdicts say.
LEMMA PrintedRight ==
  ASSUME NEW vs, BugsAreReal(vs), Real \subseteq Keys
  PROVE  /\ Printed(vs) \in Answers
         /\ Printed(vs) = "true" => Kinds(vs) = {"CORRECT"}
         /\ Printed(vs) \in Keys => Printed(vs) \in Real /\ Kinds(vs) = {"INCORRECT"}
         /\ Kinds(vs) = {"INCORRECT"} => Printed(vs) \notin {"true", "unknown", "error"}
<1>1. {"none", "true", "unknown", "error"} \cap Keys = {}
  BY DEF Keys, MemorySafety
<1>2. Kinds(vs) = {"CORRECT"} => Printed(vs) = "true"
  BY DEF Printed, PrintRaises
<1>3. ASSUME Kinds(vs) = {"INCORRECT"}
      PROVE  Printed(vs) = "none" \/ Printed(vs) \in Real
  <2>1. vs \in Seq(Verdicts) /\ DOMAIN vs = 1 .. Len(vs) /\ Len(vs) \in Nat
    BY DEF BugsAreReal
  <2>2. Len(vs) # 0
    BY <1>3, <2>1, KindsOf
  <2>3. 1 \in DOMAIN vs
    BY <2>1, <2>2
  <2>4. vs[1].kind = "INCORRECT"
    BY <1>3, <2>3, KindsOf
  <2>5. vs[1].prp \in Real
    BY <2>3, <2>4 DEF BugsAreReal
  <2> QED
    BY <1>3, <2>5 DEF Printed
<1>4. Kinds(vs) \notin {{"CORRECT"}, {"INCORRECT"}} => Printed(vs) \in {"error", "unknown"}
  BY DEF Printed, PrintRaises
<1> QED
  BY <1>1, <1>2, <1>3, <1>4 DEF Answers

\* A finite set can be put into a sequence.
LEMMA SetToSeqType ==
  ASSUME NEW S, IsFiniteSet(S)
  PROVE  SetToSeq(S) \in Seq(S)
<1>1. Cardinality(S) \in Nat /\ ExistsBijection(1 .. Cardinality(S), S)
  BY FS_CardinalityType
<1>2. PICK f \in [1 .. Cardinality(S) -> S] : IsInjective(f)
  BY <1>1 DEF ExistsBijection, Bijection, Injection
<1>3. SetToSeq(S) \in [1 .. Cardinality(S) -> S]
  BY <1>2 DEF SetToSeq
<1> QED
  BY <1>1, <1>3

\* There are finitely many properties.
LEMMA KeysFinite == IsFiniteSet(Keys)
<1> DEFINE A == {"valid-deref", "valid-free"}
           B == {"no-memleak", "unreach"}
           C == {"memcleanup", "no-signed-overflow"}
<1>1. IsFiniteSet(A) /\ IsFiniteSet(B) /\ IsFiniteSet(C)
  <2>1. A = {"valid-deref"} \cup {"valid-free"} /\ B = {"no-memleak"} \cup {"unreach"}
        /\ C = {"memcleanup"} \cup {"no-signed-overflow"}
    OBVIOUS
  <2> HIDE DEF A, B, C
  <2> QED
    BY <2>1, FS_Singleton, FS_AddElement
<1>2. IsFiniteSet((A \cup B) \cup C)
  <2> HIDE DEF A, B, C
  <2>1. IsFiniteSet(A \cup B)
    BY <1>1, FS_Union
  <2> QED
    BY <1>1, <2>1, FS_Union
<1>3. IsFiniteSet(((A \cup B) \cup C) \cup {"termination"})
  <2> HIDE DEF A, B, C
  <2> QED
    BY <1>2, FS_AddElement
<1>4. Keys = ((A \cup B) \cup C) \cup {"termination"}
  BY DEF Keys, MemorySafety
<1> QED
  BY <1>3, <1>4

\* A verdict CORRECT for everything that was asked.
LEMMA AllCorrect ==
  ASSUME NEW vs, asked \in SUBSET Keys,
         vs = SetToSeq({AVerdict("CORRECT", p) : p \in asked})
  PROVE  vs \in Seq(Verdicts) /\ \A i \in DOMAIN vs : vs[i].kind = "CORRECT"
<1> DEFINE S == {AVerdict("CORRECT", p) : p \in asked}
           f == [p \in asked |-> AVerdict("CORRECT", p)]
<1>1. IsFiniteSet(asked)
  BY KeysFinite, FS_Subset
<1>2. f \in Surjection(asked, S)
  BY DEF Surjection
<1>3. IsFiniteSet(S)
  <2> HIDE DEF f, S
  <2> QED
    BY <1>1, <1>2, FS_Surjection
<1>4. vs \in Seq(S)
  BY <1>3, SetToSeqType
<1>5. S \subseteq Verdicts /\ \A v \in S : v.kind = "CORRECT"
  BY DEF Verdicts, AVerdict
<1>6. DOMAIN vs = 1 .. Len(vs) /\ \A i \in DOMAIN vs : vs[i] \in S
  <2> HIDE DEF S
  <2>1. vs \in Seq(S)
    BY <1>4
  <2>2. DOMAIN vs = 1 .. Len(vs)
    BY <2>1, LenProperties
  <2>3. \A i \in 1 .. Len(vs) : vs[i] \in S
    BY <2>1, ElementOfSeq
  <2> QED
    BY <2>2, <2>3
<1>7. vs \in Seq(Verdicts)
  <2> HIDE DEF S
  <2> QED
    BY <1>4, <1>5, <1>6
<1> QED
  BY <1>5, <1>6, <1>7

\* One verdict that claims nothing.
LEMMA NoClaim ==
  ASSUME NEW vs, vs = <<AVerdict("UNKNOWN", "none")>> \/ vs = <<AVerdict("ERROR", "none")>>
  PROVE  Right(vs) /\ Kinds(vs) \cap {"CORRECT", "INCORRECT"} = {} /\ Printed(vs) # "none"
<1>1. PICK v \in {AVerdict("UNKNOWN", "none"), AVerdict("ERROR", "none")} : vs = <<v>>
  OBVIOUS
<1>2. v \in Verdicts /\ v.kind \in {"UNKNOWN", "ERROR"}
  BY DEF AVerdict, Verdicts
<1>3. vs \in Seq(Verdicts)
  BY <1>1, <1>2
<1>4. DOMAIN vs = {1} /\ vs[1] = v
  BY <1>1
<1>5. Kinds(vs) = {v.kind}
  BY <1>4, KindsOf
<1>6. Right(vs)
  BY <1>2, <1>3, <1>4, <1>5 DEF Right, BugsAreReal
<1>7. Printed(vs) \in {"unknown", "error"}
  BY <1>2, <1>5 DEF Printed, PrintRaises
<1> QED
  BY <1>2, <1>5, <1>6, <1>7

\* The errors of a parser, as verdicts.
LEMMA ErrorVerdicts ==
  ASSUME NEW errors \in Seq(Keys), ToSet(errors) \subseteq Real, NEW vs,
         vs = [i \in DOMAIN errors |-> AVerdict("INCORRECT", errors[i])]
  PROVE  /\ BugsAreReal(vs)
         /\ errors # <<>> => Kinds(vs) = {"INCORRECT"}
<1>1. DOMAIN errors = 1 .. Len(errors) /\ Len(errors) \in Nat
  OBVIOUS
<1>2. \A i \in DOMAIN errors : errors[i] \in Keys /\ errors[i] \in Real
  BY DEF ToSet
<1>3. \A i \in DOMAIN errors : vs[i] \in Verdicts /\ vs[i].kind = "INCORRECT"
                                /\ vs[i].prp = errors[i]
  BY <1>2 DEF AVerdict, Verdicts
<1>4. DOMAIN vs = 1 .. Len(errors)
  BY <1>1
<1>5. vs \in Seq(Verdicts)
  BY <1>1, <1>3, <1>4
<1>6. BugsAreReal(vs)
  BY <1>2, <1>3, <1>4, <1>5 DEF BugsAreReal
<1>7. errors # <<>> => 1 \in DOMAIN vs
  BY <1>1, <1>4
<1> QED
  BY <1>1, <1>3, <1>4, <1>6, <1>7, KindsOf

\* Two properties are more than one.
LEMMA MoreThanOne ==
  ASSUME NEW S, IsFiniteSet(S), NEW x \in S, NEW y \in S, x # y
  PROVE  Cardinality(S) > 1
<1>1. IsFiniteSet({x}) /\ Cardinality({x}) = 1
  BY FS_Singleton
<1>2. IsFiniteSet({x} \cup {y}) /\ Cardinality({x} \cup {y}) = 2
  <2>1. y \notin {x}
    OBVIOUS
  <2>2. /\ IsFiniteSet({x} \cup {y})
        /\ Cardinality({x} \cup {y}) = IF y \in {x} THEN Cardinality({x}) ELSE Cardinality({x}) + 1
    BY <1>1, FS_AddElement, Zenon
  <2> QED
    BY <1>1, <2>1, <2>2
<1>3. {x} \cup {y} \subseteq S
  OBVIOUS
<1>4. Cardinality({x} \cup {y}) <= Cardinality(S) /\ Cardinality(S) \in Nat
  BY <1>2, <1>3, FS_Subset, FS_CardinalityType
<1> QED
  BY <1>2, <1>4

\* The line is missing only when the violations differ.
LEMMA SilentOnTwo ==
  ASSUME NEW errors \in Seq(Keys), errors # <<>>, NEW vs,
         vs = [i \in DOMAIN errors |-> AVerdict("INCORRECT", errors[i])],
         Printed(vs) = "none"
  PROVE  Cardinality(ToSet(errors)) > 1
<1>1. DOMAIN errors = 1 .. Len(errors) /\ Len(errors) \in Nat /\ Len(errors) # 0
  BY EmptySeq
<1>2. ToSet(errors) \in SUBSET Keys
  BY <1>1 DEF ToSet
<1>3. DOMAIN vs = DOMAIN errors /\ 1 \in DOMAIN vs
  BY <1>1
<1>4. \A i \in DOMAIN vs : vs[i].kind = "INCORRECT" /\ vs[i].prp = errors[i]
  BY DEF AVerdict
<1>5. Kinds(vs) = {"INCORRECT"}
  BY <1>3, <1>4, KindsOf
<1>6. vs[1].prp # "none"
  <2>1. "none" \notin Keys
    BY DEF Keys, MemorySafety
  <2> QED
    BY <1>3, <1>4, <2>1
<1>7. PrintRaises(vs)
  BY <1>5, <1>6 DEF Printed
<1>8. PICK v, u \in ToSet(vs) : v.prp # u.prp
  BY <1>7 DEF PrintRaises
<1>9. \A w \in ToSet(vs) : w.prp \in ToSet(errors)
  BY <1>3, <1>4 DEF ToSet
<1>10. IsFiniteSet(ToSet(errors))
  BY <1>2, KeysFinite, FS_Subset
<1> QED
  BY <1>8, <1>9, <1>10, MoreThanOne

\* What the result of a tool says, and when a line about it is missing.
LEMMA ResultRight ==
  ASSUME asked \in SUBSET Keys, NEW sb \in BOOLEAN, NEW retval \in {0, 1},
         NEW q \in Parsers, ToSet(q.errors) \subseteq Real
  PROVE  LET vs == ResultOf(sb, q, retval)
         IN  /\ BugsAreReal(vs)
             /\ q.errors # <<>> => Kinds(vs) = {"INCORRECT"}
             /\ q.errors = <<>> => "INCORRECT" \notin Kinds(vs) /\ Printed(vs) # "none"
             /\ "CORRECT" \in Kinds(vs) =>
                  retval = 0 /\ q.errors = <<>> /\ q.killed = {} /\ (sb => q.clean)
             /\ Printed(vs) = "none" => Cardinality(ToSet(q.errors)) > 1
<1> DEFINE vs == ResultOf(sb, q, retval)
           errors == q.errors
<1>1. errors \in Seq(Keys) /\ ToSet(errors) \subseteq Real
  BY DEF Parsers
<1>2. CASE errors # <<>>
  <2>1. vs = [i \in DOMAIN errors |-> AVerdict("INCORRECT", errors[i])]
    BY <1>2 DEF ResultOf, KleeResult, SlowBeastResult
  <2> HIDE DEF vs, errors
  <2>2. BugsAreReal(vs) /\ Kinds(vs) = {"INCORRECT"}
    BY <1>1, <1>2, <2>1, ErrorVerdicts
  <2>3. Printed(vs) = "none" => Cardinality(ToSet(errors)) > 1
    BY <1>1, <1>2, <2>1, SilentOnTwo
  <2> QED
    BY <1>2, <2>2, <2>3 DEF vs, errors
<1>3. CASE errors = <<>> /\ retval = 0 /\ q.killed = {} /\ (sb => q.clean)
  <2>1. vs = SetToSeq({AVerdict("CORRECT", p) : p \in asked})
    BY <1>3 DEF ResultOf, KleeResult, SlowBeastResult
  <2> HIDE DEF vs
  <2>2. vs \in Seq(Verdicts) /\ \A i \in DOMAIN vs : vs[i].kind = "CORRECT"
    BY <2>1, AllCorrect
  <2>3. BugsAreReal(vs) /\ "INCORRECT" \notin Kinds(vs)
    BY <2>2, KindsOf DEF BugsAreReal
  <2>4. Printed(vs) # "none"
    BY <2>3 DEF Printed, PrintRaises
  <2> QED
    BY <1>3, <2>3, <2>4 DEF vs
<1>4. CASE errors = <<>> /\ ~(retval = 0 /\ q.killed = {} /\ (sb => q.clean))
  <2>1. vs = <<AVerdict("UNKNOWN", "none")>> \/ vs = <<AVerdict("ERROR", "none")>>
    BY <1>4 DEF ResultOf, KleeResult, SlowBeastResult
  <2> HIDE DEF vs
  <2>2. Right(vs) /\ Kinds(vs) \cap {"CORRECT", "INCORRECT"} = {} /\ Printed(vs) # "none"
    BY <2>1, NoClaim
  <2> QED
    BY <1>4, <2>2 DEF vs, Right
<1> QED
  BY <1>2, <1>3, <1>4

\* Clang's warning.
LEMMA WarningRight ==
  ASSUME MayWarn
  PROVE  Right(Warning) /\ Kinds(Warning) = {"INCORRECT"}
<1> DEFINE v == AVerdict("INCORRECT", "no-signed-overflow")
<1>1. v \in Verdicts /\ v.kind = "INCORRECT" /\ v.prp = "no-signed-overflow"
  BY DEF Verdicts, AVerdict, Keys
<1>2. Warning = <<v>>
  BY DEF Warning
<1> HIDE DEF v
<1>3. Warning \in Seq(Verdicts) /\ DOMAIN Warning = {1} /\ Warning[1] = v
  BY <1>1, <1>2
<1> QED
  BY <1>1, <1>3, KindsOf DEF Right, BugsAreReal, Real, MayWarn

-----------------------------------------------------------------------------
(* Lemmas about tools *)

\* Without a real violation there are no errors.
LEMMA NoErrors ==
  ASSUME TypeOK, ErrorsAreReal, Real = {}, NEW t \in Tool
  PROVE  parser[t].errors = <<>>
<1>1. parser[t].errors \in Seq(Keys)
  BY DEF TypeOK, Parsers
<1>2. ToSet(parser[t].errors) = {}
  BY DEF ErrorsAreReal
<1>3. DOMAIN parser[t].errors = 1 .. Len(parser[t].errors) /\ Len(parser[t].errors) \in Nat
  BY <1>1
<1>4. DOMAIN parser[t].errors = {}
  BY <1>2 DEF ToSet
<1> DEFINE n == Len(parser[t].errors)
<1>5. n = 0
  <2>1. n \in Nat /\ 1 .. n = {}
    BY <1>3, <1>4
  <2> HIDE DEF n
  <2>2. n >= 1 => 1 \in 1 .. n
    BY <2>1
  <2> QED
    BY <2>1, <2>2
<1> QED
  BY <1>1, <1>5

\* The result of a tool that may end is right, and reports its errors only.
LEMMA ToolResultRight ==
  ASSUME TypeOK, ErrorsAreReal, NEW t \in Tool, NEW retval \in {0, 1}, MayEnd(t, retval)
  PROVE  LET vs == ToolResult(t, retval)
         IN  /\ Right(vs)
             /\ parser[t].errors # <<>> \/ "INCORRECT" \in Kinds(vs) => Kinds(vs) = {"INCORRECT"}
             /\ Printed(vs) = "none" => Cardinality(ToSet(parser[t].errors)) > 1
<1> DEFINE vs == ToolResult(t, retval)
<1>1. /\ asked \in SUBSET Keys
      /\ parser[t] \in Parsers /\ ToSet(parser[t].errors) \subseteq Real
  BY TasksAssumption DEF TypeOK, RunTyped, ErrorsAreReal
<1>2. (t # "klee") \in BOOLEAN /\ vs = ResultOf(t # "klee", parser[t], retval)
  BY DEF ToolResult, ResultOf
<1> HIDE DEF vs
<1>3. /\ BugsAreReal(vs)
      /\ parser[t].errors # <<>> => Kinds(vs) = {"INCORRECT"}
      /\ parser[t].errors = <<>> => "INCORRECT" \notin Kinds(vs)
      /\ "CORRECT" \in Kinds(vs) =>
           retval = 0 /\ parser[t].errors = <<>> /\ parser[t].killed = {}
             /\ (t # "klee" => parser[t].clean)
      /\ Printed(vs) = "none" => Cardinality(ToSet(parser[t].errors)) > 1
  BY <1>1, <1>2, ResultRight
<1>4. "CORRECT" \in Kinds(vs) => Real = {}
  BY <1>3 DEF MayEnd, Real
<1> QED
  BY <1>3, <1>4 DEF Right, vs

\* The end with right verdicts, when no error is forgotten.
LEMMA OverInductive ==
  ASSUME Inductive, UNCHANGED <<asked, violated, parser, stopped>>,
         NEW vs, Right(vs), Over(vs),
         Kinds(vs) = {"INCORRECT"} \/ Real = {} \/ \A t \in Tool : parser[t].errors = <<>>
  PROVE  Inductive'
<1> USE DEF Inductive
<1>1. Real \subseteq Keys /\ Real' = Real
  BY DEF TypeOK, RunTyped, Real
<1>2. /\ Printed(vs) \in Answers
      /\ Printed(vs) = "true" => Real = {}
      /\ Printed(vs) \in Keys => Printed(vs) \in Real
      /\ Kinds(vs) = {"INCORRECT"} => Printed(vs) \notin {"true", "unknown", "error"}
  BY <1>1, PrintedRight DEF Right
<1>3. ToSet(vs) \subseteq Verdicts
  <2>1. vs \in Seq(Verdicts)
    BY DEF Right, BugsAreReal
  <2> QED
    BY <2>1 DEF ToSet
<1>4. stage' = "over" /\ running' = {} /\ result' = vs /\ printed' = Printed(vs)
  BY DEF Over, Start
<1>5. TypeOK'
  BY <1>2, <1>3, <1>4 DEF TypeOK, RunTyped
<1>6. ErrorsAreReal' /\ StageRuns' /\ Undecided'
  BY <1>1, <1>4 DEF ErrorsAreReal, StageRuns, Undecided
<1>7. VerdictIsRight'
  BY <1>2, <1>4 DEF VerdictIsRight, Real
<1>8. SeenBugIsNotLost'
  <2>1. Real = {} => \A t \in Tool : parser[t].errors = <<>>
    BY NoErrors
  <2> QED
    BY <1>2, <1>4, <2>1 DEF SeenBugIsNotLost
<1> QED
  BY <1>5, <1>6, <1>7, <1>8

\* The end without a verdict.
LEMMA NoVerdictInductive ==
  ASSUME Inductive, UNCHANGED <<asked, violated, parser, stopped>>, NoVerdict, stage # "over"
  PROVE  Inductive'
BY DEF Inductive, NoVerdict, Start, TypeOK, RunTyped, ErrorsAreReal, Real, StageRuns, Undecided,
       VerdictIsRight, SeenBugIsNotLost, Keys, MemorySafety

-----------------------------------------------------------------------------
(* The steps *)

LEMMA InitInductive == Init => Inductive
<1> SUFFICES ASSUME Init PROVE Inductive
  OBVIOUS
<1> USE DEF Init, RunStarts
<1>1. NewParser \in Parsers /\ NewParser.errors = <<>>
  BY EmptySeq DEF NewParser, Parsers
<1>2. ToSet(<<>>) = {}
  BY EmptySeq DEF ToSet
<1>3. TypeOK
  BY <1>1, <1>2 DEF TypeOK, RunTyped, Answers
<1>4. ErrorsAreReal /\ StageRuns /\ Undecided
  BY <1>1, <1>2 DEF ErrorsAreReal, StageRuns, Undecided
<1>5. VerdictIsRight /\ SeenBugIsNotLost
  BY DEF VerdictIsRight, SeenBugIsNotLost, Keys, MemorySafety
<1> QED
  BY <1>3, <1>4, <1>5 DEF Inductive

LEMMA CompiledInductive ==
  Inductive /\ (Compiled \/ Recompiled) => Inductive'
BY DEF Inductive, Compiled, Recompiled, Start, TypeOK, RunTyped, Tool, ErrorsAreReal, Real,
       StageRuns, Undecided, VerdictIsRight, SeenBugIsNotLost, Keys, MemorySafety

LEMMA WarningInductive == Inductive /\ CompiledWithWarning => Inductive'
<1> SUFFICES ASSUME Inductive, CompiledWithWarning PROVE Inductive'
  OBVIOUS
<1>1. Kinds(Warning) = {"INCORRECT"} /\ Right(Warning)
  BY WarningRight DEF CompiledWithWarning
<1> QED
  BY <1>1, OverInductive DEF CompiledWithWarning

LEMMA FailsInductive == Inductive /\ CompilationFails => Inductive'
<1> SUFFICES ASSUME Inductive, CompilationFails PROVE Inductive'
  OBVIOUS
<1> QED
  BY NoVerdictInductive DEF CompilationFails

\* A parser that remembers more, but no error that is not real.
LEMMA ParserInductive ==
  ASSUME Inductive, NEW t \in running, NEW q \in Parsers,
         ToSet(q.errors) \subseteq Real,
         parser' = [parser EXCEPT ![t] = q],
         UNCHANGED <<asked, violated, stage, running, stopped, result, printed>>
  PROVE  Inductive'
<1> USE DEF Inductive
<1>1. t \in Tool /\ stage # "over"
  BY DEF TypeOK, StageRuns
<1>2. TypeOK'
  BY <1>1 DEF TypeOK, RunTyped
<1>3. ErrorsAreReal'
  BY <1>1 DEF ErrorsAreReal, Real, TypeOK
<1>4. StageRuns' /\ Undecided'
  BY <1>1 DEF StageRuns, Undecided, TypeOK
<1>5. VerdictIsRight' /\ SeenBugIsNotLost'
  BY <1>1 DEF VerdictIsRight, SeenBugIsNotLost, Undecided
<1> QED
  BY <1>2, <1>3, <1>4, <1>5

\* One more error that is violated and asked for.
LEMMA OneMoreError ==
  ASSUME NEW q \in Parsers, ToSet(q.errors) \subseteq Real, NEW p \in Real \cap Keys
  PROVE  LET r == [q EXCEPT !.errors = Append(@, p)]
         IN  r \in Parsers /\ ToSet(r.errors) \subseteq Real
<1> DEFINE es == Append(q.errors, p)
<1>1. q.errors \in Seq(Keys)
  BY DEF Parsers
<1>2. /\ es \in Seq(Keys) /\ Len(es) = Len(q.errors) + 1
      /\ \A i \in 1 .. Len(q.errors) : es[i] = q.errors[i]
      /\ es[Len(q.errors) + 1] = p
  BY <1>1, AppendProperties
<1>3. DOMAIN es = 1 .. (Len(q.errors) + 1) /\ DOMAIN q.errors = 1 .. Len(q.errors)
      /\ Len(q.errors) \in Nat
  BY <1>1, <1>2, LenProperties
<1>4. ToSet(es) \subseteq Real
  <2> HIDE DEF es
  <2>1. ASSUME NEW i \in DOMAIN es PROVE es[i] \in Real
    <3>1. CASE i = Len(q.errors) + 1
      BY <1>2, <3>1
    <3>2. CASE i \in 1 .. Len(q.errors)
      BY <1>2, <1>3, <3>2 DEF ToSet
    <3> QED
      BY <1>3, <3>1, <3>2
  <2> QED
    BY <2>1 DEF ToSet
<1>5. [q EXCEPT !.errors = es] \in Parsers /\ [q EXCEPT !.errors = es].errors = es
  <2> HIDE DEF es
  <2> QED
    BY <1>2 DEF Parsers
<1> QED
  BY <1>4, <1>5

\* What KLEE reports is remembered only if it was asked for.
LEMMA KleeErrorReal ==
  ASSUME NEW q \in Parsers, ToSet(q.errors) \subseteq Real, NEW p \in Keys \cap violated
  PROVE  KleeError(q, p, asked) \in Parsers /\ ToSet(KleeError(q, p, asked).errors) \subseteq Real
<1> DEFINE r == KleeError(q, p, asked)
<1>1. CASE r = q
  BY <1>1
<1>2. CASE r = [q EXCEPT !.killed = @ \cup {"path"}]
  <2> HIDE DEF r
  <2> QED
    BY <1>2 DEF Parsers, r
<1>3. CASE p \in asked /\ r = [q EXCEPT !.errors = Append(@, p)]
  <2>1. p \in Real \cap Keys
    BY <1>3 DEF Real
  <2> HIDE DEF r
  <2>2. r \in Parsers /\ ToSet(r.errors) \subseteq Real
    BY <1>3, <2>1, OneMoreError
  <2> QED
    BY <2>2 DEF r
<1> QED
  BY <1>1, <1>2, <1>3 DEF KleeError, AddErrorOrKilled

LEMMA KleeInductive == Inductive /\ KleeReports => Inductive'
<1> SUFFICES ASSUME Inductive, KleeReports PROVE Inductive'
  OBVIOUS
<1> DEFINE q(p) == KleeError(parser["klee"], p, asked)
<1>1. PICK p \in Keys : p \in violated /\ parser' = [parser EXCEPT !["klee"] = q(p)]
  BY DEF KleeReports, Reports
<1>2. parser["klee"] \in Parsers /\ ToSet(parser["klee"].errors) \subseteq Real
  BY DEF Inductive, TypeOK, ErrorsAreReal, Tool
<1>3. q(p) \in Parsers /\ ToSet(q(p).errors) \subseteq Real
  BY <1>1, <1>2, KleeErrorReal
<1> HIDE DEF q
<1> QED
  BY <1>1, <1>3, ParserInductive DEF KleeReports

LEMMA SlowBeastInductive == Inductive /\ SlowBeastReports => Inductive'
<1> SUFFICES ASSUME Inductive, SlowBeastReports PROVE Inductive'
  OBVIOUS
<1>1. PICK t \in running, p \in violated :
        IF SlowBeastRaises(p, asked)
        THEN NoVerdict /\ UNCHANGED parser
        ELSE /\ parser' = [parser EXCEPT ![t].errors = Append(@, p)]
             /\ UNCHANGED <<stage, running, result, printed>>
  BY DEF SlowBeastReports, Reports
<1>2. UNCHANGED <<asked, violated, stopped>>
  BY DEF SlowBeastReports
<1>3. t \in Tool /\ stage # "over"
  BY DEF Inductive, TypeOK, StageRuns
<1>4. CASE p \notin asked
  BY <1>1, <1>2, <1>3, <1>4, NoVerdictInductive DEF SlowBeastRaises
<1>5. CASE p \in asked
  <2> DEFINE q == [parser[t] EXCEPT !.errors = Append(@, p)]
  <2>1. p \in Real \cap Keys
    BY <1>5 DEF Inductive, TypeOK, RunTyped, Real
  <2>2. parser[t] \in Parsers /\ ToSet(parser[t].errors) \subseteq Real
    BY <1>3 DEF Inductive, TypeOK, ErrorsAreReal
  <2>3. q \in Parsers /\ ToSet(q.errors) \subseteq Real
    BY <2>1, <2>2, OneMoreError
  <2>4. parser' = [parser EXCEPT ![t] = q] /\ UNCHANGED <<stage, running, result, printed>>
    BY <1>1, <1>5 DEF SlowBeastRaises
  <2> HIDE DEF q
  <2> QED
    BY <1>2, <2>3, <2>4, ParserInductive
<1> QED
  BY <1>4, <1>5

LEMMA ReservationInductive == Inductive /\ (KillsPath \/ SaysClean) => Inductive'
<1> SUFFICES ASSUME Inductive, KillsPath \/ SaysClean PROVE Inductive'
  OBVIOUS
<1>1. PICK t \in running :
        \/ \E why \in {"path", "float"} :
             parser' = [parser EXCEPT ![t] = [parser[t] EXCEPT !.killed = @ \cup {why}]]
        \/ parser' = [parser EXCEPT ![t] = [parser[t] EXCEPT !.clean = TRUE]]
  BY DEF KillsPath, SaysClean
<1>2. PICK q : /\ parser' = [parser EXCEPT ![t] = q]
               /\ \/ \E why \in {"path", "float"} : q = [parser[t] EXCEPT !.killed = @ \cup {why}]
                  \/ q = [parser[t] EXCEPT !.clean = TRUE]
  BY <1>1
<1>3. parser[t] \in Parsers /\ ToSet(parser[t].errors) \subseteq Real
  BY DEF Inductive, TypeOK, ErrorsAreReal
<1>4. q \in Parsers /\ q.errors = parser[t].errors
  BY <1>2, <1>3 DEF Parsers
<1>5. UNCHANGED <<asked, violated, stage, running, stopped, result, printed>>
  BY DEF KillsPath, SaysClean
<1> QED
  BY <1>2, <1>3, <1>4, <1>5, ParserInductive

\* The next stage, or one tool less, when no error is forgotten.
LEMMA StageInductive ==
  ASSUME Inductive, UNCHANGED <<asked, violated, parser, stopped, result, printed>>,
         stage # "over",
         stage' \in {"recompile", "sb", "coop", "termination"}, running' \subseteq Tool,
         StageRuns',
         \A t \in Tool \ running' : parser[t].errors = <<>>
  PROVE  Inductive'
BY DEF Inductive, TypeOK, RunTyped, ErrorsAreReal, Real, Undecided, VerdictIsRight, SeenBugIsNotLost

LEMMA ToolEndsInductive == Inductive /\ ToolEnds => Inductive'
<1> SUFFICES ASSUME Inductive, ToolEnds PROVE Inductive'
  OBVIOUS
<1>1. PICK t \in running, retval \in {0, 1} :
        /\ MayEnd(t, retval)
        /\ CASE stage = "klee" -> AfterKlee(ToolResult(t, retval))
             [] stage = "sb" -> Over(ToolResult(t, retval))
             [] OTHER -> AfterOneOfTwo(t, ToolResult(t, retval))
  BY DEF ToolEnds
<1>2. UNCHANGED <<asked, violated, parser, stopped>>
  BY DEF ToolEnds
<1> DEFINE vs == ToolResult(t, retval)
<1>3. t \in Tool /\ stage \in {"klee", "sb", "coop", "termination"}
  BY DEF Inductive, TypeOK, StageRuns
<1>4. /\ Right(vs)
      /\ parser[t].errors # <<>> \/ "INCORRECT" \in Kinds(vs) => Kinds(vs) = {"INCORRECT"}
  BY <1>1, <1>3, ToolResultRight DEF Inductive
<1>5. /\ stage = "klee" => AfterKlee(vs)
      /\ stage = "sb" => Over(vs)
      /\ stage \in {"coop", "termination"} => AfterOneOfTwo(t, vs)
  BY <1>1, <1>3
<1> HIDE DEF vs
<1>6. Conclusive(vs) => Kinds(vs) = {"INCORRECT"} \/ Real = {}
  BY <1>4 DEF Conclusive, Right
<1>7. ~Conclusive(vs) => parser[t].errors = <<>>
  BY <1>4 DEF Conclusive
<1>8. \A u \in Tool \ running : parser[u].errors = <<>>
  BY <1>3 DEF Inductive, Undecided
<1>9. CASE Conclusive(vs)
  <2>1. Over(vs)
    BY <1>3, <1>5, <1>9 DEF AfterKlee, AfterOneOfTwo
  <2> QED
    BY <1>2, <1>4, <1>6, <1>9, <2>1, OverInductive
<1>10. CASE stage = "klee" /\ ~Conclusive(vs)
  <2>1. running = {"klee"} /\ t = "klee"
    BY <1>10 DEF Inductive, StageRuns
  <2>2. CASE stopped
    BY <1>2, <1>5, <1>10, <2>2, NoVerdictInductive DEF AfterKlee
  <2>3. CASE ~stopped
    <3>1. /\ \/ stage' = "sb" /\ running' = {"sb"}
             \/ stage' = "recompile" /\ running' = {}
             \/ stage' = "coop" /\ running' = {"se", "bself"}
          /\ UNCHANGED <<result, printed>>
      BY <1>5, <1>10, <2>3 DEF AfterKlee, Start
    <3>2. StageRuns'
      BY <3>1 DEF StageRuns
    <3>3. \A u \in Tool : parser[u].errors = <<>>
      BY <1>7, <1>8, <1>10, <2>1
    <3> QED
      BY <1>2, <1>10, <3>1, <3>2, <3>3, StageInductive DEF Tool
  <2> QED
    BY <2>2, <2>3
<1>11. CASE stage = "sb" /\ ~Conclusive(vs)
  <2>1. running = {"sb"} /\ t = "sb"
    BY <1>11 DEF Inductive, StageRuns
  <2>2. \A u \in Tool : parser[u].errors = <<>>
    BY <1>7, <1>8, <1>11, <2>1
  <2> QED
    BY <1>2, <1>4, <1>5, <1>11, <2>2, OverInductive
<1>12. CASE stage \in {"coop", "termination"} /\ ~Conclusive(vs)
  <2>1. AfterOneOfTwo(t, vs)
    BY <1>5, <1>12
  <2>2. CASE running # {t}
    <3>1. running' = running \ {t} /\ UNCHANGED <<stage, result, printed>>
      BY <1>12, <2>1, <2>2 DEF AfterOneOfTwo
    <3>2. StageRuns' /\ running' \subseteq Tool
      BY <1>12, <3>1 DEF StageRuns, Inductive, TypeOK
    <3>3. \A u \in Tool \ running' : parser[u].errors = <<>>
      BY <1>7, <1>8, <1>12, <3>1
    <3> QED
      BY <1>2, <1>12, <3>1, <3>2, <3>3, StageInductive
  <2>3. CASE running = {t} /\ stage = "termination"
    BY <1>2, <1>12, <2>1, <2>3, NoVerdictInductive DEF AfterOneOfTwo
  <2>4. CASE running = {t} /\ stage = "coop"
    <3>1. Over(<<AVerdict("UNKNOWN", "none")>>)
      BY <1>12, <2>1, <2>4 DEF AfterOneOfTwo
    <3>2. \A u \in Tool : parser[u].errors = <<>>
      BY <1>7, <1>8, <1>12, <2>4
    <3>3. Right(<<AVerdict("UNKNOWN", "none")>>)
      BY NoClaim
    <3> QED
      BY <1>2, <3>1, <3>2, <3>3, OverInductive
  <2> QED
    BY <1>12, <2>2, <2>3, <2>4
<1> QED
  BY <1>3, <1>9, <1>10, <1>11, <1>12

LEMMA TimeoutInductive == Inductive /\ (Timeout \/ UNCHANGED vars) => Inductive'
BY DEF Inductive, Timeout, vars, TypeOK, RunTyped, ErrorsAreReal, Real, StageRuns, Undecided,
       VerdictIsRight, SeenBugIsNotLost

LEMMA NextInductive == Inductive /\ [Next]_vars => Inductive'
<1> SUFFICES ASSUME Inductive, [Next]_vars PROVE Inductive'
  OBVIOUS
<1>1. CASE Compiled \/ Recompiled
  BY <1>1, CompiledInductive
<1>2. CASE CompiledWithWarning
  BY <1>2, WarningInductive
<1>3. CASE CompilationFails
  BY <1>3, FailsInductive
<1>4. CASE ToolEnds
  BY <1>4, ToolEndsInductive
<1>5. CASE KleeReports
  BY <1>5, KleeInductive
<1>6. CASE SlowBeastReports
  BY <1>6, SlowBeastInductive
<1>7. CASE KillsPath \/ SaysClean
  BY <1>7, ReservationInductive
<1>8. CASE Timeout \/ Stutter \/ UNCHANGED vars
  BY <1>8, TimeoutInductive DEF Stutter
<1> QED
  BY <1>1, <1>2, <1>3, <1>4, <1>5, <1>6, <1>7, <1>8 DEF Next, Progress

LEMMA AlwaysInductive == Spec => []Inductive
BY InitInductive, NextInductive, PTL DEF Spec

-----------------------------------------------------------------------------
(* Runs without a verdict *)

\* No tool has run before the compilation has ended, and only the check of
\* termination takes its workflow.
Reasons ==
  /\ stage = "compile" => \A t \in Tool : parser[t] = NewParser
  /\ stage = "termination" => asked = {"termination"}
  /\ NoVerdictReasons

LEMMA ToolEndsReasons == Inductive /\ Reasons /\ ToolEnds => Reasons'
<1> SUFFICES ASSUME Inductive, Reasons, ToolEnds PROVE Reasons'
  OBVIOUS
<1>1. PICK t \in running, retval \in {0, 1} :
        /\ MayEnd(t, retval)
        /\ CASE stage = "klee" -> AfterKlee(ToolResult(t, retval))
             [] stage = "sb" -> Over(ToolResult(t, retval))
             [] OTHER -> AfterOneOfTwo(t, ToolResult(t, retval))
  BY DEF ToolEnds
<1>2. UNCHANGED <<asked, violated, parser, stopped>>
  BY DEF ToolEnds
<1> DEFINE vs == ToolResult(t, retval)
<1>3. t \in Tool /\ stage \in {"klee", "sb", "coop", "termination"}
  BY DEF Inductive, TypeOK, StageRuns
<1>4. /\ Right(vs)
      /\ parser[t].errors # <<>> \/ "INCORRECT" \in Kinds(vs) => Kinds(vs) = {"INCORRECT"}
  BY <1>1, <1>3, ToolResultRight DEF Inductive
<1>5. /\ stage = "klee" => AfterKlee(vs)
      /\ stage = "sb" => Over(vs)
      /\ stage \in {"coop", "termination"} => AfterOneOfTwo(t, vs)
  BY <1>1, <1>3
<1>6. Printed(vs) = "none" => Cardinality(ToSet(parser[t].errors)) > 1
  BY <1>1, <1>3, ToolResultRight DEF Inductive
<1> HIDE DEF vs
<1>7. ~Conclusive(vs) /\ running = {t} => \A u \in Tool : parser[u].errors = <<>>
  BY <1>3, <1>4 DEF Conclusive, Inductive, Undecided
<1>8. CASE Over(vs)
  BY <1>2, <1>3, <1>6, <1>8 DEF Over, Start, Reasons, NoVerdictReasons
<1>9. CASE ~Over(vs) /\ stage = "klee"
  <2>1. ~Conclusive(vs) /\ running = {t}
    BY <1>3, <1>5, <1>9 DEF AfterKlee, Inductive, StageRuns
  <2>2. CASE stopped
    BY <1>2, <1>5, <1>7, <1>9, <2>1, <2>2
       DEF AfterKlee, NoVerdict, Start, Reasons, NoVerdictReasons
  <2>3. CASE ~stopped
    BY <1>2, <1>5, <1>9, <2>1, <2>3 DEF AfterKlee, Start, Reasons, NoVerdictReasons
  <2> QED
    BY <2>2, <2>3
<1>10. CASE ~Over(vs) /\ stage \in {"coop", "termination"}
  <2>1. ~Conclusive(vs) /\ AfterOneOfTwo(t, vs)
    BY <1>5, <1>10 DEF AfterOneOfTwo
  <2>2. CASE running # {t}
    BY <1>2, <1>10, <2>1, <2>2 DEF AfterOneOfTwo, Reasons, NoVerdictReasons
  <2>3. CASE running = {t} /\ stage = "coop"
    <3>1. Over(<<AVerdict("UNKNOWN", "none")>>)
      BY <2>1, <2>3 DEF AfterOneOfTwo
    <3>2. Printed(<<AVerdict("UNKNOWN", "none")>>) # "none"
      BY NoClaim
    <3> QED
      BY <3>1, <3>2 DEF Over, Start, Reasons, NoVerdictReasons
  <2>4. CASE running = {t} /\ stage = "termination"
    BY <1>2, <1>7, <2>1, <2>4 DEF AfterOneOfTwo, NoVerdict, Start, Reasons, NoVerdictReasons
  <2> QED
    BY <1>10, <2>2, <2>3, <2>4
<1> QED
  BY <1>3, <1>5, <1>8, <1>9, <1>10

LEMMA ReasonsStep == Inductive /\ Reasons /\ [Next]_vars => Reasons'
<1> SUFFICES ASSUME Inductive, Reasons, [Next]_vars PROVE Reasons'
  OBVIOUS
<1>1. CASE Compiled \/ Recompiled
  BY <1>1 DEF Compiled, Recompiled, Start, Reasons, NoVerdictReasons
<1>2. CASE CompiledWithWarning
  <2> DEFINE v == AVerdict("INCORRECT", "no-signed-overflow")
  <2>1. v.kind = "INCORRECT" /\ v.prp = "no-signed-overflow"
    BY DEF AVerdict
  <2>2. Warning = <<v>>
    BY DEF Warning
  <2> HIDE DEF v
  <2>3. DOMAIN Warning = {1} /\ Warning[1] = v
    BY <2>2
  <2>4. Kinds(Warning) = {"INCORRECT"} /\ ToSet(Warning) = {v}
    BY <2>1, <2>3, KindsOf DEF ToSet
  <2>5. Printed(Warning) = "no-signed-overflow"
    BY <2>1, <2>3, <2>4 DEF Printed, PrintRaises
  <2> QED
    BY <1>2, <2>5 DEF CompiledWithWarning, Over, Start, Reasons, NoVerdictReasons
<1>3. CASE CompilationFails
  <2>1. CASE stage = "compile"
    <3>1. NewParser.errors = <<>>
      BY DEF NewParser
    <3> QED
      BY <1>3, <2>1, <3>1 DEF CompilationFails, NoVerdict, Start, Reasons, NoVerdictReasons
  <2>2. CASE stage = "recompile" /\ stopped
    <3>1. \A t \in Tool : parser[t].errors = <<>>
      BY <2>2 DEF Inductive, StageRuns, Undecided
    <3> QED
      BY <1>3, <2>2, <3>1 DEF CompilationFails, NoVerdict, Start, Reasons, NoVerdictReasons
  <2> QED
    BY <1>3, <2>1, <2>2 DEF CompilationFails
<1>4. CASE ToolEnds
  BY <1>4, ToolEndsReasons
<1>5. CASE KleeReports \/ KillsPath \/ SaysClean
  <2>1. stage \notin {"compile", "over"} /\ UNCHANGED <<asked, stage>>
    BY <1>5 DEF KleeReports, KillsPath, SaysClean, Inductive, StageRuns
  <2> QED
    BY <2>1 DEF Reasons, NoVerdictReasons
<1>6. CASE SlowBeastReports
  <2>1. PICK t \in running, p \in SlowBeastLooksFor(asked) :
          /\ p \in violated
          /\ IF SlowBeastRaises(p, asked)
             THEN NoVerdict /\ UNCHANGED parser
             ELSE UNCHANGED <<stage, running, result, printed>>
    BY <1>6 DEF SlowBeastReports, Reports
  <2>2. UNCHANGED <<asked, violated, stopped>> /\ stage \notin {"compile", "over"}
    BY <1>6 DEF SlowBeastReports, Inductive, StageRuns
  <2>3. CASE p \notin asked
    <3>1. p = "unreach"
      BY <2>3 DEF SlowBeastLooksFor
    <3> QED
      BY <2>1, <2>2, <2>3, <3>1
         DEF SlowBeastRaises, NoVerdict, Start, Reasons, NoVerdictReasons
  <2>4. CASE p \in asked
    BY <2>1, <2>2, <2>4 DEF SlowBeastRaises, Reasons, NoVerdictReasons
  <2> QED
    BY <2>3, <2>4
<1>7. CASE Timeout
  BY <1>7 DEF Timeout, Reasons, NoVerdictReasons
<1>8. CASE Stutter \/ UNCHANGED vars
  BY <1>8 DEF Stutter, vars, Reasons, NoVerdictReasons
<1> QED
  BY <1>1, <1>2, <1>3, <1>4, <1>5, <1>6, <1>7, <1>8 DEF Next, Progress

-----------------------------------------------------------------------------
(* The scheduler: who saw what is validated, and what a parser remembers *)

Stages ==
  /\ stage # "over" => printed = "none"
  /\ stage \in {"harness", "link", "validate"} => found = "klee"
  /\ stage \notin {"harness", "link", "validate", "over"} => found = "nobody"
  /\ stage \notin {"validate", "over"} => linked = {}
  /\ stage = "validate" => linked # {}
  /\ stage \notin KleeStage \cup {"sb", "over"} \/ (stage = "validate" /\ linked = {"harness"}) =>
       memory.errors = <<>>

MemoryIsReal == ToSet(memory.errors) \subseteq Real

Scheduled == SchedulerTypeOK /\ Stages /\ MemoryIsReal /\ VerdictIsConfirmed /\ NoAnswerReasons

\* Why there may be no verdict at the end.
NoAnswerReason ==
  \/ stopped
  \/ found = "nobody" /\ (memory.errors = <<>> \/ "unreach" \in violated \ asked)
  \/ found \in {"clang", "sb"}
  \/ found = "klee" /\ linked = {}
  \/ linked # {} /\ Cardinality(ToSet(memory.errors)) > 1

\* When an answer can be given.
MayAnswer(answer) ==
  /\ answer \in Keys => found = "klee" /\ linked \in {{"program"}, {"program", "harness"}}
  /\ answer = "true" => Real = {} \/ (found = "klee" /\ linked = {"program", "harness"})

\* Nothing was printed before the end.
LEMMA NoAnswerScheduled ==
  ASSUME Scheduled, stage # "over", NoAnswer, SchedulerTypeOK', NoAnswerReason',
         UNCHANGED <<asked, violated>>
  PROVE  Scheduled'
<1>1. stage' = "over" /\ memory' = memory /\ printed' = "none" /\ "none" \notin Keys
  BY DEF NoAnswer, Scheduled, Stages, Keys, MemorySafety
<1>2. Stages' /\ MemoryIsReal'
  BY <1>1 DEF Scheduled, Stages, MemoryIsReal, Real
<1>3. VerdictIsConfirmed' /\ NoAnswerReasons'
  BY <1>1 DEF VerdictIsConfirmed, NoAnswerReasons, NoAnswerReason
<1> QED
  BY <1>2, <1>3 DEF Scheduled

\* The next task begins with a parser that remembers nothing.
LEMMA ReplaceScheduled ==
  ASSUME Scheduled, stage # "over", NEW s \in Stage \ {"over"}, Replace(s),
         UNCHANGED <<asked, violated, stopped>>,
         linked' \subseteq {"program", "harness"},
         found' = IF s \in {"harness", "link", "validate"} THEN "klee" ELSE "nobody",
         linked' = {} <=> s # "validate"
  PROVE  Scheduled'
<1>1. NewParser \in Parsers /\ NewParser.errors = <<>> /\ ToSet(<<>>) = {}
  BY EmptySeq DEF NewParser, Parsers, ToSet
<1>2. stage' = s /\ memory' = NewParser /\ printed' = "none"
  BY DEF Replace, Scheduled, Stages
<1>3. SchedulerTypeOK'
  BY <1>1, <1>2 DEF Scheduled, SchedulerTypeOK, RunTyped, Answers
<1>4. Stages' /\ MemoryIsReal'
  BY <1>1, <1>2 DEF Stages, MemoryIsReal
<1>5. VerdictIsConfirmed' /\ NoAnswerReasons'
  BY <1>2 DEF VerdictIsConfirmed, NoAnswerReasons, Keys, MemorySafety
<1> QED
  BY <1>3, <1>4, <1>5 DEF Scheduled

\* An answer is given that can be given, or there is a reason why it is missing.
LEMMA AnswerScheduled ==
  ASSUME Scheduled, stage # "over", NEW vs, BugsAreReal(vs), Answer(vs), MayAnswer(Printed(vs)),
         Printed(vs) = "none" => NoAnswerReason,
         UNCHANGED <<asked, violated, found, linked, stopped>>
  PROVE  Scheduled'
<1>1. stage' = "over" /\ memory' = memory /\ printed' = Printed(vs)
  BY DEF Answer
<1>2. Real \subseteq Keys
  BY DEF Scheduled, SchedulerTypeOK, RunTyped, Real
<1>3. Printed(vs) \in Answers /\ (Printed(vs) \in Keys => Printed(vs) \in Real)
  BY <1>2, PrintedRight
<1>4. SchedulerTypeOK'
  BY <1>1, <1>3 DEF Scheduled, SchedulerTypeOK, RunTyped, Stage
<1>5. Stages' /\ MemoryIsReal'
  BY <1>1 DEF Scheduled, Stages, MemoryIsReal, Real
<1>6. VerdictIsConfirmed'
  BY <1>1, <1>3 DEF VerdictIsConfirmed, MayAnswer, Real
<1>7. NoAnswerReasons'
  BY <1>1 DEF NoAnswerReasons, NoAnswerReason
<1> QED
  BY <1>4, <1>5, <1>6, <1>7 DEF Scheduled

\* The violation has a witness that can be validated, or the verdict is no
\* violation.
LEMMA CheckScheduled ==
  ASSUME Scheduled, stage \notin {"harness", "link", "validate", "over"},
         UNCHANGED <<asked, violated, linked, stopped>>,
         NEW who \in {"clang", "klee", "sb"}, NEW vs, Right(vs), CheckAndValidate(who, vs),
         "INCORRECT" \in Kinds(vs) \/ Printed(vs) # "none"
  PROVE  Scheduled'
<1>1. found = "nobody" /\ linked = {}
  BY DEF Scheduled, Stages
<1>2. CASE "INCORRECT" \in Kinds(vs) /\ Replace("harness")
  <2>1. found' = "klee" \/ NoAnswer
    BY <1>2 DEF CheckAndValidate
  <2>2. CASE found' = "klee"
    BY <1>1, <1>2, <2>2, ReplaceScheduled DEF Stage
  <2>3. CASE NoAnswer
    BY <1>2, <2>3 DEF Replace, NoAnswer
  <2> QED
    BY <2>1, <2>2, <2>3
<1>3. CASE "INCORRECT" \in Kinds(vs) /\ NoAnswer
  <2>1. found' = who
    BY <1>3 DEF CheckAndValidate
  <2>2. SchedulerTypeOK'
    BY <1>3, <2>1 DEF Scheduled, SchedulerTypeOK, RunTyped, NoAnswer, Stage
  <2>3. NoAnswerReason'
    BY <1>1, <2>1 DEF NoAnswerReason
  <2> QED
    BY <1>3, <2>2, <2>3, NoAnswerScheduled
<1>4. CASE "INCORRECT" \notin Kinds(vs)
  <2>1. Answer(vs) /\ UNCHANGED found /\ Printed(vs) # "none"
    BY <1>4 DEF CheckAndValidate
  <2>2. Real \subseteq Keys /\ "true" \notin Keys
    BY DEF Scheduled, SchedulerTypeOK, RunTyped, Real, Keys, MemorySafety
  <2>3. Printed(vs) = "true" => Real = {}
    BY <2>2, PrintedRight DEF Right
  <2>4. Printed(vs) \notin Keys
    BY <1>4, <2>2, PrintedRight DEF Right
  <2>5. MayAnswer(Printed(vs))
    BY <2>3, <2>4 DEF MayAnswer
  <2> QED
    BY <2>1, <2>5, AnswerScheduled DEF Right
<1> QED
  BY <1>2, <1>3, <1>4 DEF CheckAndValidate

-----------------------------------------------------------------------------
(* The steps of the scheduler *)

LEMMA SchedulerStarts == SchedulerInit => Scheduled
<1> SUFFICES ASSUME SchedulerInit PROVE Scheduled
  OBVIOUS
<1>1. NewParser \in Parsers /\ NewParser.errors = <<>> /\ ToSet(<<>>) = {}
  BY EmptySeq DEF NewParser, Parsers, ToSet
<1>2. SchedulerTypeOK
  BY <1>1 DEF SchedulerInit, RunStarts, SchedulerTypeOK, RunTyped, Answers, Stage
<1>3. Stages /\ MemoryIsReal
  BY <1>1 DEF SchedulerInit, RunStarts, Stages, MemoryIsReal
<1>4. VerdictIsConfirmed /\ NoAnswerReasons
  BY DEF SchedulerInit, RunStarts, VerdictIsConfirmed, NoAnswerReasons, Keys, MemorySafety
<1> QED
  BY <1>2, <1>3, <1>4 DEF Scheduled

\* A task that is no tool is replaced, or nobody had seen a violation.
LEMMA CompilesScheduled ==
  Scheduled /\ (Compile \/ CompileBackup \/ Split \/ Recompile) => Scheduled'
<1> SUFFICES ASSUME Scheduled, Compile \/ CompileBackup \/ Split \/ Recompile
             PROVE  Scheduled'
  OBVIOUS
<1>1. /\ stage \in {"compile", "backup", "split", "recompile"}
      /\ UNCHANGED <<asked, violated, found, linked, stopped>>
      /\ NoAnswer \/ \E s \in {"weak", "backup", "strong", "sb"} : Replace(s)
  BY DEF Compile, CompileBackup, Split, Recompile
<1>2. found = "nobody" /\ linked = {} /\ memory.errors = <<>>
  BY <1>1 DEF Scheduled, Stages, KleeStage
<1>3. CASE NoAnswer
  <2>1. SchedulerTypeOK' /\ NoAnswerReason'
    BY <1>1, <1>2, <1>3
       DEF NoAnswer, NoAnswerReason, Scheduled, SchedulerTypeOK, RunTyped, Stage
  <2> QED
    BY <1>1, <1>3, <2>1, NoAnswerScheduled
<1>4. CASE \E s \in {"weak", "backup", "strong", "sb"} : Replace(s)
  <2>1. PICK s \in {"weak", "backup", "strong", "sb"} : Replace(s)
    BY <1>4
  <2>2. s \in Stage \ {"over"} /\ s \notin {"harness", "link", "validate"}
    BY DEF Stage, KleeStage
  <2> QED
    BY <1>1, <1>2, <2>1, <2>2, ReplaceScheduled
<1> QED
  BY <1>1, <1>3, <1>4

LEMMA WarningsScheduled ==
  Scheduled /\ (CompileWithWarning \/ CompileBackupWithWarning) => Scheduled'
<1> SUFFICES ASSUME Scheduled, CompileWithWarning \/ CompileBackupWithWarning
             PROVE  Scheduled'
  OBVIOUS
<1>1. CASE CompileWithWarning
  <2>1. SchedulerTypeOK' /\ NoAnswerReason'
    BY <1>1 DEF CompileWithWarning, NoAnswer, NoAnswerReason, Scheduled, SchedulerTypeOK,
                RunTyped, Stage
  <2> QED
    BY <1>1, <2>1, NoAnswerScheduled DEF CompileWithWarning
<1>2. CASE CompileBackupWithWarning
  <2>1. Right(Warning) /\ "INCORRECT" \in Kinds(Warning)
    BY <1>2, WarningRight DEF CompileBackupWithWarning
  <2> QED
    BY <1>2, <2>1, CheckScheduled DEF CompileBackupWithWarning
<1> QED
  BY <1>1, <1>2

\* A witness becomes a harness, and the files that could be linked are validated.
LEMMA ValidationScheduled ==
  Scheduled /\ (ConvertHarness \/ LinkHarness \/ LinkHarnessWithWarning) => Scheduled'
<1> SUFFICES ASSUME Scheduled, ConvertHarness \/ LinkHarness \/ LinkHarnessWithWarning
             PROVE  Scheduled'
  OBVIOUS
<1>1. /\ stage \in {"harness", "link"}
      /\ UNCHANGED <<asked, violated, found, stopped>>
      /\ linked' \subseteq {"program", "harness"}
      /\ \/ NoAnswer /\ linked' = {}
         \/ Replace("link") /\ linked' = {}
         \/ Replace("validate") /\ linked' # {}
  BY DEF ConvertHarness, LinkHarness, LinkHarnessWithWarning, Scheduled, Stages
<1>2. found = "klee"
  BY <1>1 DEF Scheduled, Stages
<1>3. CASE NoAnswer /\ linked' = {}
  <2>1. SchedulerTypeOK' /\ NoAnswerReason'
    BY <1>1, <1>2, <1>3
       DEF NoAnswer, NoAnswerReason, Scheduled, SchedulerTypeOK, RunTyped, Stage
  <2> QED
    BY <1>1, <1>3, <2>1, NoAnswerScheduled
<1>4. CASE Replace("link") /\ linked' = {}
  BY <1>1, <1>2, <1>4, ReplaceScheduled DEF Stage
<1>5. CASE Replace("validate") /\ linked' # {}
  BY <1>1, <1>2, <1>5, ReplaceScheduled DEF Stage, KleeStage
<1> QED
  BY <1>1, <1>3, <1>4, <1>5

\* The result of the tool that ends.
LEMMA EndRight ==
  ASSUME Scheduled, NEW retval \in {0, 1}, CanEnd(retval), stage \in KleeStage \cup {"sb"}
  PROVE  LET vs == ResultOf(stage = "sb", memory, retval)
         IN  /\ BugsAreReal(vs)
             /\ "CORRECT" \in Kinds(vs) => Real = {} \/ linked = {"program", "harness"}
             /\ "INCORRECT" \in Kinds(vs) \/ Printed(vs) # "none"
             /\ "INCORRECT" \notin Kinds(vs) => memory.errors = <<>>
             /\ memory.errors = <<>> => "INCORRECT" \notin Kinds(vs) /\ Printed(vs) # "none"
             /\ linked = {"harness"} => "CORRECT" \notin Kinds(vs)
             /\ Printed(vs) = "none" => Cardinality(ToSet(memory.errors)) > 1
<1> DEFINE vs == ResultOf(stage = "sb", memory, retval)
<1>1. asked \in SUBSET Keys /\ memory \in Parsers /\ ToSet(memory.errors) \subseteq Real
  BY TasksAssumption DEF Scheduled, SchedulerTypeOK, RunTyped, MemoryIsReal
<1>2. /\ BugsAreReal(vs)
      /\ memory.errors # <<>> => Kinds(vs) = {"INCORRECT"}
      /\ memory.errors = <<>> => "INCORRECT" \notin Kinds(vs) /\ Printed(vs) # "none"
      /\ "CORRECT" \in Kinds(vs) =>
           retval = 0 /\ memory.errors = <<>> /\ memory.killed = {}
             /\ (stage = "sb" => memory.clean)
      /\ Printed(vs) = "none" => Cardinality(ToSet(memory.errors)) > 1
  BY <1>1, ResultRight
<1>3. /\ "CORRECT" \in Kinds(vs) => Real = {} \/ linked = {"program", "harness"}
      /\ linked = {"harness"} => "CORRECT" \notin Kinds(vs)
  BY <1>2 DEF CanEnd, Real
<1> QED
  BY <1>2, <1>3

LEMMA CheckEnds == Scheduled /\ (WeakEnds \/ StrongEnds \/ SlowBeastEnds) => Scheduled'
<1> SUFFICES ASSUME Scheduled, WeakEnds \/ StrongEnds \/ SlowBeastEnds PROVE Scheduled'
  OBVIOUS
<1>1. PICK retval \in {0, 1} :
        LET vs == ResultOf(stage = "sb", memory, retval) IN
          /\ CanEnd(retval)
          /\ \/ stage \in {"weak", "strong"} /\ CheckAndValidate("klee", vs)
             \/ stage = "sb" /\ CheckAndValidate("sb", vs)
             \/ /\ stage \in {"weak", "strong"} /\ ~Conclusive(vs) /\ UNCHANGED found
                /\ NoAnswer \/ \E s \in {"split", "recompile", "sb"} : Replace(s)
  BY DEF WeakEnds, StrongEnds, SlowBeastEnds, AfterStrong, ResultOf
<1> DEFINE vs == ResultOf(stage = "sb", memory, retval)
<1>2. /\ stage \in {"weak", "strong", "sb"}
      /\ UNCHANGED <<asked, violated, linked, stopped>>
  BY DEF WeakEnds, StrongEnds, SlowBeastEnds
<1>3. found = "nobody" /\ linked = {}
  BY <1>2 DEF Scheduled, Stages
<1>4. /\ BugsAreReal(vs)
      /\ "CORRECT" \in Kinds(vs) => Real = {} \/ linked = {"program", "harness"}
      /\ "INCORRECT" \in Kinds(vs) \/ Printed(vs) # "none"
      /\ "INCORRECT" \notin Kinds(vs) => memory.errors = <<>>
  BY <1>1, <1>2, EndRight DEF KleeStage
<1>5. CASE \E who \in {"klee", "sb"} : CheckAndValidate(who, vs)
  <2> HIDE DEF vs
  <2>1. Right(vs)
    BY <1>3, <1>4 DEF Right
  <2> QED
    BY <1>2, <1>4, <1>5, <2>1, CheckScheduled
<1>6. CASE ~Conclusive(vs) /\ UNCHANGED found
           /\ (NoAnswer \/ \E s \in {"split", "recompile", "sb"} : Replace(s))
  <2> HIDE DEF vs
  <2>1. memory.errors = <<>>
    BY <1>4, <1>6 DEF Conclusive
  <2>2. CASE NoAnswer
    <3>1. SchedulerTypeOK' /\ NoAnswerReason'
      BY <1>2, <1>3, <1>6, <2>1, <2>2
         DEF NoAnswer, NoAnswerReason, Scheduled, SchedulerTypeOK, RunTyped, Stage
    <3> QED
      BY <1>2, <2>2, <3>1, NoAnswerScheduled
  <2>3. CASE \E s \in {"split", "recompile", "sb"} : Replace(s)
    <3>1. PICK s \in {"split", "recompile", "sb"} : Replace(s)
      BY <2>3
    <3>2. s \in Stage \ {"over"} /\ s \notin {"harness", "link", "validate"}
      BY DEF Stage
    <3>3. linked' \subseteq {"program", "harness"}
      BY <1>2, <1>3
    <3> QED
      BY <1>2, <1>3, <1>6, <3>1, <3>2, <3>3, ReplaceScheduled
  <2> QED
    BY <1>6, <2>2, <2>3
<1> QED
  BY <1>1, <1>5, <1>6

LEMMA ValidationEndsScheduled == Scheduled /\ ValidationEnds => Scheduled'
<1> SUFFICES ASSUME Scheduled, ValidationEnds PROVE Scheduled'
  OBVIOUS
<1>1. stage = "validate" /\ UNCHANGED <<asked, violated, found, linked, stopped>>
  BY DEF ValidationEnds
<1>2. PICK retval \in {0, 1} : CanEnd(retval) /\ Answer(ResultOf(stage = "sb", memory, retval))
  BY <1>1 DEF ValidationEnds, AfterValidation, ResultOf
<1> DEFINE vs == ResultOf(stage = "sb", memory, retval)
<1>3. /\ BugsAreReal(vs)
      /\ "CORRECT" \in Kinds(vs) => Real = {} \/ linked = {"program", "harness"}
      /\ memory.errors = <<>> => "INCORRECT" \notin Kinds(vs) /\ Printed(vs) # "none"
      /\ Printed(vs) = "none" => Cardinality(ToSet(memory.errors)) > 1
  BY <1>1, <1>2, EndRight DEF KleeStage
<1> HIDE DEF vs
<1>4. /\ found = "klee" /\ linked # {} /\ linked \subseteq {"program", "harness"}
      /\ linked = {"harness"} => memory.errors = <<>>
      /\ Real \subseteq Keys
  BY <1>1 DEF Scheduled, Stages, SchedulerTypeOK, RunTyped, Real
<1>5. /\ Printed(vs) = "true" => Kinds(vs) = {"CORRECT"}
      /\ Printed(vs) \in Keys => Kinds(vs) = {"INCORRECT"}
  BY <1>3, <1>4, PrintedRight
<1>6. linked \in {{"program"}, {"harness"}, {"program", "harness"}}
  BY <1>4
<1>7. MayAnswer(Printed(vs))
  BY <1>3, <1>4, <1>5, <1>6 DEF MayAnswer
<1>8. Printed(vs) = "none" => NoAnswerReason
  BY <1>3, <1>4 DEF NoAnswerReason
<1>9. Answer(vs)
  BY <1>2 DEF vs
<1> QED
  BY <1>1, <1>3, <1>7, <1>8, <1>9, AnswerScheduled

\* The parser of the tool that runs remembers more, but nothing that is not real.
LEMMA MemoryScheduled ==
  ASSUME Scheduled, stage \in KleeStage \cup {"sb"},
         linked # {"harness"} \/ memory'.errors = memory.errors,
         memory' \in Parsers, ToSet(memory'.errors) \subseteq Real,
         UNCHANGED <<asked, violated, stage, found, linked, stopped, printed>>
  PROVE  Scheduled'
<1>1. stage # "over" /\ printed = "none"
  BY DEF Scheduled, Stages, KleeStage
<1>2. SchedulerTypeOK' /\ Stages' /\ MemoryIsReal'
  BY DEF Scheduled, SchedulerTypeOK, RunTyped, Stages, MemoryIsReal, Real
<1>3. VerdictIsConfirmed' /\ NoAnswerReasons'
  BY <1>1 DEF VerdictIsConfirmed, NoAnswerReasons, Keys, MemorySafety
<1> QED
  BY <1>2, <1>3 DEF Scheduled

LEMMA KleeScheduled == Scheduled /\ KleeFinds => Scheduled'
<1> SUFFICES ASSUME Scheduled, KleeFinds PROVE Scheduled'
  OBVIOUS
<1>1. PICK p \in Keys : p \in violated /\ memory' = KleeError(memory, p, asked)
  BY DEF KleeFinds, Finds
<1>2. memory \in Parsers /\ ToSet(memory.errors) \subseteq Real
  BY DEF Scheduled, SchedulerTypeOK, MemoryIsReal
<1>3. memory' \in Parsers /\ ToSet(memory'.errors) \subseteq Real
  BY <1>1, <1>2, KleeErrorReal
<1> QED
  BY <1>3, MemoryScheduled DEF KleeFinds

LEMMA SlowBeastScheduled == Scheduled /\ SlowBeastFinds => Scheduled'
<1> SUFFICES ASSUME Scheduled, SlowBeastFinds PROVE Scheduled'
  OBVIOUS
<1>1. PICK p \in SlowBeastLooksFor(asked) :
        /\ p \in violated
        /\ IF SlowBeastRaises(p, asked) THEN NoAnswer
           ELSE /\ memory' = [memory EXCEPT !.errors = Append(@, p)]
                /\ UNCHANGED <<stage, printed>>
  BY DEF SlowBeastFinds, Finds
<1>2. stage = "sb" /\ UNCHANGED <<asked, violated, found, linked, stopped>>
  BY DEF SlowBeastFinds
<1>3. found = "nobody" /\ linked = {}
  BY <1>2 DEF Scheduled, Stages
<1>4. CASE p \notin asked
  <2>1. p = "unreach" /\ NoAnswer
    BY <1>1, <1>4 DEF SlowBeastLooksFor, SlowBeastRaises
  <2>2. SchedulerTypeOK' /\ NoAnswerReason'
    BY <1>1, <1>2, <1>3, <1>4, <2>1
       DEF NoAnswer, NoAnswerReason, Scheduled, SchedulerTypeOK, RunTyped, Stage
  <2> QED
    BY <1>2, <2>1, <2>2, NoAnswerScheduled
<1>5. CASE p \in asked
  <2>1. p \in Real \cap Keys
    BY <1>1, <1>5 DEF Scheduled, SchedulerTypeOK, RunTyped, Real
  <2>2. memory \in Parsers /\ ToSet(memory.errors) \subseteq Real
    BY DEF Scheduled, SchedulerTypeOK, MemoryIsReal
  <2>3. memory' = [memory EXCEPT !.errors = Append(@, p)] /\ UNCHANGED <<stage, printed>>
    BY <1>1, <1>5 DEF SlowBeastRaises
  <2>4. memory' \in Parsers /\ ToSet(memory'.errors) \subseteq Real
    BY <2>1, <2>2, <2>3, OneMoreError
  <2> QED
    BY <1>2, <1>3, <2>3, <2>4, MemoryScheduled
<1> QED
  BY <1>4, <1>5

LEMMA ReservationScheduled == Scheduled /\ (GivesUpPath \/ FindsNothing) => Scheduled'
<1> SUFFICES ASSUME Scheduled, GivesUpPath \/ FindsNothing PROVE Scheduled'
  OBVIOUS
<1>1. \/ \E why \in {"path", "float"} : memory' = [memory EXCEPT !.killed = @ \cup {why}]
      \/ memory' = [memory EXCEPT !.clean = TRUE]
  BY DEF GivesUpPath, FindsNothing
<1>2. memory \in Parsers /\ ToSet(memory.errors) \subseteq Real
  BY DEF Scheduled, SchedulerTypeOK, MemoryIsReal
<1>3. memory' \in Parsers /\ memory'.errors = memory.errors
  BY <1>1, <1>2 DEF Parsers
<1>4. /\ stage \in KleeStage \cup {"sb"}
      /\ UNCHANGED <<asked, violated, stage, found, linked, stopped, printed>>
  BY DEF GivesUpPath, FindsNothing
<1> QED
  BY <1>2, <1>3, <1>4, MemoryScheduled

LEMMA StopScheduled ==
  Scheduled /\ (WatchdogStops \/ StoppedEnds \/ HasEnded \/ UNCHANGED runVars) => Scheduled'
<1>1. ASSUME Scheduled, WatchdogStops PROVE Scheduled'
  BY <1>1 DEF WatchdogStops, Scheduled, SchedulerTypeOK, RunTyped, Stages, MemoryIsReal, Real,
              VerdictIsConfirmed, NoAnswerReasons
<1>2. ASSUME Scheduled, StoppedEnds PROVE Scheduled'
  <2>1. SchedulerTypeOK' /\ NoAnswerReason'
    BY <1>2 DEF StoppedEnds, NoAnswer, NoAnswerReason, Scheduled, SchedulerTypeOK, RunTyped, Stage
  <2> QED
    BY <1>2, <2>1, NoAnswerScheduled DEF StoppedEnds
<1>3. ASSUME Scheduled, HasEnded \/ UNCHANGED runVars PROVE Scheduled'
  BY <1>3 DEF HasEnded, runVars, Scheduled, SchedulerTypeOK, RunTyped, Stages, MemoryIsReal, Real,
              VerdictIsConfirmed, NoAnswerReasons
<1> QED
  BY <1>1, <1>2, <1>3

LEMMA SchedulerStep == Scheduled /\ [SchedulerNext]_runVars => Scheduled'
<1> SUFFICES ASSUME Scheduled, [SchedulerNext]_runVars PROVE Scheduled'
  OBVIOUS
<1>1. CASE Compile \/ CompileBackup \/ Split \/ Recompile
  BY <1>1, CompilesScheduled
<1>2. CASE CompileWithWarning \/ CompileBackupWithWarning
  BY <1>2, WarningsScheduled
<1>3. CASE ConvertHarness \/ LinkHarness \/ LinkHarnessWithWarning
  BY <1>3, ValidationScheduled
<1>4. CASE WeakEnds \/ StrongEnds \/ SlowBeastEnds
  BY <1>4, CheckEnds
<1>5. CASE ValidationEnds
  BY <1>5, ValidationEndsScheduled
<1>6. CASE KleeFinds
  BY <1>6, KleeScheduled
<1>7. CASE SlowBeastFinds
  BY <1>7, SlowBeastScheduled
<1>8. CASE GivesUpPath \/ FindsNothing
  BY <1>8, ReservationScheduled
<1>9. CASE WatchdogStops \/ StoppedEnds \/ HasEnded \/ UNCHANGED runVars
  BY <1>9, StopScheduled
<1> QED
  BY <1>1, <1>2, <1>3, <1>4, <1>5, <1>6, <1>7, <1>8, <1>9 DEF SchedulerNext

LEMMA AlwaysScheduled == SchedulerSpec => []Scheduled
BY SchedulerStarts, SchedulerStep, PTL DEF SchedulerSpec

-----------------------------------------------------------------------------
(* Theorems *)

\* The parsers only collect properties that exist, and what is printed is one
\* of the answers that SV-COMP knows (parse_output of klee.py and slowbeast.py,
\* process_result of bubaak).
THEOREM SvcompTyped == Spec => []TypeOK
BY AlwaysInductive, PTL DEF Inductive

\* Whatever is asked for and however many errors the tools report, in whatever
\* order they end, fail or are stopped: "true" and "false(p)" are only printed
\* when the tools had good reason to say so (the finish methods of
\* workflows/svcomp.py up to process_result).
THEOREM VerdictsAreRight == Spec => []VerdictIsRight
BY AlwaysInductive, PTL DEF Inductive

\* No parser's error is dropped by a task that finishes after it: with an error
\* in any of them the run prints that error, or nothing.
THEOREM SeenBugsAreKept == Spec => []SeenBugIsNotLost
BY AlwaysInductive, PTL DEF Inductive

\* A run without a verdict has one of the reasons that the code knows: an
\* exception about two violations (bubaak's process_result), one about an
\* assertion that nobody asked for (parse_output of slowbeast.py), a failed
\* compilation, a stop, or termination that stayed open (workflows/svcomp.py).
THEOREM NoVerdictHasReasons == Spec => []NoVerdictReasons
<1>1. Init => Reasons
  BY DEF Init, RunStarts, Reasons, NoVerdictReasons
<1>2. Reasons => NoVerdictReasons
  BY DEF Reasons
<1> QED
  BY InitInductive, NextInductive, <1>1, ReasonsStep, <1>2, PTL DEF Spec

\* The types of the scheduler's run (workflows/scheduler.py).
THEOREM SchedulerTyped == SchedulerSpec => []SchedulerTypeOK
BY AlwaysScheduled, PTL DEF Scheduled

\* For any properties and any reports: what the scheduler prints about a violation
\* was seen by KLEE in the program and confirmed by the run that validates it, and
\* "true" is only wrong when that run, on one harness, missed what KLEE had seen
\* (CheckAndValidate and ValidateViolationResult of workflows/scheduler.py).
THEOREM VerdictsAreConfirmed == SchedulerSpec => []VerdictIsConfirmed
BY AlwaysScheduled, PTL DEF Scheduled

\* A run of the scheduler without a verdict was stopped, met a violation nobody had
\* asked for, saw none, or lost the one it saw on the way to its validation.
THEOREM NoAnswerHasReasons == SchedulerSpec => []NoAnswerReasons
BY AlwaysScheduled, PTL DEF Scheduled

=============================================================================
