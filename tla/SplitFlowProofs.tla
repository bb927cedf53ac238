--------------------------- MODULE SplitFlowProofs ---------------------------
(***************************************************************************)
(* What holds of the splitting workflow for every tree of splits, all      *)
(* chains of backup verifiers and any order of answers: its types, that the *)
(* merge reaches the root and is tight, that the printed verdict is right, *)
(* why there may be none, and that what is found and proved is used.       *)
(***************************************************************************)
EXTENDS SplitFlow, SequenceTheorems, FiniteSetTheorems, TLAPS

-----------------------------------------------------------------------------
(* The tree of splits *)

\* Below is closed, contains its root, and is the least such set.
LEMMA BelowLeast ==
  ASSUME NEW u \in Unit
  PROVE  /\ Below[u] \in SUBSET Unit /\ u \in Below[u] /\ ClosedBelow(Below[u])
         /\ \A C \in SUBSET Unit : u \in C /\ ClosedBelow(C) => Below[u] \subseteq C
<1>1. Below[u] = {v \in Unit : \A C \in SUBSET Unit : u \in C /\ ClosedBelow(C) => v \in C}
  BY DEF Below
<1>2. Below[u] \in SUBSET Unit /\ u \in Below[u]
  BY <1>1
<1>3. ASSUME NEW v \in Below[u] \cap Halved, NEW w \in {Left[v], Right[v]} PROVE w \in Below[u]
  <2>1. w \in Unit
    BY TreeAssumption
  <2>2. ASSUME NEW C \in SUBSET Unit, u \in C, ClosedBelow(C) PROVE w \in C
    <3>1. v \in C \cap Halved
      BY <1>1, <2>2
    <3> QED
      BY <2>2, <3>1 DEF ClosedBelow
  <2> QED
    BY <1>1, <2>1, <2>2
<1> QED
  BY <1>1, <1>2, <1>3 DEF ClosedBelow

\* What is below a part is below the whole.
LEMMA BelowTransitive ==
  ASSUME NEW u \in Unit, NEW v \in Below[u]
  PROVE  v \in Unit /\ Below[v] \subseteq Below[u]
<1>1. v \in Unit /\ Below[u] \in SUBSET Unit /\ ClosedBelow(Below[u])
  BY BelowLeast
<1> QED
  BY <1>1, BelowLeast

\* Parts have no more executions than the whole.
LEMMA BelowPaths ==
  ASSUME NEW u \in Unit, NEW v \in Below[u]
  PROVE  Paths[v] \subseteq Paths[u]
<1> DEFINE C == {w \in Unit : Paths[w] \subseteq Paths[u]}
<1>1. C \in SUBSET Unit /\ u \in C
  OBVIOUS
<1>2. ASSUME NEW w \in C \cap Halved PROVE {Left[w], Right[w]} \subseteq C
  <2>1. Left[w] \in Unit /\ Right[w] \in Unit /\ Paths[w] = Paths[Left[w]] \cup Paths[Right[w]]
    BY TreeAssumption
  <2> QED
    BY <2>1
<1>3. ClosedBelow(C)
  BY <1>2 DEF ClosedBelow
<1>4. Below[u] \subseteq C
  BY <1>1, <1>3, BelowLeast
<1> QED
  BY <1>4

Halves(p) == {Left[p], Right[p]}

\* A program is below another one only as the same or below one of its halves,
LEMMA BelowUnfold ==
  ASSUME NEW p \in Unit
  PROVE  /\ p \in Halved => /\ Left[p] \in Unit /\ Right[p] \in Unit
                            /\ Left[p] \in Below[p] /\ Right[p] \in Below[p]
                            /\ Below[p] = {p} \cup Below[Left[p]] \cup Below[Right[p]]
         /\ p \notin Halved => Below[p] = {p}
<1>1. CASE p \in Halved
  <2>1. Left[p] \in Unit /\ Right[p] \in Unit
    BY <1>1, TreeAssumption
  <2>2. Left[p] \in Below[p] /\ Right[p] \in Below[p]
    BY <1>1, BelowLeast DEF ClosedBelow
  <2> DEFINE C == {p} \cup Below[Left[p]] \cup Below[Right[p]]
  <2>3. C \in SUBSET Unit /\ p \in C
    BY <2>1, BelowLeast
  <2>4. ClosedBelow(C)
    <3>1. ClosedBelow(Below[Left[p]]) /\ ClosedBelow(Below[Right[p]])
      BY <2>1, BelowLeast
    <3>2. Left[p] \in Below[Left[p]] /\ Right[p] \in Below[Right[p]]
      BY <2>1, BelowLeast
    <3> QED
      BY <3>1, <3>2 DEF ClosedBelow
  <2>5. Below[p] \subseteq C
    BY <2>3, <2>4, BelowLeast
  <2>6. C \subseteq Below[p]
    <3>1. p \in Below[p] /\ Below[Left[p]] \subseteq Below[p] /\ Below[Right[p]] \subseteq Below[p]
      BY <2>2, BelowLeast, BelowTransitive
    <3> QED
      BY <3>1
  <2> QED
    BY <1>1, <2>1, <2>2, <2>5, <2>6
<1>2. CASE p \notin Halved
  <2>1. {p} \in SUBSET Unit /\ p \in {p} /\ ClosedBelow({p})
    BY <1>2 DEF ClosedBelow
  <2>2. p \in Below[p] /\ Below[p] \subseteq {p}
    BY <2>1, BelowLeast
  <2> QED
    BY <1>2, <2>2
<1> QED
  BY <1>1, <1>2

\* or if it is a half of something that is below the other one, too.
LEMMA BelowParent ==
  ASSUME NEW p \in Halved, NEW v \in Halves(p), NEW u \in Unit, v \in Below[u], u # v
  PROVE  p \in Below[u]
<1>1. p \in Unit /\ v \in Unit
  BY TreeAssumption DEF Halves
<1>2. SUFFICES ASSUME p \notin Below[u] PROVE FALSE
  OBVIOUS
<1> DEFINE C == Below[u] \ {v}
<1>3. C \in SUBSET Unit /\ u \in C
  BY BelowLeast
<1>4. ASSUME NEW w \in C \cap Halved PROVE Halves(w) \subseteq C
  <2>1. Halves(w) \subseteq Below[u] /\ w # p
    BY <1>2, BelowLeast DEF ClosedBelow, Halves
  <2>2. v \notin Halves(w)
    BY <2>1, TreeAssumption DEF Halves
  <2> QED
    BY <2>1, <2>2
<1>5. ClosedBelow(C)
  BY <1>4 DEF ClosedBelow, Halves
<1>6. Below[u] \subseteq C
  BY <1>3, <1>5, BelowLeast
<1> QED
  BY <1>6

\* The parent of a half is what it is a half of.
LEMMA ParentProperty ==
  ASSUME NEW p \in Halved, NEW v \in Halves(p)
  PROVE  Parent(v) = p /\ v \in Unit
<1>1. \A q \in Halved : v \in {Left[q], Right[q]} => q = p
  BY TreeAssumption DEF Halves
<1>2. v \in {Left[p], Right[p]}
  BY DEF Halves
<1>3. Parent(v) = p
  BY <1>1, <1>2 DEF Parent
<1> QED
  BY <1>3, TreeAssumption DEF Halves

\* Whatever is below the input, but for the input, is a half.
LEMMA BelowWhole ==
  ASSUME NEW v \in Below[Whole], v # Whole
  PROVE  /\ Parent(v) \in Halved \cap Below[Whole] /\ v \in Halves(Parent(v))
         /\ Parent(v) \in Unit /\ v \in Unit
<1> DEFINE C == {w \in Below[Whole] : w = Whole \/ \E p \in Halved \cap Below[Whole] : w \in Halves(p)}
<1>1. Whole \in Unit
  BY TreeAssumption
<1>2. C \in SUBSET Unit /\ Whole \in C /\ ClosedBelow(C)
  <2>1. Below[Whole] \in SUBSET Unit /\ Whole \in Below[Whole] /\ ClosedBelow(Below[Whole])
    BY <1>1, BelowLeast
  <2>2. ASSUME NEW w \in C \cap Halved PROVE Halves(w) \subseteq C
    BY <2>1 DEF ClosedBelow, Halves
  <2> QED
    BY <2>1, <2>2 DEF ClosedBelow, Halves
<1>3. Below[Whole] \subseteq C
  BY <1>1, <1>2, BelowLeast
<1>4. PICK p \in Halved \cap Below[Whole] : v \in Halves(p)
  BY <1>3
<1>5. Parent(v) = p /\ v \in Unit
  BY <1>4, ParentProperty
<1> QED
  BY <1>4, <1>5, TreeAssumption

\* The input is below nothing else.
LEMMA NothingAbove ==
  ASSUME NEW x \in Unit, Whole \in Below[x]
  PROVE  x = Whole
<1>1. SUFFICES ASSUME x # Whole PROVE FALSE
  OBVIOUS
<1> DEFINE D == Below[x] \ {Whole}
<1>2. D \in SUBSET Unit /\ x \in D
  BY <1>1, BelowLeast
<1>3. ASSUME NEW w \in D \cap Halved PROVE Halves(w) \subseteq D
  <2>1. Halves(w) \subseteq Below[x]
    BY BelowLeast DEF ClosedBelow, Halves
  <2> QED
    BY <2>1, TreeAssumption DEF Halves
<1>4. ClosedBelow(D)
  BY <1>3 DEF ClosedBelow, Halves
<1>5. Below[x] \subseteq D
  BY <1>2, <1>4, BelowLeast
<1> QED
  BY <1>1, <1>5

\* Two programs with a common part are one below the other.
LEMMA Comparable ==
  ASSUME NEW r \in Below[Whole], NEW a \in Unit, NEW b \in Unit, r \in Below[a], r \in Below[b]
  PROVE  a \in Below[b] \/ b \in Below[a]
<1> DEFINE C == {v \in Below[Whole] : \A x, y \in Unit : v \in Below[x] /\ v \in Below[y] =>
                                                      x \in Below[y] \/ y \in Below[x]}
<1>1. Whole \in Unit /\ Below[Whole] \in SUBSET Unit /\ Whole \in Below[Whole]
      /\ ClosedBelow(Below[Whole])
  BY TreeAssumption, BelowLeast
<1>3. Whole \in C
  BY <1>1, NothingAbove
<1>4. ASSUME NEW p \in C \cap Halved, NEW v \in Halves(p) PROVE v \in C
  <2>1. v \in Below[Whole] /\ v \in Unit /\ p \in Unit
    BY <1>1, TreeAssumption DEF ClosedBelow, Halves
  <2>2. ASSUME NEW x \in Unit, NEW y \in Unit, v \in Below[x], v \in Below[y]
        PROVE  x \in Below[y] \/ y \in Below[x]
    <3>1. CASE x = v \/ y = v
      BY <2>2, <3>1
    <3>2. CASE x # v /\ y # v
      <4>1. p \in Below[x] /\ p \in Below[y]
        BY <2>2, <3>2, BelowParent
      <4> QED
        BY <4>1
    <3> QED
      BY <3>1, <3>2
  <2> QED
    BY <2>1, <2>2
<1>5. C \in SUBSET Unit /\ ClosedBelow(C)
  BY <1>1, <1>4 DEF ClosedBelow, Halves
<1>6. Below[Whole] \subseteq C
  BY <1>1, <1>3, <1>5, BelowLeast
<1> QED
  BY <1>6

\* No two programs that come from the input are below each other.
LEMMA Acyclic ==
  ASSUME NEW v \in Below[Whole], NEW a \in Unit, v \in Below[a], a \in Below[v]
  PROVE  a = v
<1> DEFINE C == {w \in Below[Whole] : \A x \in Unit : w \in Below[x] /\ x \in Below[w] => x = w}
<1>1. Whole \in Unit /\ Below[Whole] \in SUBSET Unit /\ Whole \in Below[Whole]
      /\ ClosedBelow(Below[Whole])
  BY TreeAssumption, BelowLeast
<1>2. Whole \in C
  BY <1>1, NothingAbove
<1>3. ASSUME NEW p \in C \cap Halved, NEW w \in Halves(p) PROVE w \in C
  <2>1. w \in Below[Whole] /\ w \in Unit /\ p \in Unit /\ w \in Below[p]
    BY <1>1, BelowLeast, TreeAssumption DEF ClosedBelow, Halves
  <2>2. SUFFICES ASSUME NEW x \in Unit, w \in Below[x], x \in Below[w], x # w PROVE FALSE
    BY <2>1
  <2>3. p \in Below[x] /\ x \in Below[p]
    BY <2>1, <2>2, BelowParent, BelowTransitive
  <2>4. x = p
    BY <2>3
  <2>5. p \in Below[w]
    BY <2>2, <2>4
  <2> QED
    BY <2>1, <2>2, <2>4, <2>5
<1>4. C \in SUBSET Unit /\ ClosedBelow(C)
  BY <1>1, <1>3 DEF ClosedBelow, Halves
<1>5. Below[Whole] \subseteq C
  BY <1>1, <1>2, <1>4, BelowLeast
<1> QED
  BY <1>5

\* Two halves have nothing in common, and none has the program itself.
LEMMA HalvesDisjoint ==
  ASSUME NEW p \in Halved \cap Below[Whole]
  PROVE  /\ Below[Left[p]] \cap Below[Right[p]] = {}
         /\ p \notin Below[Left[p]] /\ p \notin Below[Right[p]]
<1>1. /\ p \in Unit /\ Left[p] \in Unit /\ Right[p] \in Unit /\ Left[p] # Right[p]
      /\ Left[p] \in Below[p] /\ Right[p] \in Below[p] /\ Whole \in Unit
  BY TreeAssumption, BelowUnfold
<1>2. \A h \in Halves(p) : h \in Unit /\ h \in Below[p]
  BY <1>1 DEF Halves
<1>3. ASSUME NEW h \in Halves(p) PROVE p \notin Below[h]
  <2>1. SUFFICES ASSUME p \in Below[h] PROVE FALSE
    OBVIOUS
  <2>2. h = p
    BY <1>2, <2>1, Acyclic
  <2>3. CASE p = Whole
    BY <2>2, <2>3, TreeAssumption DEF Halves
  <2>4. CASE p # Whole
    <3> DEFINE C == Below[Whole] \ Below[p]
    <3>1. C \in SUBSET Unit
      BY <1>1, BelowLeast
    <3>2. Whole \in C
      <4>1. SUFFICES ASSUME Whole \in Below[p] PROVE FALSE
        BY <1>1, BelowLeast
      <4>2. Whole \in Below[Whole]
        BY <1>1, BelowLeast
      <4>3. p = Whole
        BY <1>1, <4>1, <4>2, Acyclic
      <4> QED
        BY <2>4, <4>3
    <3>3. ASSUME NEW w \in C \cap Halved, NEW x \in Halves(w) PROVE x \in C
      <4>1. x \in Below[Whole] /\ w \in Unit
        BY <1>1, <3>1, BelowLeast DEF ClosedBelow, Halves
      <4>2. ASSUME x \in Below[p] PROVE FALSE
        <5>1. CASE x = p
          <6>1. w = p
            BY <2>2, <3>3, <5>1, TreeAssumption DEF Halves
          <6> QED
            BY <1>1, <6>1, BelowLeast
        <5>2. CASE x # p
          <6>1. w \in Below[p]
            BY <1>1, <3>3, <4>2, <5>2, BelowParent
          <6> QED
            BY <6>1
        <5> QED
          BY <5>1, <5>2
      <4> QED
        BY <4>1, <4>2
    <3>4. ClosedBelow(C)
      BY <3>3 DEF ClosedBelow, Halves
    <3>5. Below[Whole] \subseteq C
      BY <1>1, <3>1, <3>2, <3>4, BelowLeast
    <3> QED
      BY <1>1, <3>5, BelowLeast
  <2> QED
    BY <2>3, <2>4
<1>4. ASSUME NEW r \in Below[Left[p]], r \in Below[Right[p]] PROVE FALSE
  <2>1. r \in Below[Whole]
    <3>1. Below[p] \subseteq Below[Whole] /\ Below[Left[p]] \subseteq Below[p]
      BY <1>1, BelowTransitive
    <3> QED
      BY <3>1
  <2>2. Left[p] \in Below[Right[p]] \/ Right[p] \in Below[Left[p]]
    BY <1>1, <1>4, <2>1, Comparable
  <2>3. p \in Below[Right[p]] \/ p \in Below[Left[p]]
    BY <1>1, <2>2, BelowParent DEF Halves
  <2> QED
    BY <1>3, <2>3 DEF Halves
<1> QED
  BY <1>3, <1>4 DEF Halves

\* What is appended to a list is all that is added to what is in it.
LEMMA AppendToSet ==
  ASSUME NEW S, NEW s \in Seq(S), NEW e \in S
  PROVE  /\ Append(s, e) \in Seq(S) /\ Append(s, e) # <<>>
         /\ ToSet(Append(s, e)) = ToSet(s) \cup {e}
<1> DEFINE a == Append(s, e)
<1>1. /\ a \in Seq(S) /\ a # <<>> /\ Len(a) = Len(s) + 1
      /\ \A k \in 1..Len(s) : a[k] = s[k]
      /\ a[Len(s) + 1] = e
  BY AppendProperties
<1>2. DOMAIN a = 1..(Len(s) + 1) /\ DOMAIN s = 1..Len(s) /\ Len(s) \in Nat
  BY <1>1
<1> HIDE DEF a
<1>3. ToSet(a) = ToSet(s) \cup {e}
  <2>1. \A k \in DOMAIN a : k \in DOMAIN s \/ k = Len(s) + 1
    BY <1>2
  <2>2. \A k \in DOMAIN s : k \in DOMAIN a
    BY <1>2
  <2>3. Len(s) + 1 \in DOMAIN a
    BY <1>2
  <2> QED
    BY <1>1, <1>2, <2>1, <2>2, <2>3 DEF ToSet
<1> QED
  BY <1>1, <1>3 DEF a

-----------------------------------------------------------------------------
(* Verdicts *)

\* What a list of verdicts about the one property prints.
LEMMA PrintedSays ==
  ASSUME NEW vs \in Seq(Says3), vs # <<>>
  PROVE  /\ vs[1] \in Says3
         /\ Printed(vs) \in {"true", "unreach", "unknown"}
         /\ Printed(vs) = "true" => Kinds(vs) = {"CORRECT"}
         /\ Printed(vs) = "unreach" => "INCORRECT" \in Kinds(vs)
         /\ vs[1].kind \in Kinds(vs)
<1>1. 1 \in DOMAIN vs /\ vs[1] \in Says3 /\ vs[1] \in ToSet(vs)
  BY DEF ToSet
<1>2. \A v \in Says3 : v.kind \in {"CORRECT", "INCORRECT", "UNKNOWN"} /\ v.prp = "unreach"
  BY DEF Says3, Says, AVerdict
<1>3. \A v \in ToSet(vs) : v \in Says3
  BY DEF ToSet
<1>4. ~PrintRaises(vs)
  BY <1>2, <1>3 DEF PrintRaises
<1>5. vs[1].kind \in Kinds(vs) /\ \A k \in Kinds(vs) : k \in {"CORRECT", "INCORRECT", "UNKNOWN"}
  BY <1>1, <1>2, <1>3 DEF Kinds
<1>6. Kinds(vs) # {"ERROR"}
  BY <1>5
<1>7. CASE Kinds(vs) = {"CORRECT"}
  <2>1. Printed(vs) = "true"
    BY <1>4, <1>7 DEF Printed
  <2> QED
    BY <1>1, <1>5, <1>7, <2>1
<1>8. CASE Kinds(vs) = {"INCORRECT"}
  <2>1. Printed(vs) = "unreach"
    BY <1>1, <1>2, <1>4, <1>8 DEF Printed
  <2> QED
    BY <1>1, <1>5, <1>8, <2>1
<1>9. CASE Kinds(vs) # {"CORRECT"} /\ Kinds(vs) # {"INCORRECT"}
  <2>1. Printed(vs) = "unknown"
    BY <1>4, <1>6, <1>9 DEF Printed
  <2> QED
    BY <1>1, <1>5, <2>1
<1> QED
  BY <1>7, <1>8, <1>9

-----------------------------------------------------------------------------
(* The invariant *)

Clean(P) == P \cap buggy = {}

WholeClean == Clean(Paths[Whole])

\* What splitting has done: what is left and what is verified have all executions,
\* and what is verified is correct.
Reduction ==
  /\ frontier \in SUBSET Unit /\ verified \in SUBSET Unit /\ residuals \in SUBSET Unit
  /\ answer \in {"none", "bug", "reduced", "error"}
  /\ buggy \in SUBSET Path /\ backup \in Backups /\ merge \in Merges
  /\ frontier \subseteq Below[Whole]
  /\ Paths[Whole] \subseteq Executions(frontier \cup verified)
  /\ Clean(Executions(verified))
  /\ refuted => ~WholeClean
  /\ answer = "bug" => refuted
  /\ answer = "reduced" => residuals = frontier

\* A merged program has what is left below it, and no more than any program of
\* the tree that has all that is left below it.
Merges1(n) ==
  LET rest == residuals \cap Below[n] IN
    /\ rest # {}
    /\ Executions(rest) \subseteq merged[n]
    /\ \A u \in Unit : rest \subseteq Below[u] => merged[n] \subseteq Paths[u]

\* A program whose parent is not merged is at work itself, or has a sibling that
\* is at work or is not merged.
Waits(n) ==
  \/ Parent(n) \in DOMAIN merged
  \/ \E c \in Children(Parent(n)) : c \notin DOMAIN merged \/ c \in ToSet(worklist)

Merging ==
  stage = "merge" =>
    /\ answer = "reduced" /\ residuals # {}
    /\ residuals \subseteq DOMAIN merged /\ DOMAIN merged \subseteq Below[Whole]
    /\ ToSet(worklist) \subseteq DOMAIN merged
    /\ \A n \in DOMAIN merged : Merges1(n) /\ (n # Whole => Waits(n))

\* What the backup verifiers run on: the whole input, or what splitting left.
Programs ==
  /\ stage \in {"split", "merge"} => exported = <<>>
  /\ stage = "residuals" => answer = "reduced" /\ residuals # {}
  /\ stage = "whole" => programs = <<Paths[Whole]>>
  /\ Running => programs # <<>> /\ \A i \in DOMAIN programs : programs[i] \subseteq Paths[Whole]

ChainStates == [at : 0..Len(backup), waiting : SUBSET Verifier, results : Seq(Says3)]

\* The verdicts that are there are right.
ChainRuns(i) ==
  /\ task[i].at \in DOMAIN backup
  /\ \A v \in ToSet(task[i].results) :
       v.kind # "INCORRECT" /\ (v.kind = "CORRECT" => Clean(programs[i]))

ChainRight(i) ==
  \/ task[i] = ChainOver /\ (Kinds(gathered) \subseteq {"CORRECT"} => Clean(programs[i]))
  \/ ChainRuns(i)

Chains ==
  Running =>
    /\ \A i \in DOMAIN programs : task[i] \in ChainStates /\ ChainRight(i)
    /\ "INCORRECT" \notin Kinds(gathered)

\* Only the end prints something.
AtEnd ==
  /\ stage = "over" <=> ended # "no"
  /\ stage # "over" => printed = "none"

Inductive ==
  /\ TypeOK /\ Reduction /\ Merging /\ Programs /\ Chains /\ AtEnd
  /\ MergeIsTight /\ VerdictIsRight /\ NoVerdictReasons

\* Unless there is a bug in the whole input, some program has it.
LEMMA ProgramsCover ==
  ASSUME Inductive, Running, \A i \in DOMAIN programs : Clean(programs[i])
  PROVE  WholeClean
<1> USE DEF Inductive
<1>1. Clean(UNION ToSet(programs))
  BY DEF Clean, ToSet
<1>2. CASE stage = "whole"
  <2>1. 1 \in DOMAIN programs /\ programs[1] = Paths[Whole]
    BY <1>2 DEF Programs
  <2> QED
    BY <2>1 DEF WholeClean
<1>3. CASE stage = "residuals"
  <2>1. residuals = frontier
    BY <1>3 DEF Programs, Reduction
  <2>2. Executions(frontier) \subseteq UNION ToSet(programs)
    BY <1>3, <2>1 DEF MergeIsTight
  <2>3. Paths[Whole] \subseteq Executions(frontier) \cup Executions(verified)
    BY DEF Reduction, Executions
  <2> QED
    BY <1>1, <2>2, <2>3 DEF Reduction, Clean, WholeClean
<1> QED
  BY <1>2, <1>3 DEF Running

-----------------------------------------------------------------------------
(* Starting, ending and going on *)

\* The chains of some programs start.
LEMMA StartRight ==
  ASSUME Inductive, NEW s \in {"residuals", "whole"},
         NEW progs \in Seq(SUBSET Path), progs # <<>>,
         \A i \in DOMAIN progs : progs[i] \subseteq Paths[Whole],
         s = "whole" => progs = <<Paths[Whole]>>,
         s = "residuals" => answer = "reduced" /\ residuals # {} /\ MergeIsTight',
         stage # "over", Start(s, progs), UNCHANGED <<reduction, config, merging>>,
         exported' \in Seq(SUBSET Path), Len(exported') <= 1, proved' \subseteq Path
  PROVE  Inductive'
<1> USE DEF Inductive
<1>1. /\ stage' = s /\ programs' = progs /\ task' = [i \in DOMAIN progs |-> Chain(1)]
      /\ gathered' = <<>> /\ ended' = ended /\ printed' = printed
      /\ UNCHANGED <<frontier, verified, refuted, answer, residuals, done, buggy, backup,
                     merge, worklist, merged>>
  BY DEF Start, outcome, reduction, config, merging
<1>2. /\ backup \in Seq((SUBSET Verifier) \ {{}}) /\ backup # <<>>
      /\ Len(backup) \in Nat /\ 1 \in DOMAIN backup /\ 1 \in 0..Len(backup)
  <2>1. backup \in Seq((SUBSET Verifier) \ {{}}) /\ backup # <<>>
    BY ChainAssumption DEF Reduction
  <2> QED
    BY <2>1
<1>3. /\ Chain(1) \in [at : 0..Len(backup), waiting : SUBSET Verifier, results : Seq(Says3)]
      /\ Chain(1).at = 1 /\ ToSet(Chain(1).results) = {}
  <2>1. backup[1] \in SUBSET Verifier
    BY <1>2
  <2>2. <<>> \in Seq(Says3) /\ ToSet(<<>>) = {}
    BY DEF ToSet
  <2> QED
    BY <1>2, <2>1, <2>2 DEF Chain
<1>4. TypeOK'
  <2>1. <<>> \in Seq(Says3)
    OBVIOUS
  <2>2. \A i \in DOMAIN progs : /\ Chain(1).at \in 0..Len(backup)
                                /\ Chain(1).waiting \subseteq Verifier
                                /\ Chain(1).results \in Seq(Says3)
    BY <1>3
  <2>3. /\ stage' \in {"split", "merge", "residuals", "whole", "over"}
        /\ DOMAIN task' = DOMAIN programs' /\ programs' \in Seq(SUBSET Path)
        /\ \A i \in DOMAIN task' : task'[i] = Chain(1)
    BY <1>1
  <2> QED
    BY <1>1, <2>1, <2>2, <2>3 DEF TypeOK
<1>5. Reduction'
  BY <1>1 DEF Reduction, Executions, Clean, WholeClean
<1>6. Merging' /\ Programs'
  BY <1>1 DEF Merging, Programs, Running
<1>7. Chains'
  <2>1. Kinds(<<>>) = {}
    BY DEF Kinds, ToSet
  <2>2. \A i \in DOMAIN progs : task'[i] \in ChainStates' /\ ChainRuns(i)'
    BY <1>1, <1>2, <1>3 DEF ChainStates, ChainRuns
  <2> QED
    BY <1>1, <2>1, <2>2 DEF Chains, ChainRight
<1>8. AtEnd' /\ VerdictIsRight' /\ NoVerdictReasons'
  BY <1>1 DEF AtEnd, VerdictIsRight, NoVerdictReasons
<1>9. MergeIsTight'
  BY <1>1 DEF MergeIsTight
<1> QED
  BY <1>4, <1>5, <1>6, <1>7, <1>8, <1>9

\* The workflow ends with a line that is right.
LEMMA EndRight ==
  ASSUME Inductive, NEW why \in {"result", "exception", "timeout"},
         NEW line \in {"none", "true", "unreach", "unknown"}, End(why, line),
         UNCHANGED <<reduction, config, merging, exported, programs, task, gathered>>,
         line = "true" => WholeClean, line = "unreach" => ~WholeClean,
         proved' \subseteq Path, NoVerdictReasons'
  PROVE  Inductive'
<1> USE DEF Inductive
<1>1. /\ stage' = "over" /\ ended' = why /\ printed' = line
      /\ UNCHANGED <<frontier, verified, refuted, answer, residuals, done, buggy, backup,
                     merge, worklist, merged, exported, programs, task, gathered>>
  BY DEF End, reduction, config, merging
<1>2. TypeOK'
  BY <1>1 DEF TypeOK
<1>3. Reduction'
  BY <1>1 DEF Reduction, Executions, Clean, WholeClean
<1>4. Merging' /\ Programs' /\ Chains' /\ AtEnd' /\ MergeIsTight'
  BY <1>1 DEF Merging, Programs, Chains, Running, AtEnd, MergeIsTight
<1>5. VerdictIsRight'
  BY <1>1 DEF VerdictIsRight, WholeClean, Clean
<1> QED
  BY <1>2, <1>3, <1>4, <1>5

\* Chains go on.
LEMMA GoOnRight ==
  ASSUME Inductive, Running, Chains', proved' \subseteq Path,
         UNCHANGED <<reduction, config, merging, exported, stage, outcome, programs>>,
         DOMAIN task' = DOMAIN programs, gathered' \in Seq(Says3)
  PROVE  Inductive'
<1> USE DEF Inductive
<1>1. UNCHANGED <<frontier, verified, refuted, answer, residuals, done, buggy, backup, merge,
                  worklist, merged, exported, stage, ended, printed, programs>>
  BY DEF reduction, config, merging, outcome
<1>2. stage # "over" /\ stage # "merge" /\ stage # "split"
  BY DEF Running
<1>3. TypeOK'
  <2>1. \A i \in DOMAIN programs : task'[i] \in ChainStates
    BY <1>1 DEF Chains, ChainStates, Running
  <2> QED
    BY <1>1, <2>1 DEF TypeOK, ChainStates
<1>4. Reduction'
  BY <1>1 DEF Reduction, Executions, Clean, WholeClean
<1>5. Merging' /\ Programs' /\ AtEnd' /\ VerdictIsRight'
  BY <1>1, <1>2 DEF Merging, Programs, Running, AtEnd, VerdictIsRight
<1>6. MergeIsTight'
  BY <1>1 DEF MergeIsTight, Executions
<1>7. NoVerdictReasons'
  BY <1>1, <1>2 DEF NoVerdictReasons
<1> QED
  BY <1>3, <1>4, <1>5, <1>6, <1>7

\* The whole input is what the backup verifiers run on next.
LEMMA BackupOnWholeRight ==
  ASSUME Inductive, stage # "over", BackupOnWhole, UNCHANGED <<reduction, config, merging, exported>>,
         proved' \subseteq Path
  PROVE  Inductive'
<1>1. Paths[Whole] \in SUBSET Path
  BY TreeAssumption
<1>2. /\ <<Paths[Whole]>> \in Seq(SUBSET Path) /\ <<Paths[Whole]>> # <<>>
      /\ \A i \in DOMAIN <<Paths[Whole]>> : <<Paths[Whole]>>[i] \subseteq Paths[Whole]
  BY <1>1
<1>3. exported' \in Seq(SUBSET Path) /\ Len(exported') <= 1
  BY DEF Inductive, TypeOK
<1> QED
  BY <1>2, <1>3, StartRight DEF BackupOnWhole

-----------------------------------------------------------------------------
(* Answers of backup verifiers *)

\* Their verdicts decide.
LEMMA BackupsOverRight ==
  ASSUME Inductive, Running, NEW vs \in Seq(Says3), vs # <<>>, BackupsOver(vs),
         Kinds(vs) = {"CORRECT"} => WholeClean,
         "INCORRECT" \in Kinds(vs) => ~WholeClean,
         UNCHANGED <<reduction, config, merging, exported>>, proved' \subseteq Path
  PROVE  Inductive'
<1>1. stage # "over"
  BY DEF Running
<1>2. CASE stage = "residuals" /\ ~Conclusive(vs)
  BY <1>1, <1>2, BackupOnWholeRight DEF BackupsOver
<1>3. CASE ~(stage = "residuals" /\ ~Conclusive(vs))
  <2>1. End("result", Printed(vs)) /\ UNCHANGED <<programs, task, gathered>>
    BY <1>3 DEF BackupsOver, ProcessResult
  <2>2. /\ Printed(vs) \in {"true", "unreach", "unknown"}
        /\ Printed(vs) = "true" => WholeClean
        /\ Printed(vs) = "unreach" => ~WholeClean
    BY PrintedSays
  <2>3. NoVerdictReasons'
    BY <2>1, <2>2 DEF NoVerdictReasons, End
  <2> QED
    BY <2>1, <2>2, <2>3, EndRight
<1> QED
  BY <1>2, <1>3

\* Verdicts that are right about a program.
RightAbout(i, vs) ==
  /\ vs \in Seq(Says3) /\ vs # <<>>
  /\ "CORRECT" \in Kinds(vs) => Clean(programs[i])
  /\ "INCORRECT" \in Kinds(vs) => ~Clean(programs[i])

\* A program is over: with others that are correct, too, the whole input is.
LEMMA ProgramOverRight ==
  ASSUME Inductive, Running, NEW i \in DOMAIN programs, NEW vs, RightAbout(i, vs),
         ProgramOver(i, vs), UNCHANGED <<reduction, config, merging, exported>>,
         proved' \subseteq Path
  PROVE  Inductive'
<1> DEFINE all == Append(gathered, vs[1])
<1>1. vs \in Seq(Says3) /\ vs # <<>> /\ vs[1] \in Says3 /\ vs[1].kind \in Kinds(vs)
  BY PrintedSays DEF RightAbout
<1>2. gathered \in Seq(Says3) /\ programs \in Seq(SUBSET Path) /\ DOMAIN task = DOMAIN programs
  BY DEF Inductive, TypeOK
<1>3. all \in Seq(Says3) /\ all # <<>> /\ Kinds(all) = Kinds(gathered) \cup {vs[1].kind}
  <2>1. all \in Seq(Says3) /\ all # <<>> /\ ToSet(all) = ToSet(gathered) \cup {vs[1]}
    BY <1>1, <1>2, AppendToSet
  <2> HIDE DEF all
  <2> QED
    BY <2>1 DEF Kinds
<1>4. ~Clean(programs[i]) => ~WholeClean
  BY DEF Inductive, Programs, Clean, WholeClean
<1> HIDE DEF all
<1>5. CASE Len(programs) = 1 \/ "INCORRECT" \in Kinds(vs)
  <2>1. BackupsOver(vs)
    BY <1>5 DEF ProgramOver
  <2>2. Kinds(vs) = {"CORRECT"} => WholeClean
    <3>1. ASSUME Kinds(vs) = {"CORRECT"} PROVE Len(programs) = 1 /\ Clean(programs[i])
      BY <1>5, <3>1 DEF RightAbout
    <3>2. ASSUME Len(programs) = 1 PROVE \A j \in DOMAIN programs : j = i
      BY <1>2, <3>2
    <3> QED
      BY <3>1, <3>2, ProgramsCover
  <2> QED
    BY <1>1, <1>4, <2>1, <2>2, BackupsOverRight DEF RightAbout
<1>6. CASE ~(Len(programs) = 1 \/ "INCORRECT" \in Kinds(vs))
  <2>1. "INCORRECT" \notin Kinds(all)
    BY <1>1, <1>3, <1>6 DEF Inductive, Chains
  <2>2. Kinds(all) \subseteq {"CORRECT"} => Kinds(gathered) \subseteq {"CORRECT"} /\ Clean(programs[i])
    <3>1. ASSUME Kinds(all) \subseteq {"CORRECT"} PROVE "CORRECT" \in Kinds(vs)
      <4>1. vs[1].kind \in Kinds(all)
        BY <1>3
      <4> QED
        BY <1>1, <3>1, <4>1
    <3> QED
      BY <1>3, <3>1 DEF RightAbout
  <2>3. CASE \A j \in DOMAIN task \ {i} : task[j] = ChainOver
    <3>1. BackupsOver(all)
      BY <1>6, <2>3 DEF ProgramOver, all
    <3>2. ASSUME Kinds(all) = {"CORRECT"}, NEW j \in DOMAIN programs PROVE Clean(programs[j])
      <4>1. CASE j = i
        BY <2>2, <3>2, <4>1
      <4>2. CASE j # i
        <5>1. task[j] = ChainOver /\ Kinds(gathered) \subseteq {"CORRECT"} /\ ChainRight(j)
          BY <1>2, <2>2, <2>3, <3>2, <4>2 DEF Inductive, Chains
        <5>2. ~ChainRuns(j)
          <6>1. backup \in Seq((SUBSET Verifier) \ {{}})
            BY ChainAssumption DEF Inductive, Reduction
          <6>2. task[j].at = 0 /\ 0 \notin DOMAIN backup
            BY <5>1, <6>1 DEF ChainOver
          <6> QED
            BY <6>2 DEF ChainRuns
        <5> QED
          BY <5>1, <5>2 DEF ChainRight
      <4> QED
        BY <4>1, <4>2
    <3>3. Kinds(all) = {"CORRECT"} => WholeClean
      BY <3>2, ProgramsCover
    <3> QED
      BY <1>3, <2>1, <3>1, <3>3, BackupsOverRight
  <2>4. CASE ~\A j \in DOMAIN task \ {i} : task[j] = ChainOver
    <3>1. /\ gathered' = all /\ task' = [task EXCEPT ![i] = ChainOver]
          /\ UNCHANGED <<stage, outcome, programs>>
      BY <1>6, <2>4 DEF ProgramOver, all
    <3>2. UNCHANGED <<buggy, backup>> /\ ChainStates' = ChainStates
      BY DEF config, ChainStates
    <3>3. ChainOver \in ChainStates
      <4>1. backup \in Seq((SUBSET Verifier) \ {{}})
        BY ChainAssumption DEF Inductive, Reduction
      <4>2. 0 \in 0..Len(backup) /\ <<>> \in Seq(Says3)
        BY <4>1
      <4> QED
        BY <4>2 DEF ChainOver, ChainStates
    <3>4. ASSUME NEW j \in DOMAIN programs PROVE task'[j] \in ChainStates /\ ChainRight(j)'
      <4>1. CASE j = i
        <5>1. task'[j] = ChainOver
          BY <1>2, <3>1, <4>1
        <5> QED
          BY <2>2, <3>1, <3>2, <3>3, <4>1, <5>1 DEF ChainRight, Clean, ChainOver
      <4>2. CASE j # i
        <5>1. task'[j] = task[j] /\ task[j] \in ChainStates /\ ChainRight(j)
          BY <1>2, <3>1, <4>2 DEF Inductive, Chains
        <5> QED
          BY <2>2, <3>1, <3>2, <5>1 DEF ChainRight, ChainRuns, Clean, ChainOver, Kinds
      <4> QED
        BY <4>1, <4>2
    <3>5. Chains'
      BY <2>1, <3>1, <3>2, <3>4 DEF Chains
    <3> QED
      BY <1>2, <1>3, <3>1, <3>5, GoOnRight
  <2> QED
    BY <2>3, <2>4
<1> QED
  BY <1>5, <1>6

\* The chain of one program goes on.
LEMMA ChainGoesOn ==
  ASSUME Inductive, Running, NEW i \in DOMAIN programs, NEW t \in ChainStates,
         task' = [task EXCEPT ![i] = t], t.at \in DOMAIN backup,
         \A v \in ToSet(t.results) :
           v.kind # "INCORRECT" /\ (v.kind = "CORRECT" => Clean(programs[i])),
         UNCHANGED <<reduction, config, merging, exported, stage, outcome, programs, gathered>>,
         proved' \subseteq Path
  PROVE  Inductive'
<1>1. DOMAIN task = DOMAIN programs /\ gathered \in Seq(Says3)
  BY DEF Inductive, TypeOK
<1>2. /\ UNCHANGED <<buggy, backup, programs, gathered>> /\ ChainStates' = ChainStates
      /\ DOMAIN task' = DOMAIN task
  BY DEF config, ChainStates
<1>3. ASSUME NEW j \in DOMAIN programs PROVE task'[j] \in ChainStates /\ ChainRight(j)'
  <2>1. CASE j = i
    <3>1. task'[j] = t
      BY <1>1, <2>1
    <3> QED
      BY <1>2, <2>1, <3>1 DEF ChainRight, ChainRuns, Clean
  <2>2. CASE j # i
    <3>1. task'[j] = task[j] /\ task[j] \in ChainStates /\ ChainRight(j)
      BY <1>1, <2>2 DEF Inductive, Chains
    <3> QED
      BY <1>2, <3>1 DEF ChainRight, ChainRuns, Clean
  <2> QED
    BY <2>1, <2>2
<1>4. Chains'
  BY <1>2, <1>3 DEF Inductive, Chains
<1> QED
  BY <1>1, <1>2, <1>4, GoOnRight

\* The chain of backup verifiers and its elements.
LEMMA BackupTyped ==
  ASSUME Inductive
  PROVE  /\ backup \in Seq((SUBSET Verifier) \ {{}}) /\ Len(backup) \in Nat
         /\ DOMAIN backup = 1..Len(backup)
         /\ \A k \in DOMAIN backup : backup[k] \in (SUBSET Verifier) \ {{}} /\ k \in 0..Len(backup)
<1>1. backup \in Seq((SUBSET Verifier) \ {{}})
  BY ChainAssumption DEF Inductive, Reduction
<1> QED
  BY <1>1

LEMMA NextInChainRight ==
  ASSUME Inductive, Running, NEW i \in DOMAIN programs, NEW at \in DOMAIN backup,
         NextInChain(i, at), UNCHANGED <<reduction, config, merging, exported>>,
         proved' \subseteq Path
  PROVE  Inductive'
<1>1. Chain(at) \in ChainStates /\ Chain(at).at \in DOMAIN backup /\ ToSet(Chain(at).results) = {}
  <2>1. backup[at] \in SUBSET Verifier /\ at \in 0..Len(backup) /\ <<>> \in Seq(Says3)
    BY BackupTyped
  <2>2. ToSet(<<>>) = {}
    BY DEF ToSet
  <2> QED
    BY <2>1, <2>2 DEF Chain, ChainStates
<1> QED
  BY <1>1, ChainGoesOn DEF NextInChain

\* An element of the chain is over.
LEMMA ElementOverRight ==
  ASSUME Inductive, Running, NEW i \in DOMAIN programs, task[i].at \in DOMAIN backup,
         NEW vs, RightAbout(i, vs), ElementOver(i, vs),
         UNCHANGED <<reduction, config, merging, exported>>, proved' \subseteq Path
  PROVE  Inductive'
<1>1. CASE ~Conclusive(vs) /\ task[i].at < Len(backup)
  <2>1. task[i].at + 1 \in DOMAIN backup
    BY <1>1, BackupTyped
  <2>2. NextInChain(i, task[i].at + 1)
    BY <1>1 DEF ElementOver, NextElement
  <2> QED
    BY <2>1, <2>2, NextInChainRight
<1>2. CASE ~(~Conclusive(vs) /\ task[i].at < Len(backup))
  BY <1>2, ProgramOverRight DEF ElementOver
<1> QED
  BY <1>1, <1>2

\* A task that a verifier is waited for.
LEMMA WaitingRuns ==
  ASSUME Inductive, Running, NEW i \in DOMAIN task, task[i].waiting # {}
  PROVE  i \in DOMAIN programs /\ task[i] \in ChainStates /\ ChainRuns(i)
<1>1. i \in DOMAIN programs /\ task[i] \in ChainStates /\ ChainRight(i)
  BY DEF Inductive, TypeOK, Chains
<1>2. task[i] # ChainOver
  BY DEF ChainOver
<1> QED
  BY <1>1, <1>2 DEF ChainRight

\* What verifiers answer is right.
LEMMA AnswerRight ==
  ASSUME Inductive, Running, NEW i \in DOMAIN task, NEW v \in task[i].waiting,
         NEW claim \in Claims(programs[i]), Answer(i, v, claim),
         UNCHANGED <<reduction, config, merging, exported>>, proved' \subseteq Path
  PROVE  Inductive'
<1>1. /\ i \in DOMAIN programs /\ task[i] \in ChainStates /\ task[i].at \in DOMAIN backup
      /\ task[i].results \in Seq(Says3) /\ task[i].waiting \subseteq Verifier
      /\ \A w \in ToSet(task[i].results) :
           w.kind # "INCORRECT" /\ (w.kind = "CORRECT" => Clean(programs[i]))
  BY WaitingRuns DEF ChainStates, ChainRuns
<1>2. /\ claim \in Says3
      /\ claim.kind = "CORRECT" => Clean(programs[i])
      /\ claim.kind = "INCORRECT" => ~Clean(programs[i])
  BY DEF Claims, Says3, Says, AVerdict, Clean
<1> DEFINE results == Append(task[i].results, claim)
<1>3. results \in Seq(Says3) /\ results # <<>> /\ ToSet(results) = ToSet(task[i].results) \cup {claim}
  BY <1>1, <1>2, AppendToSet
<1> HIDE DEF results
<1>4. CASE Alone(i) \/ claim.kind = "INCORRECT" \/ task[i].waiting = {v}
  <2>1. CASE claim.kind = "INCORRECT"
    <3>1. ToSet(<<claim>>) = {claim} /\ <<claim>> \in Seq(Says3) /\ <<claim>> # <<>>
      BY <1>2 DEF ToSet
    <3>2. RightAbout(i, <<claim>>)
      BY <1>2, <2>1, <3>1 DEF RightAbout, Kinds
    <3>3. ElementOver(i, <<claim>>)
      BY <1>4, <2>1 DEF Answer
    <3> QED
      BY <1>1, <3>2, <3>3, ElementOverRight
  <2>2. CASE claim.kind # "INCORRECT"
    <3>1. RightAbout(i, results)
      BY <1>1, <1>2, <1>3, <2>2 DEF RightAbout, Kinds
    <3>2. ElementOver(i, results)
      BY <1>4, <2>2 DEF Answer, results
    <3> QED
      BY <1>1, <3>1, <3>2, ElementOverRight
  <2> QED
    BY <2>1, <2>2
<1>5. CASE ~(Alone(i) \/ claim.kind = "INCORRECT" \/ task[i].waiting = {v})
  <2> DEFINE t == [at |-> task[i].at, waiting |-> task[i].waiting \ {v}, results |-> results]
  <2>1. t \in ChainStates
    BY <1>1, <1>3 DEF ChainStates
  <2>2. /\ task' = [task EXCEPT ![i] =
                       [at |-> @.at, waiting |-> @.waiting \ {v}, results |-> results]]
        /\ UNCHANGED <<stage, outcome, programs, gathered>>
    BY <1>5 DEF Answer, results
  <2>3. task' = [task EXCEPT ![i] = t]
    BY <2>2
  <2>4. \A w \in ToSet(t.results) :
          w.kind # "INCORRECT" /\ (w.kind = "CORRECT" => Clean(programs[i]))
    BY <1>1, <1>2, <1>3, <1>5
  <2>5. t.at \in DOMAIN backup
    BY <1>1
  <2> HIDE DEF t
  <2> QED
    BY <1>1, <2>1, <2>2, <2>3, <2>4, <2>5, ChainGoesOn
<1> QED
  BY <1>4, <1>5

LEMMA VerifierAnswersRight ==
  ASSUME Inductive, VerifierAnswers
  PROVE  Inductive'
<1>1. PICK i \in DOMAIN task : \E v \in task[i].waiting, claim \in Claims(programs[i]) :
        /\ Answer(i, v, claim)
        /\ proved' = IF claim.kind = "CORRECT" THEN proved \cup programs[i] ELSE proved
  BY DEF VerifierAnswers
<1>2. PICK v \in task[i].waiting, claim \in Claims(programs[i]) :
        /\ Answer(i, v, claim)
        /\ proved' = IF claim.kind = "CORRECT" THEN proved \cup programs[i] ELSE proved
  BY <1>1
<1>3. proved' \subseteq Path
  <2>1. programs[i] \subseteq Path /\ proved \subseteq Path
    BY DEF Inductive, TypeOK
  <2> QED
    BY <1>2, <2>1
<1> QED
  BY <1>2, <1>3, AnswerRight DEF VerifierAnswers

\* What fails ends the workflow only with a reason.
LEMMA VerifierFailsRight ==
  ASSUME Inductive, VerifierFails
  PROVE  Inductive'
<1>1. /\ Running /\ failed' = TRUE /\ UNCHANGED <<reduction, config, merging, exported, proved>>
      /\ proved' \subseteq Path
  BY DEF VerifierFails, Inductive, TypeOK
<1>2. PICK i \in DOMAIN task : task[i].waiting # {} /\
        IF ~Alone(i) THEN RaiseNow
        ELSE IF task[i].at < Len(backup) THEN NextInChain(i, NextElement(i))
        ELSE IF Len(programs) > 1 THEN RaiseNow
        ELSE BackupsFailed
  BY DEF VerifierFails
<1>3. i \in DOMAIN programs /\ task[i].at \in DOMAIN backup
  BY <1>1, <1>2, WaitingRuns DEF ChainRuns
<1>4. stage # "over"
  BY <1>1 DEF Running
<1>5. ASSUME RaiseNow, Len(programs) > 1 \/ \E k \in DOMAIN backup : Cardinality(backup[k]) > 1
      PROVE  Inductive'
  <2>1. End("exception", "none") /\ UNCHANGED <<programs, task, gathered>> /\ UNCHANGED backup
    BY <1>1, <1>5 DEF RaiseNow, Raise, config
  <2>2. NoVerdictReasons'
    BY <1>1, <1>5, <2>1 DEF NoVerdictReasons, End
  <2> QED
    BY <1>1, <2>1, <2>2, EndRight
<1>6. CASE ~Alone(i)
  <2> DEFINE c == Cardinality(backup[task[i].at])
  <2>1. IsFiniteSet(backup[task[i].at]) /\ backup[task[i].at] # {}
    <3>1. backup[task[i].at] \in (SUBSET Verifier) \ {{}}
      BY <1>3, BackupTyped
    <3> QED
      <4>1. IsFiniteSet(Verifier) /\ backup[task[i].at] \in SUBSET Verifier
        BY <3>1, ChainAssumption
      <4> QED
        BY <3>1, <4>1, FS_Subset
  <2>2. c \in Nat /\ c # 0 /\ c # 1
    BY <1>6, <2>1, FS_CardinalityType, FS_EmptySet DEF Alone
  <2>3. c > 1
    BY <2>2
  <2> QED
    BY <1>2, <1>3, <1>5, <1>6, <2>3
<1>7. CASE Alone(i) /\ task[i].at < Len(backup)
  <2>1. task[i].at + 1 \in DOMAIN backup
    BY <1>3, <1>7, BackupTyped
  <2>2. NextInChain(i, task[i].at + 1)
    BY <1>2, <1>7 DEF NextElement
  <2> QED
    BY <1>1, <1>3, <2>1, <2>2, NextInChainRight
<1>8. CASE Alone(i) /\ ~(task[i].at < Len(backup)) /\ Len(programs) > 1
  BY <1>2, <1>5, <1>8
<1>9. CASE Alone(i) /\ ~(task[i].at < Len(backup)) /\ ~(Len(programs) > 1)
  <2>1. BackupsFailed
    BY <1>2, <1>9
  <2>2. CASE stage = "residuals"
    BY <1>1, <1>4, <2>1, <2>2, BackupOnWholeRight DEF BackupsFailed
  <2>3. CASE stage = "whole"
    <3>1. End("result", "none") /\ UNCHANGED <<programs, task, gathered>>
      BY <2>1, <2>3 DEF BackupsFailed, ProcessError
    <3>2. programs = <<Paths[Whole]>>
      BY <2>3 DEF Inductive, Programs
    <3>3. Paths' = Paths /\ NoVerdictReasons'
      BY <1>1, <3>1, <3>2 DEF NoVerdictReasons, End
    <3> QED
      BY <1>1, <3>1, <3>3, EndRight
  <2> QED
    BY <1>1, <2>2, <2>3 DEF Running
<1> QED
  BY <1>6, <1>7, <1>8, <1>9

-----------------------------------------------------------------------------
(* Splitting *)

LEMMA SplittingRight ==
  ASSUME Inductive, Splitting
  PROVE  Inductive'
<1> USE DEF Inductive
<1>1. /\ stage = "split" /\ stage' = stage
      /\ UNCHANGED <<buggy, backup, merge, worklist, merged, exported, programs, task, gathered,
                     ended, printed, found, proved, failed>>
  BY DEF Splitting, config, merging, outcome, history
<1>2. Reduction'
  <2>1. ASSUME NEW u \in Unit, Splitter!Verify(u), Paths[u] \cap buggy = {} PROVE Reduction'
    BY <1>1, <2>1 DEF Splitter!Verify, Reduction, Executions, Clean, WholeClean
  <2>2. ASSUME NEW u \in Unit, Splitter!Split(u) PROVE Reduction'
    <3>1. /\ u \in frontier \cap Halved /\ frontier' = (frontier \ {u}) \cup {Left[u], Right[u]}
          /\ answer = "none" /\ UNCHANGED <<verified, refuted, answer, residuals, done>>
      BY <2>2 DEF Splitter!Split
    <3>2. /\ Left[u] \in Unit /\ Right[u] \in Unit /\ Paths[u] = Paths[Left[u]] \cup Paths[Right[u]]
          /\ Whole \in Unit
      BY <3>1, TreeAssumption
    <3>3. Left[u] \in Below[Whole] /\ Right[u] \in Below[Whole]
      BY <3>1, <3>2, BelowLeast DEF Reduction, ClosedBelow
    <3>4. Executions(frontier \cup verified) \subseteq Executions(frontier' \cup verified')
      BY <3>1, <3>2 DEF Executions
    <3>5. frontier' \in SUBSET Unit /\ frontier' \subseteq Below[Whole]
      BY <3>1, <3>2, <3>3 DEF Reduction
    <3> QED
      BY <1>1, <3>1, <3>4, <3>5 DEF Reduction, Clean, WholeClean, Executions
  <2>3. ASSUME Splitter!Refute, NEW u \in frontier, Paths[u] \cap buggy # {} PROVE Reduction'
    <3>1. Paths[u] \subseteq Paths[Whole]
      BY BelowPaths, TreeAssumption DEF Reduction
    <3>2. ~WholeClean
      BY <2>3, <3>1 DEF WholeClean, Clean
    <3> QED
      BY <1>1, <2>3, <3>2 DEF Splitter!Refute, Reduction, Clean, WholeClean, Executions
  <2>4. ASSUME Splitter!Report PROVE Reduction'
    BY <1>1, <2>4 DEF Splitter!Report, Reduction, Clean, WholeClean, Executions
  <2> QED
    BY <2>1, <2>2, <2>3, <2>4 DEF Splitting
<1>3. TypeOK'
  BY <1>1 DEF TypeOK
<1>4. Merging' /\ Programs' /\ Chains' /\ AtEnd' /\ MergeIsTight'
  BY <1>1 DEF Merging, Programs, Chains, Running, AtEnd, MergeIsTight
<1>5. VerdictIsRight' /\ NoVerdictReasons'
  BY <1>1 DEF VerdictIsRight, NoVerdictReasons, AtEnd
<1> QED
  BY <1>2, <1>3, <1>4, <1>5

\* An order of a finite set has all of it.
LEMMA OrderOfSet ==
  ASSUME NEW S, IsFiniteSet(S), NEW order \in SetToSeqs(S)
  PROVE  /\ order \in Seq(S) /\ ToSet(order) = S /\ Len(order) = Cardinality(S)
         /\ DOMAIN order = 1..Len(order)
<1> DEFINE n == Cardinality(S)
<1>1. n \in Nat
  BY FS_CardinalityType
<1>2. order \in [1..n -> S] /\ \A i, j \in 1..n : i # j => order[i] # order[j]
  BY DEF SetToSeqs
<1>3. order \in Injection(1..n, S)
  BY <1>2 DEF Injection, IsInjective
<1>4. Cardinality(1..n) = n
  BY <1>1, FS_Interval
<1>5. order \in Surjection(1..n, S)
  BY <1>3, <1>4, FS_Injection
<1>6. \A s \in S : \E i \in 1..n : order[i] = s
  BY <1>5 DEF Surjection
<1>7. order \in Seq(S) /\ Len(order) = n /\ DOMAIN order = 1..n
  BY <1>1, <1>2
<1>8. ToSet(order) = S
  BY <1>2, <1>6, <1>7 DEF ToSet
<1> QED
  BY <1>7, <1>8

\* What is left when splitting is over.
LEMMA ResidualsRight ==
  ASSUME Inductive, answer = "reduced"
  PROVE  /\ residuals \in SUBSET Unit /\ IsFiniteSet(residuals) /\ residuals \subseteq Below[Whole]
         /\ \A u \in residuals : Paths[u] \subseteq Paths[Whole]
<1>1. residuals \in SUBSET Unit /\ residuals \subseteq Below[Whole]
  BY DEF Inductive, Reduction
<1>2. IsFiniteSet(residuals)
  BY <1>1, TreeAssumption, FS_Subset
<1> QED
  BY <1>1, <1>2, BelowPaths, TreeAssumption

\* The backup verifiers start on what is left.
LEMMA ResidualsStart ==
  ASSUME Inductive, stage \in {"split", "merge"}, answer = "reduced", residuals # {},
         NEW progs \in Seq(SUBSET Path), progs # <<>>,
         \A i \in DOMAIN progs : progs[i] \subseteq Paths[Whole],
         Executions(residuals) \subseteq UNION ToSet(progs),
         \A u \in Unit : residuals \subseteq Below[u] => UNION ToSet(progs) \subseteq Paths[u],
         Residuals(progs), UNCHANGED <<reduction, config, merging>>
  PROVE  Inductive'
<1>1. /\ Start("residuals", progs) /\ programs' = progs /\ residuals' = residuals
      /\ exported' = IF Len(progs) = 1 THEN progs ELSE <<>>
      /\ proved' = proved
  BY DEF Residuals, Start, history, reduction, Inductive, Programs
<1>2. MergeIsTight'
  BY <1>1 DEF MergeIsTight, Executions
<1>3. exported' \in Seq(SUBSET Path) /\ Len(exported') <= 1 /\ proved' \subseteq Path
  <2>1. <<>> \in Seq(SUBSET Path) /\ Len(<<>>) = 0
    OBVIOUS
  <2> QED
    BY <1>1, <2>1 DEF Inductive, TypeOK
<1> QED
  BY <1>1, <1>2, <1>3, StartRight

LEMMA SplittingOverRight ==
  ASSUME Inductive, SplittingOver
  PROVE  Inductive'
<1>1. /\ stage = "split" /\ stage # "over" /\ answer \in {"bug", "reduced", "error"}
      /\ UNCHANGED <<reduction, config>> /\ proved \subseteq Path
  BY DEF SplittingOver, Inductive, TypeOK, Reduction
<1>2. CASE answer = "error"
  <2>1. BackupOnWhole /\ UNCHANGED <<merging, exported, history>>
    BY <1>2 DEF SplittingOver
  <2> QED
    BY <1>1, <2>1, BackupOnWholeRight DEF history
<1>3. ASSUME NEW kind \in {"CORRECT", "INCORRECT"}, ProcessResult(<<Says(kind)>>),
             UNCHANGED <<merging, exported, programs, task, gathered, history>>,
             kind = "CORRECT" => WholeClean, kind = "INCORRECT" => ~WholeClean
      PROVE  Inductive'
  <2> DEFINE vs == <<Says(kind)>>
  <2>1. vs \in Seq(Says3) /\ vs # <<>> /\ Kinds(vs) = {kind}
    <3>1. Says(kind) \in Says3 /\ Says(kind).kind = kind
      BY DEF Says3, Says, AVerdict
    <3>2. ToSet(vs) = {Says(kind)}
      BY DEF ToSet
    <3> QED
      BY <3>1, <3>2 DEF Kinds
  <2>2. /\ Printed(vs) \in {"true", "unreach", "unknown"}
        /\ Printed(vs) = "true" => WholeClean
        /\ Printed(vs) = "unreach" => ~WholeClean
    BY <1>3, <2>1, PrintedSays
  <2>3. End("result", Printed(vs)) /\ proved' \subseteq Path
    BY <1>1, <1>3 DEF ProcessResult, history
  <2>4. NoVerdictReasons'
    BY <2>2, <2>3 DEF NoVerdictReasons, End
  <2> QED
    BY <1>1, <1>3, <2>2, <2>3, <2>4, EndRight
<1>4. CASE answer = "bug"
  <2>1. ~WholeClean
    BY <1>4 DEF Inductive, Reduction
  <2>2. /\ ProcessResult(<<Says("INCORRECT")>>)
        /\ UNCHANGED <<merging, exported, programs, task, gathered, history>>
    BY <1>4 DEF SplittingOver
  <2> QED
    BY <1>3, <2>1, <2>2
<1>5. CASE answer = "reduced" /\ residuals = {}
  <2>1. WholeClean
    BY <1>5 DEF Inductive, Reduction, Executions, WholeClean, Clean
  <2>2. /\ ProcessResult(<<Says("CORRECT")>>)
        /\ UNCHANGED <<merging, exported, programs, task, gathered, history>>
    <3>1. ~(Cardinality(residuals) > 1)
      BY <1>5, FS_EmptySet
    <3> QED
      BY <1>5, <3>1 DEF SplittingOver
  <2> QED
    BY <1>3, <2>1, <2>2
<1>6. CASE answer = "reduced" /\ residuals # {} /\ merge = "cpa" /\ Cardinality(residuals) > 1
  <2> USE DEF Inductive
  <2>1. /\ stage' = "merge" /\ worklist' \in SetToSeqs(residuals)
        /\ merged' = [u \in residuals |-> Paths[u]]
        /\ UNCHANGED <<exported, programs, task, gathered, ended, printed, found, proved, failed>>
        /\ UNCHANGED <<frontier, verified, refuted, answer, residuals, done, buggy, backup, merge>>
    BY <1>6 DEF SplittingOver, outcome, history, reduction, config
  <2>2. /\ residuals \in SUBSET Unit /\ residuals \subseteq Below[Whole]
        /\ worklist' \in Seq(residuals) /\ ToSet(worklist') = residuals
    BY <1>6, <2>1, ResidualsRight, OrderOfSet
  <2>3. TypeOK'
    <3>1. worklist' \in Seq(Unit)
      BY <2>2
    <3>2. DOMAIN merged' \subseteq Unit /\ \A u \in DOMAIN merged' : merged'[u] \subseteq Path
      BY <2>1, <2>2, TreeAssumption
    <3> QED
      BY <2>1, <3>1, <3>2 DEF TypeOK
  <2>4. ASSUME NEW n \in residuals PROVE Merges1(n)' /\ (n # Whole => Waits(n)')
    <3>1. n \in residuals \cap Below[n] /\ merged'[n] = Paths[n] /\ n \in Below[Whole]
      BY <2>1, <2>2, BelowLeast
    <3>2. \A u \in residuals \cap Below[n] : Paths[u] \subseteq Paths[n]
      BY <2>2, BelowPaths
    <3>3. \A u \in Unit : n \in Below[u] => Paths[n] \subseteq Paths[u]
      BY BelowPaths
    <3>4. Merges1(n)'
      BY <2>1, <3>1, <3>2, <3>3 DEF Merges1, Executions
    <3>5. ASSUME n # Whole PROVE Waits(n)'
      <4>1. n \in Halves(Parent(n))
        BY <3>1, <3>5, BelowWhole
      <4>2. n \in Children(Parent(n))'
        BY <2>1, <3>1, <4>1 DEF Children, Halves
      <4> QED
        BY <2>2, <4>2 DEF Waits
    <3> QED
      BY <3>4, <3>5
  <2>5. Merging'
    BY <1>6, <2>1, <2>2, <2>4 DEF Merging
  <2>6. Reduction'
    BY <2>1 DEF Reduction, Executions, Clean, WholeClean
  <2>7. Programs' /\ Chains' /\ AtEnd' /\ MergeIsTight' /\ VerdictIsRight' /\ NoVerdictReasons'
    BY <1>1, <2>1 DEF Programs, Chains, Running, AtEnd, MergeIsTight, VerdictIsRight, NoVerdictReasons
  <2> QED
    BY <2>3, <2>5, <2>6, <2>7
<1>7. CASE answer = "reduced" /\ residuals # {} /\ ~(merge = "cpa" /\ Cardinality(residuals) > 1)
  <2>1. /\ \E order \in SetToSeqs(residuals) : Residuals([i \in DOMAIN order |-> Paths[order[i]]])
        /\ UNCHANGED merging
    BY <1>7 DEF SplittingOver
  <2>2. PICK order \in SetToSeqs(residuals) : Residuals([i \in DOMAIN order |-> Paths[order[i]]])
    BY <2>1
  <2> DEFINE progs == [i \in DOMAIN order |-> Paths[order[i]]]
  <2>3. /\ residuals \in SUBSET Unit /\ order \in Seq(residuals) /\ ToSet(order) = residuals
        /\ \A u \in residuals : Paths[u] \subseteq Paths[Whole] /\ Paths[u] \in SUBSET Path
        /\ DOMAIN order = 1..Len(order) /\ Len(order) \in Nat
    BY <1>7, ResidualsRight, OrderOfSet, TreeAssumption
  <2>4. \A i \in DOMAIN order : order[i] \in residuals
    BY <2>3
  <2>5. progs \in [1..Len(order) -> SUBSET Path] /\ progs \in Seq(SUBSET Path)
        /\ DOMAIN progs = DOMAIN order
    BY <2>3, <2>4
  <2>6. progs # <<>>
    <3>1. DOMAIN progs # {}
      BY <1>7, <2>3, <2>5 DEF ToSet
    <3> QED
      BY <3>1
  <2>7. UNION ToSet(progs) = Executions(residuals)
    BY <2>3, <2>4, <2>5 DEF ToSet, Executions
  <2>8. \A i \in DOMAIN progs : progs[i] \subseteq Paths[Whole]
    BY <2>3, <2>4
  <2>9. \A u \in Unit : residuals \subseteq Below[u] => Executions(residuals) \subseteq Paths[u]
    BY <2>3, BelowPaths DEF Executions
  <2> HIDE DEF progs
  <2>10. Residuals(progs)
    BY <2>2 DEF progs
  <2> QED
    BY <1>1, <1>7, <2>1, <2>5, <2>6, <2>7, <2>8, <2>9, <2>10, ResidualsStart
<1> QED
  BY <1>1, <1>2, <1>4, <1>5, <1>6, <1>7

-----------------------------------------------------------------------------
(* Merging *)

\* A list that is not empty is its head and the rest.
LEMMA HeadAndTail ==
  ASSUME NEW S, NEW s \in Seq(S), s # <<>>
  PROVE  /\ Head(s) \in ToSet(s) /\ Head(s) \in S /\ Tail(s) \in Seq(S)
         /\ ToSet(s) = {Head(s)} \cup ToSet(Tail(s))
<1>1. /\ Head(s) = s[1] /\ 1 \in DOMAIN s /\ Tail(s) \in Seq(S)
      /\ DOMAIN s = 1..Len(s) /\ Len(s) \in Nat /\ DOMAIN Tail(s) = 1..(Len(s) - 1)
      /\ \A k \in 1..(Len(s) - 1) : Tail(s)[k] = s[k + 1]
  OBVIOUS
<1>2. \A k \in DOMAIN s : k = 1 \/ (k - 1 \in DOMAIN Tail(s) /\ s[k] = Tail(s)[k - 1])
  BY <1>1
<1>3. \A k \in DOMAIN Tail(s) : k + 1 \in DOMAIN s /\ Tail(s)[k] = s[k + 1]
  BY <1>1
<1>4. ToSet(s) \subseteq {Head(s)} \cup ToSet(Tail(s))
  BY <1>1, <1>2 DEF ToSet
<1>5. {Head(s)} \cup ToSet(Tail(s)) \subseteq ToSet(s)
  BY <1>1, <1>3 DEF ToSet
<1>6. Head(s) \in S
  BY <1>1
<1> QED
  BY <1>1, <1>4, <1>5, <1>6

\* A child of a program is a half with something left below it.
LEMMA ChildOf ==
  ASSUME NEW p \in Halved, NEW c \in Children(p)
  PROVE  /\ c \in Halves(p) /\ c \in Unit /\ c \in Below[p] /\ Parent(c) = p /\ c # Whole
         /\ residuals \cap Below[c] # {}
<1>1. c \in Halves(p) /\ residuals \cap Below[c] # {}
  BY DEF Children, Halves
<1>2. c \in Unit /\ Parent(c) = p /\ c # Whole
  BY <1>1, ParentProperty, TreeAssumption DEF Halves
<1>3. c \in Below[p]
  BY <1>1, BelowUnfold, TreeAssumption DEF Halves
<1> QED
  BY <1>1, <1>2, <1>3

\* A program with two children is below everything that has all that is left
\* below it.
LEMMA TwoChildren ==
  ASSUME NEW p \in Halved \cap Below[Whole], Cardinality(Children(p)) = 2,
         NEW u \in Unit, residuals \cap Below[p] \subseteq Below[u]
  PROVE  p \in Below[u]
<1>1. Left[p] \in Unit /\ Right[p] \in Unit /\ Whole \in Unit /\ p \in Unit
  BY TreeAssumption
<1>2. Left[p] \in Children(p) /\ Right[p] \in Children(p)
  <2>1. \A x : Children(p) \subseteq {x} => Cardinality(Children(p)) \in {0, 1}
    <3>1. ASSUME NEW x, Children(p) \subseteq {x} PROVE Cardinality(Children(p)) \in {0, 1}
      <4>1. Children(p) = {} \/ Children(p) = {x}
        BY <3>1
      <4> QED
        BY <4>1, FS_EmptySet, FS_Singleton
    <3> QED
      BY <3>1
  <2>2. Children(p) \subseteq {Left[p], Right[p]}
    BY DEF Children
  <2>3. ~(Children(p) \subseteq {Left[p]}) /\ ~(Children(p) \subseteq {Right[p]})
    BY <2>1
  <2> QED
    BY <2>2, <2>3
<1>3. PICK l \in residuals : l \in Below[Left[p]]
  BY <1>2 DEF Children
<1>4. PICK r \in residuals : r \in Below[Right[p]]
  BY <1>2 DEF Children
<1>5. Below[p] = {p} \cup Below[Left[p]] \cup Below[Right[p]] /\ Below[p] \subseteq Below[Whole]
  BY <1>1, BelowUnfold, BelowTransitive
<1>6. l \in Below[u] /\ r \in Below[u] /\ l \in Below[Whole]
  BY <1>3, <1>4, <1>5
<1>7. r \notin Below[Left[p]]
  BY <1>4, HalvesDisjoint
<1>8. u \notin Below[Left[p]]
  BY <1>1, <1>6, <1>7, BelowTransitive
<1>9. Left[p] \in Below[u]
  BY <1>1, <1>3, <1>6, <1>8, Comparable
<1>10. u # Left[p]
  BY <1>6, <1>7
<1> QED
  BY <1>9, <1>10, BelowParent DEF Halves

\* What is merged for a program from what is merged for its children.
LEMMA MergeFnRight ==
  ASSUME Inductive, stage = "merge", NEW p \in Halved \cap Below[Whole],
         p \notin DOMAIN merged, Ready(p), Children(p) # {}, NEW m \in MergeFn(p)
  PROVE  LET rest == residuals \cap Below[p] IN
           /\ rest # {} /\ m \subseteq Path
           /\ Executions(rest) \subseteq m
           /\ \A u \in Unit : rest \subseteq Below[u] => m \subseteq Paths[u]
<1> DEFINE rest == residuals \cap Below[p]
           union == UNION {merged[c] : c \in Children(p)}
<1>1. /\ p \in Unit /\ residuals \subseteq DOMAIN merged /\ DOMAIN merged \subseteq Unit
      /\ \A n \in DOMAIN merged : Merges1(n) /\ merged[n] \subseteq Path
  BY TreeAssumption DEF Inductive, Merging, TypeOK
<1>2. \A c \in Children(p) : /\ c \in DOMAIN merged /\ Merges1(c)
                             /\ Below[c] \subseteq Below[p] /\ residuals \cap Below[c] # {}
  BY <1>1, ChildOf, BelowTransitive DEF Ready
<1>3. rest # {}
  BY <1>2
<1>4. \A r \in rest : \E c \in Children(p) : r \in Below[c]
  <2>1. Below[p] = {p} \cup Below[Left[p]] \cup Below[Right[p]] /\ p \notin rest
    BY <1>1, BelowUnfold
  <2> QED
    BY <2>1 DEF Children
<1>5. Executions(rest) \subseteq union
  <2>1. ASSUME NEW r \in rest PROVE Paths[r] \subseteq union
    <3>1. PICK c \in Children(p) : r \in residuals \cap Below[c]
      BY <1>4
    <3>2. Paths[r] \subseteq merged[c]
      BY <1>2, <3>1 DEF Merges1, Executions
    <3> QED
      BY <3>1, <3>2
  <2> QED
    BY <2>1 DEF Executions
<1>6. ASSUME NEW u \in Unit, rest \subseteq Below[u] PROVE union \subseteq Paths[u]
  <2>1. ASSUME NEW c \in Children(p) PROVE merged[c] \subseteq Paths[u]
    <3>1. residuals \cap Below[c] \subseteq Below[u]
      BY <1>2, <1>6
    <3> QED
      BY <1>2, <3>1 DEF Merges1
  <2> QED
    BY <2>1
<1>7. union \subseteq Path
  BY <1>1, <1>2
<1>8. Executions(rest) \subseteq Paths[p] /\ Paths[p] \subseteq Path
  BY <1>1, BelowPaths, TreeAssumption DEF Executions
<1>9. m = union \/ (Cardinality(Children(p)) = 2 /\ m = Paths[p])
  BY DEF MergeFn
<1>10. CASE m = union
  BY <1>3, <1>5, <1>6, <1>7, <1>10
<1>11. CASE Cardinality(Children(p)) = 2 /\ m = Paths[p]
  <2>1. \A u \in Unit : rest \subseteq Below[u] => Paths[p] \subseteq Paths[u]
    BY <1>11, TwoChildren, BelowPaths
  <2> QED
    BY <1>3, <1>8, <1>11, <2>1
<1> QED
  BY <1>9, <1>10, <1>11

LEMMA MergeStepRight ==
  ASSUME Inductive, MergeStep
  PROVE  Inductive'
<1> USE DEF Inductive
<1>1. /\ stage = "merge" /\ stage' = stage /\ worklist \in Seq(Unit) /\ worklist # <<>>
      /\ UNCHANGED <<frontier, verified, refuted, answer, residuals, done, buggy, backup, merge,
                     exported, programs, task, gathered, ended, printed, found, proved, failed>>
  BY DEF MergeStep, TypeOK, reduction, config, outcome, history
<1>2. PICK node, p : node = Head(worklist) /\ p = Parent(node)
  OBVIOUS
<1>3. /\ node \in ToSet(worklist) /\ node \in Unit /\ Tail(worklist) \in Seq(Unit)
      /\ ToSet(worklist) = {node} \cup ToSet(Tail(worklist))
  BY <1>1, <1>2, HeadAndTail
<1>4. /\ answer = "reduced" /\ residuals # {} /\ residuals \subseteq DOMAIN merged
      /\ DOMAIN merged \subseteq Below[Whole] /\ DOMAIN merged \subseteq Unit
      /\ ToSet(worklist) \subseteq DOMAIN merged /\ node \in DOMAIN merged
      /\ \A n \in DOMAIN merged : Merges1(n) /\ (n # Whole => Waits(n))
  BY <1>1, <1>3 DEF Merging, TypeOK
<1>5. ASSUME NEW n \in DOMAIN merged, n # Whole, Parent(n) \notin DOMAIN merged,
             NEW c \in Children(Parent(n))
      PROVE  Parent(c) = Parent(n) /\ c # Whole
  BY <1>4, <1>5, BelowWhole, ChildOf
<1>6. ASSUME TypeOK', Merging' PROVE Inductive'
  <2>1. Reduction'
    BY <1>1 DEF Reduction, Executions, Clean, WholeClean
  <2>2. Programs' /\ Chains' /\ AtEnd' /\ MergeIsTight' /\ VerdictIsRight' /\ NoVerdictReasons'
    BY <1>1 DEF Programs, Chains, Running, AtEnd, MergeIsTight, VerdictIsRight, NoVerdictReasons
  <2> QED
    BY <1>6, <2>1, <2>2
<1>7. CASE node = Whole \/ p \in DOMAIN merged \/ ~Ready(p)
  <2>1. worklist' = Tail(worklist) /\ merged' = merged
    BY <1>2, <1>7 DEF MergeStep
  <2>2. ASSUME NEW n \in DOMAIN merged, n # Whole PROVE Waits(n)'
    <3>1. CASE Parent(n) \in DOMAIN merged
      BY <2>1, <3>1 DEF Waits
    <3>2. CASE Parent(n) \notin DOMAIN merged
      <4>1. PICK c \in Children(Parent(n)) : c \notin DOMAIN merged \/ c \in ToSet(worklist)
        BY <1>4, <2>2, <3>2 DEF Waits
      <4>2. CASE c = node
        <5>1. ~Ready(Parent(n))
          BY <1>2, <1>5, <1>7, <2>2, <3>2, <4>2
        <5>2. \E d \in Children(Parent(n)) : d \notin DOMAIN merged
          BY <5>1 DEF Ready
        <5> QED
          BY <1>1, <2>1, <5>2 DEF Waits, Children
      <4>3. CASE c # node
        <5>1. c \notin DOMAIN merged' \/ c \in ToSet(worklist')
          BY <1>3, <2>1, <4>1, <4>3
        <5> QED
          BY <1>1, <5>1 DEF Waits, Children
      <4> QED
        BY <4>2, <4>3
    <3> QED
      BY <3>1, <3>2
  <2>3. \A n \in DOMAIN merged : Merges1(n)'
    BY <1>1, <1>4, <2>1 DEF Merges1, Executions
  <2>4. Merging'
    BY <1>1, <1>3, <1>4, <2>1, <2>2, <2>3 DEF Merging
  <2>5. TypeOK'
    BY <1>1, <1>3, <2>1 DEF TypeOK
  <2> QED
    BY <1>6, <2>4, <2>5
<1>8. CASE ~(node = Whole \/ p \in DOMAIN merged \/ ~Ready(p))
  <2>1. PICK m \in MergeFn(p) :
          merged' = [u \in DOMAIN merged \cup {p} |-> IF u = p THEN m ELSE merged[u]]
    BY <1>2, <1>8 DEF MergeStep
  <2>2. worklist' = Append(Tail(worklist), p)
    BY <1>2, <1>8 DEF MergeStep
  <2>3. p \in Halved \cap Below[Whole] /\ p \in Unit /\ node \in Halves(p)
    BY <1>2, <1>4, <1>8, BelowWhole
  <2>4. node \in Children(p)
    BY <1>4, <2>3 DEF Children, Halves, Merges1
  <2>5. LET rest == residuals \cap Below[p] IN
          /\ rest # {} /\ m \subseteq Path
          /\ Executions(rest) \subseteq m
          /\ \A u \in Unit : rest \subseteq Below[u] => m \subseteq Paths[u]
    BY <1>1, <1>8, <2>3, <2>4, MergeFnRight
  <2>6. worklist' \in Seq(Unit) /\ ToSet(worklist') = ToSet(Tail(worklist)) \cup {p}
    <3>1. ASSUME NEW t \in Seq(Unit), worklist' = Append(t, p)
          PROVE  worklist' \in Seq(Unit) /\ ToSet(worklist') = ToSet(t) \cup {p}
      BY <2>3, <3>1, AppendToSet
    <3> QED
      BY <1>3, <2>2, <3>1
  <2>7. /\ DOMAIN merged' = DOMAIN merged \cup {p} /\ merged'[p] = m
        /\ \A n \in DOMAIN merged : merged'[n] = merged[n]
    BY <1>8, <2>1
  <2>8. Merges1(p)'
    BY <1>1, <2>5, <2>7 DEF Merges1, Executions
  <2>9. \A n \in DOMAIN merged : Merges1(n)'
    BY <1>1, <1>4, <2>7 DEF Merges1, Executions
  <2>10. ASSUME p # Whole PROVE Waits(p)'
    <3>1. p \in Halves(Parent(p))
      BY <2>3, <2>10, BelowWhole
    <3>2. p \in Children(Parent(p))'
      BY <1>1, <2>5, <3>1 DEF Children, Halves
    <3> QED
      BY <2>6, <3>2 DEF Waits
  <2>11. ASSUME NEW n \in DOMAIN merged, n # Whole PROVE Waits(n)'
    <3>1. CASE Parent(n) \in DOMAIN merged
      BY <2>7, <3>1 DEF Waits
    <3>2. CASE Parent(n) \notin DOMAIN merged
      <4>1. PICK c \in Children(Parent(n)) : c \notin DOMAIN merged \/ c \in ToSet(worklist)
        BY <1>4, <2>11, <3>2 DEF Waits
      <4>2. CASE c = node
        <5>1. Parent(n) = p
          BY <1>2, <1>5, <2>11, <3>2, <4>2
        <5> QED
          BY <2>7, <5>1 DEF Waits
      <4>3. CASE c # node
        <5>1. c \notin DOMAIN merged' \/ c \in ToSet(worklist')
          BY <1>3, <2>6, <2>7, <4>1, <4>3
        <5> QED
          BY <1>1, <5>1 DEF Waits, Children
      <4> QED
        BY <4>2, <4>3
    <3> QED
      BY <3>1, <3>2
  <2>12. Merging'
    <3>1. ToSet(worklist') \subseteq DOMAIN merged' /\ DOMAIN merged' \subseteq Below[Whole]
      BY <1>3, <1>4, <2>3, <2>6, <2>7
    <3> QED
      BY <1>1, <1>4, <2>7, <2>8, <2>9, <2>10, <2>11, <3>1 DEF Merging
  <2>13. TypeOK'
    <3>1. DOMAIN merged' \subseteq Unit /\ \A u \in DOMAIN merged' : merged'[u] \subseteq Path
      BY <1>4, <2>3, <2>5, <2>7 DEF TypeOK
    <3> QED
      BY <1>1, <2>6, <3>1 DEF TypeOK
  <2> QED
    BY <1>6, <2>12, <2>13
<1> QED
  BY <1>7, <1>8

\* When nothing is left to merge, the root of the tree is merged.
LEMMA RootIsMerged ==
  ASSUME Inductive, stage = "merge", worklist = <<>>
  PROVE  Whole \in DOMAIN merged
<1>1. SUFFICES ASSUME Whole \notin DOMAIN merged PROVE FALSE
  OBVIOUS
<1>2. /\ residuals # {} /\ residuals \subseteq DOMAIN merged /\ DOMAIN merged \subseteq Below[Whole]
      /\ \A n \in DOMAIN merged : Waits(n)
      /\ Whole \in Unit /\ IsFiniteSet(Unit)
  BY <1>1, TreeAssumption DEF Inductive, Merging
<1> DEFINE U == {u \in Below[Whole] : residuals \cap Below[u] # {} /\ u \notin DOMAIN merged}
           T == {Below[u] : u \in U}
<1>3. Whole \in U /\ U \subseteq Unit
  BY <1>1, <1>2, BelowLeast
<1>4. T # {} /\ T \subseteq FiniteSubsetsOf(Unit)
  <2>1. \A u \in U : Below[u] \in SUBSET Unit
    BY <1>3, BelowLeast
  <2> QED
    BY <1>2, <1>3, <2>1, FS_FiniteSubsetsOfFinite
<1>5. \E B \in T : \A C \in T : ~(<<C, B>> \in StrictSubsetOrdering(Unit))
  BY <1>4, FS_StrictSubsetOrderingWellFounded, WFMin
<1>6. PICK u \in U : \A v \in U : ~(<<Below[v], Below[u]>> \in StrictSubsetOrdering(Unit))
  BY <1>5
<1>7. u \in Unit /\ u \in Below[Whole] /\ residuals \cap Below[u] # {} /\ u \notin DOMAIN merged
  BY <1>3
<1>8. u \in Halved
  BY <1>2, <1>7, BelowUnfold
<1>9. ASSUME NEW c \in Children(u) PROVE c \in DOMAIN merged
  <2>1. SUFFICES ASSUME c \notin DOMAIN merged PROVE FALSE
    OBVIOUS
  <2>2. /\ c \in Unit /\ c \in Below[u] /\ residuals \cap Below[c] # {} /\ c \in {Left[u], Right[u]}
        /\ Below[c] \subseteq Below[u]
    BY <1>7, <1>8, ChildOf, BelowTransitive DEF Halves
  <2>3. c \in U
    BY <1>2, <1>7, <2>1, <2>2, BelowTransitive
  <2>4. u \notin Below[c] /\ u \in Below[u]
    BY <1>7, <1>8, <2>2, HalvesDisjoint, BelowLeast
  <2>5. Below[c] \in SUBSET Unit /\ Below[u] \in SUBSET Unit
    BY <1>7, <2>2, BelowLeast
  <2>6. <<Below[c], Below[u]>> \in StrictSubsetOrdering(Unit)
    BY <2>2, <2>4, <2>5 DEF StrictSubsetOrdering
  <2> QED
    BY <1>6, <2>3, <2>6
<1>10. PICK c : c \in Children(u)
  <2>1. Below[u] = {u} \cup Below[Left[u]] \cup Below[Right[u]]
    BY <1>7, <1>8, BelowUnfold
  <2>2. \E r \in residuals : r \in Below[Left[u]] \/ r \in Below[Right[u]]
    BY <1>2, <1>7, <2>1
  <2> QED
    BY <2>2 DEF Children
<1>11. Parent(c) = u /\ Waits(c)
  BY <1>2, <1>8, <1>9, <1>10, ChildOf
<1>12. ToSet(worklist) = {}
  BY DEF ToSet
<1> QED
  BY <1>7, <1>9, <1>11, <1>12 DEF Waits

\* The merged program is what the backup verifiers run on.
LEMMA MergedRight ==
  ASSUME Inductive, Merged
  PROVE  Inductive'
<1>1. /\ stage = "merge" /\ worklist = <<>> /\ Whole \in DOMAIN merged
      /\ Residuals(<<merged[Whole]>>) /\ UNCHANGED <<reduction, config, merging>>
  BY RootIsMerged DEF Merged
<1>2. /\ answer = "reduced" /\ residuals # {} /\ residuals \subseteq Below[Whole]
      /\ Merges1(Whole) /\ merged[Whole] \subseteq Path /\ Whole \in Unit
  BY <1>1, TreeAssumption DEF Inductive, Merging, Reduction, TypeOK
<1>3. residuals \cap Below[Whole] = residuals
  BY <1>2
<1>4. /\ Executions(residuals) \subseteq merged[Whole]
      /\ \A u \in Unit : residuals \subseteq Below[u] => merged[Whole] \subseteq Paths[u]
  BY <1>2, <1>3 DEF Merges1
<1> DEFINE progs == <<merged[Whole]>>
<1>5. /\ progs \in Seq(SUBSET Path) /\ progs # <<>> /\ UNION ToSet(progs) = merged[Whole]
      /\ \A i \in DOMAIN progs : progs[i] \subseteq Paths[Whole]
  <2>1. progs \in Seq(SUBSET Path) /\ progs # <<>> /\ \A i \in DOMAIN progs : progs[i] = merged[Whole]
    BY <1>2
  <2>2. ToSet(progs) = {merged[Whole]}
    BY DEF ToSet
  <2> QED
    BY <1>2, <1>4, <2>1, <2>2
<1> HIDE DEF progs
<1>6. Residuals(progs)
  BY <1>1 DEF progs
<1> QED
  BY <1>1, <1>2, <1>4, <1>5, <1>6, ResidualsStart

-----------------------------------------------------------------------------
(* What is found and proved is used *)

Singles == \A k \in DOMAIN backup : Cardinality(backup[k]) = 1

\* What no other program of those that the backup verifiers run on has.
Own(i) == programs[i] \ UNION {programs[j] : j \in DOMAIN programs \ {i}}

\* Nobody proved anything about what only this program has.
Unproved(i) == proved \cap Own(i) = {}

\* Splitting reports what it verified, and no program is verified twice.
Reported ==
  /\ answer # "reduced" => done = {}
  /\ answer = "reduced" => done = verified /\ ~refuted
  /\ frontier \cap verified = {}
  /\ \A u, v \in frontier \cup verified : u # v => Paths[u] \cap Paths[v] = {}

\* Proofs are right, and a bug that is found ends everything.
Proofs ==
  /\ Clean(proved) /\ Clean(Executions(done))
  /\ found => stage = "over"
  /\ stage \in {"split", "merge"} => proved = {}
  /\ stage \in {"merge", "residuals"} => answer = "reduced"
  /\ stage = "whole" => answer \in {"reduced", "error"}

\* Each of the programs is needed, nothing but what it was found to be is known
\* of one that runs, and what is not proved comes from a program that is over.
EachIsNeeded ==
  stage = "residuals" /\ Singles =>
    /\ \A i \in DOMAIN programs :
         /\ ~(Own(i) \cap Paths[Whole] \subseteq Executions(done))
         /\ task[i] # ChainOver => task[i].results = <<>> /\ Unproved(i)
    /\ ~(Kinds(gathered) \subseteq {"CORRECT"}) =>
         \E i \in DOMAIN programs : task[i] = ChainOver /\ Unproved(i)

\* The whole input is verified only when something has not been proved.
Missing == ~(Paths[Whole] \subseteq Executions(done) \cup proved)

WholeIsNeeded ==
  stage = "whole" /\ Singles => Missing /\ task[1].results = <<>>

Used == Reported /\ Proofs /\ EachIsNeeded /\ WholeIsNeeded /\ ResultsAreUsed

\* Nothing of it changes.
LEMMA UsedKept ==
  ASSUME Used, UNCHANGED <<reduction, config, stage, programs, task, gathered, outcome, history>>
  PROVE  Used'
<1>1. UNCHANGED <<frontier, verified, refuted, answer, done, buggy, backup, stage, programs, task,
                  gathered, ended, printed, found, proved>>
  BY DEF reduction, config, outcome, history
<1>2. Reported' /\ Proofs' /\ WholeIsNeeded' /\ ResultsAreUsed'
  BY <1>1 DEF Used, Reported, Proofs, Clean, Executions, WholeIsNeeded, Missing, Singles,
    ResultsAreUsed
<1>3. EachIsNeeded'
  BY <1>1 DEF Used, EachIsNeeded, Singles, Own, Unproved, Executions, Kinds
<1> QED
  BY <1>2, <1>3 DEF Used

\* Halves take the place of a program that nothing else had a part in.
LEMMA SplitIsApart ==
  ASSUME OwnExecutions, Inductive, Used, NEW u \in Unit, Splitter!Split(u)
  PROVE  Reported'
<1>1. /\ u \in frontier /\ u \in Halved /\ frontier' = (frontier \ {u}) \cup {Left[u], Right[u]}
      /\ answer = "none" /\ UNCHANGED <<verified, refuted, answer, done>>
  BY DEF Splitter!Split
<1>2. /\ Paths[u] = Paths[Left[u]] \cup Paths[Right[u]] /\ Left[u] \in Unit /\ Right[u] \in Unit
      /\ Paths[Left[u]] \cap Paths[Right[u]] = {}
      /\ Paths[Left[u]] # {} /\ Paths[Right[u]] # {}
  BY <1>1, TreeAssumption DEF OwnExecutions
<1> DEFINE rest == (frontier \cup verified) \ {u}
<1>3. /\ \A v, w \in rest : v # w => Paths[v] \cap Paths[w] = {}
      /\ \A v \in rest : Paths[v] \cap Paths[u] = {}
      /\ verified \subseteq rest /\ frontier \ {u} \subseteq rest
      /\ (frontier \ {u}) \cap verified = {}
  BY <1>1 DEF Used, Reported
<1>4. \A h \in {Left[u], Right[u]} : h \notin rest /\ \A v \in rest : Paths[v] \cap Paths[h] = {}
  BY <1>2, <1>3
<1>5. frontier' \cap verified' = {}
  BY <1>1, <1>3, <1>4
<1>6. ASSUME NEW v \in frontier' \cup verified', NEW w \in frontier' \cup verified', v # w
      PROVE  Paths[v] \cap Paths[w] = {}
  <2>1. /\ v \in rest \/ v \in {Left[u], Right[u]}
        /\ w \in rest \/ w \in {Left[u], Right[u]}
    BY <1>1, <1>3, <1>6
  <2> HIDE DEF rest
  <2> QED
    BY <1>2, <1>3, <1>4, <1>6, <2>1
<1> QED
  BY <1>1, <1>5, <1>6 DEF Used, Reported

LEMMA SplittingUses ==
  ASSUME OwnExecutions, Inductive, Used, Splitting
  PROVE  Used'
<1>1. /\ stage = "split" /\ stage' = stage
      /\ UNCHANGED <<buggy, backup, programs, task, gathered, ended, printed, found, proved>>
      /\ ended = "no"
  BY DEF Splitting, config, outcome, history, Inductive, AtEnd
<1>2. Reported' /\ Clean(Executions(done))'
  <2>1. ASSUME NEW u \in Unit, Splitter!Verify(u) PROVE Reported' /\ Clean(Executions(done))'
    <3>1. /\ u \in frontier /\ frontier' = frontier \ {u} /\ verified' = verified \cup {u}
          /\ answer = "none" /\ UNCHANGED <<refuted, answer, done>>
      BY <2>1 DEF Splitter!Verify
    <3>2. /\ frontier' \cap verified' = {} /\ frontier' \cup verified' = frontier \cup verified
      BY <3>1 DEF Used, Reported
    <3> QED
      BY <1>1, <3>1, <3>2 DEF Used, Reported, Proofs, Clean, Executions
  <2>2. ASSUME NEW u \in Unit, Splitter!Split(u) PROVE Reported' /\ Clean(Executions(done))'
    BY <1>1, <2>2, SplitIsApart DEF Splitter!Split, Used, Proofs, Clean, Executions
  <2>3. ASSUME Splitter!Refute PROVE Reported' /\ Clean(Executions(done))'
    BY <1>1, <2>3 DEF Splitter!Refute, Used, Reported, Proofs, Clean, Executions
  <2>4. ASSUME Splitter!Report PROVE Reported' /\ Clean(Executions(done))'
    <3>1. Clean(Executions(verified)) /\ answer = "none" /\ done = {}
      BY <2>4 DEF Inductive, Reduction, Splitter!Report, Used, Reported
    <3> QED
      BY <1>1, <2>4, <3>1 DEF Splitter!Report, Used, Reported, Proofs, Clean, Executions
  <2> QED
    BY <2>1, <2>2, <2>3, <2>4 DEF Splitting
<1>3. Proofs'
  BY <1>1, <1>2 DEF Used, Proofs, Clean
<1>4. EachIsNeeded' /\ WholeIsNeeded' /\ ResultsAreUsed'
  BY <1>1 DEF EachIsNeeded, WholeIsNeeded, ResultsAreUsed
<1> QED
  BY <1>2, <1>3, <1>4 DEF Used

\* What all ends and restarts have in common.
LEMMA OtherStage ==
  ASSUME Used, UNCHANGED <<reduction, config>>, Clean(proved'),
         stage' \in {"residuals", "whole", "over"},
         stage' = "residuals" => answer = "reduced",
         stage' = "whole" => answer \in {"reduced", "error"},
         found' => stage' = "over"
  PROVE  Reported' /\ Proofs'
<1>1. UNCHANGED <<frontier, verified, refuted, answer, done, buggy>>
  BY DEF reduction, config
<1> QED
  BY <1>1 DEF Used, Reported, Proofs, Clean, Executions

\* The backup verifiers start on programs of which each one is needed.
LEMMA ResidualsUse ==
  ASSUME Inductive, Used, stage \in {"split", "merge"}, answer = "reduced",
         NEW progs \in Seq(SUBSET Path), Residuals(progs), UNCHANGED <<reduction, config>>,
         \A i \in DOMAIN progs : \E e \in progs[i] \cap Paths[Whole] :
           e \notin Executions(done) /\ \A j \in DOMAIN progs \ {i} : e \notin progs[j]
  PROVE  Used'
<1>1. /\ stage' = "residuals" /\ programs' = progs /\ task' = [i \in DOMAIN progs |-> Chain(1)]
      /\ gathered' = <<>>
      /\ UNCHANGED <<done, backup, ended, proved, found>> /\ proved = {} /\ ended = "no" /\ ~found
  BY DEF Residuals, Start, outcome, history, reduction, config, Used, Proofs, Inductive, AtEnd
<1>2. Clean(proved')
  BY <1>1 DEF Clean
<1>3. EachIsNeeded'
  <2>1. Kinds(<<>>) = {}
    BY DEF Kinds, ToSet
  <2>2. Chain(1).results = <<>>
    BY DEF Chain
  <2>3. ASSUME NEW i \in DOMAIN progs
        PROVE  ~(Own(i)' \cap Paths[Whole] \subseteq Executions(done))
    <3>1. PICK e \in progs[i] \cap Paths[Whole] :
            e \notin Executions(done) /\ \A j \in DOMAIN progs \ {i} : e \notin progs[j]
      OBVIOUS
    <3> QED
      BY <1>1, <3>1 DEF Own
  <2> QED
    BY <1>1, <2>1, <2>2, <2>3 DEF EachIsNeeded, Unproved, Executions
<1>4. WholeIsNeeded' /\ ResultsAreUsed'
  BY <1>1 DEF WholeIsNeeded, ResultsAreUsed
<1>5. Reported' /\ Proofs'
  BY <1>1, <1>2, OtherStage
<1> QED
  BY <1>3, <1>4, <1>5 DEF Used

\* They start on the whole input when something has not been proved.
LEMMA WholeUses ==
  ASSUME Inductive, Used, stage # "over", BackupOnWhole, UNCHANGED <<reduction, config>>,
         answer \in {"reduced", "error"}, ~found', Clean(proved'), Singles => Missing'
  PROVE  Used'
<1>1. /\ stage' = "whole" /\ task' = [i \in DOMAIN <<Paths[Whole]>> |-> Chain(1)]
      /\ UNCHANGED <<backup, ended>> /\ ended = "no"
  BY DEF BackupOnWhole, Start, outcome, config, Inductive, AtEnd
<1>2. task'[1].results = <<>>
  <2>1. 1 \in DOMAIN <<Paths[Whole]>>
    OBVIOUS
  <2> QED
    BY <1>1, <2>1 DEF Chain
<1>3. EachIsNeeded' /\ WholeIsNeeded' /\ ResultsAreUsed'
  BY <1>1, <1>2 DEF EachIsNeeded, WholeIsNeeded, ResultsAreUsed, Singles
<1>4. Reported' /\ Proofs'
  BY <1>1, OtherStage
<1> QED
  BY <1>3, <1>4 DEF Used

\* The workflow ends.
LEMMA EndUses ==
  ASSUME Used, NEW why, NEW line, End(why, line), UNCHANGED <<reduction, config>>,
         Clean(proved'), ResultsAreUsed'
  PROVE  Used'
<1>1. stage' = "over"
  BY DEF End
<1>2. EachIsNeeded' /\ WholeIsNeeded'
  BY <1>1 DEF EachIsNeeded, WholeIsNeeded
<1> QED
  BY <1>1, <1>2, OtherStage DEF Used

\* What is found incorrect is printed so, and what is found correct, too.
LEMMA PrintedConclusive ==
  ASSUME NEW vs \in Seq(Says3)
  PROVE  /\ Kinds(vs) = {"CORRECT"} => Printed(vs) = "true"
         /\ Kinds(vs) = {"INCORRECT"} /\ vs # <<>> => Printed(vs) = "unreach"
<1>1. \A v \in Says3 : v.prp = "unreach"
  BY DEF Says3, Says, AVerdict
<1>2. \A v \in ToSet(vs) : v \in Says3
  BY DEF ToSet
<1>3. ~PrintRaises(vs)
  BY <1>1, <1>2 DEF PrintRaises
<1>4. vs # <<>> => vs[1].prp = "unreach"
  BY <1>1
<1> QED
  BY <1>3, <1>4 DEF Printed

\* A single verdict.
LEMMA OneSays ==
  ASSUME NEW kind \in {"CORRECT", "INCORRECT", "UNKNOWN"}
  PROVE  /\ <<Says(kind)>> \in Seq(Says3) /\ <<Says(kind)>> # <<>> /\ Kinds(<<Says(kind)>>) = {kind}
         /\ Says(kind).kind = kind
<1>1. Says(kind) \in Says3 /\ Says(kind).kind = kind
  BY DEF Says3, Says, AVerdict
<1>2. ToSet(<<Says(kind)>>) = {Says(kind)}
  BY DEF ToSet
<1> QED
  BY <1>1, <1>2 DEF Kinds

\* A bug in the input cannot be proved away.
LEMMA BugIsMissing ==
  ASSUME Used, ~WholeClean, UNCHANGED <<reduction, config>>, Clean(proved')
  PROVE  Missing'
<1>1. Clean(Executions(done)) /\ Clean(proved') /\ UNCHANGED <<done, buggy>>
  BY DEF Used, Proofs, reduction, config
<1> QED
  BY <1>1 DEF Missing, WholeClean, Clean, Executions

LEMMA SplittingOverUses ==
  ASSUME OwnExecutions, Inductive, Used, SplittingOver
  PROVE  Used'
<1>1. /\ stage = "split" /\ answer \in {"bug", "reduced", "error"}
      /\ UNCHANGED <<reduction, config>> /\ proved = {} /\ ~found /\ Clean(proved) /\ ended = "no"
      /\ UNCHANGED <<refuted, answer, residuals, done, buggy, backup>>
  BY DEF SplittingOver, Inductive, Reduction, Used, Proofs, AtEnd, reduction, config
<1>2. CASE answer = "error"
  <2>1. BackupOnWhole /\ proved' = {} /\ ~found'
    BY <1>1, <1>2 DEF SplittingOver, history
  <2>2. Paths[Whole] # {} /\ done' = {}
    BY <1>1, <1>2, TreeAssumption DEF OwnExecutions, Used, Reported
  <2>3. Missing'
    BY <2>1, <2>2 DEF Missing, Executions
  <2> QED
    BY <1>1, <1>2, <2>1, <2>3, WholeUses DEF Clean
<1>3. CASE answer = "bug"
  <2>1. /\ ProcessResult(<<Says("INCORRECT")>>) /\ UNCHANGED history
    BY <1>3 DEF SplittingOver
  <2>2. End("result", "unreach") /\ Clean(proved')
    BY <1>1, <2>1, OneSays, PrintedConclusive DEF ProcessResult, history, Clean
  <2>3. ~WholeClean
    BY <1>3 DEF Inductive, Reduction
  <2>4. Missing'
    BY <1>1, <2>2, <2>3, BugIsMissing
  <2>5. ResultsAreUsed'
    BY <2>2, <2>4 DEF End, ResultsAreUsed, Missing
  <2> QED
    BY <1>1, <2>2, <2>5, EndUses
<1>4. CASE answer = "reduced" /\ residuals = {}
  <2>1. ProcessResult(<<Says("CORRECT")>>) /\ UNCHANGED history
    <3>1. ~(Cardinality(residuals) > 1)
      BY <1>4, FS_EmptySet
    <3> QED
      BY <1>4, <3>1 DEF SplittingOver
  <2>2. End("result", "true") /\ Clean(proved') /\ ~found'
    BY <1>1, <2>1, OneSays, PrintedConclusive DEF ProcessResult, history, Clean
  <2>3. ~refuted'
    BY <1>1, <1>4 DEF Used, Reported
  <2>4. ResultsAreUsed'
    BY <2>2, <2>3 DEF End, ResultsAreUsed
  <2> QED
    BY <1>1, <2>2, <2>4, EndUses
<1>5. CASE answer = "reduced" /\ residuals # {} /\ merge = "cpa" /\ Cardinality(residuals) > 1
  <2>1. stage' = "merge" /\ UNCHANGED <<ended, found, proved>>
        /\ UNCHANGED <<frontier, verified, refuted, answer, done, buggy>>
    BY <1>1, <1>5 DEF SplittingOver, outcome, history, reduction
  <2>2. Reported' /\ Proofs'
    BY <1>1, <1>5, <2>1 DEF Used, Reported, Proofs, Clean, Executions
  <2>3. EachIsNeeded' /\ WholeIsNeeded' /\ ResultsAreUsed'
    BY <1>1, <2>1 DEF EachIsNeeded, WholeIsNeeded, ResultsAreUsed
  <2> QED
    BY <2>2, <2>3 DEF Used
<1>6. CASE answer = "reduced" /\ residuals # {} /\ ~(merge = "cpa" /\ Cardinality(residuals) > 1)
  <2>1. PICK order \in SetToSeqs(residuals) : Residuals([i \in DOMAIN order |-> Paths[order[i]]])
    BY <1>6 DEF SplittingOver
  <2> DEFINE progs == [i \in DOMAIN order |-> Paths[order[i]]]
  <2>2. /\ residuals \in SUBSET Unit /\ order \in Seq(residuals)
        /\ \A u \in residuals : Paths[u] \subseteq Paths[Whole] /\ Paths[u] \in SUBSET Path
        /\ DOMAIN order = 1..Len(order) /\ Len(order) \in Nat
        /\ \A i \in DOMAIN order : order[i] \in residuals
    BY <1>6, ResidualsRight, OrderOfSet, TreeAssumption
  <2>3. \A i, j \in DOMAIN order : i # j => order[i] # order[j]
    <3>1. IsFiniteSet(residuals)
      BY <1>6, ResidualsRight
    <3>2. Cardinality(residuals) = Len(order)
      BY <3>1, OrderOfSet
    <3> QED
      BY <2>2, <3>2 DEF SetToSeqs
  <2>4. progs \in Seq(SUBSET Path) /\ DOMAIN progs = DOMAIN order
    <3>1. progs \in [1..Len(order) -> SUBSET Path]
      BY <2>2
    <3> QED
      BY <2>2, <3>1
  <2>5. /\ residuals = frontier /\ done = verified /\ frontier \cap verified = {}
        /\ \A u, v \in frontier \cup verified : u # v => Paths[u] \cap Paths[v] = {}
    BY <1>6 DEF Inductive, Reduction, Used, Reported
  <2>6. ASSUME NEW i \in DOMAIN progs
        PROVE  \E e \in progs[i] \cap Paths[Whole] :
                 e \notin Executions(done) /\ \A j \in DOMAIN progs \ {i} : e \notin progs[j]
    <3>1. order[i] \in residuals /\ order[i] \in Unit /\ progs[i] = Paths[order[i]]
      BY <2>2, <2>4
    <3>2. PICK e : e \in Paths[order[i]]
      BY <3>1 DEF OwnExecutions
    <3>3. e \notin Executions(done)
      BY <2>5, <3>1, <3>2 DEF Executions
    <3>4. \A j \in DOMAIN order \ {i} : e \notin Paths[order[j]]
      BY <2>2, <2>3, <2>4, <2>5, <3>1, <3>2
    <3> QED
      BY <2>2, <2>4, <3>1, <3>2, <3>3, <3>4
  <2> HIDE DEF progs
  <2>7. Residuals(progs)
    BY <2>1 DEF progs
  <2> QED
    BY <1>1, <1>6, <2>4, <2>6, <2>7, ResidualsUse
<1> QED
  BY <1>1, <1>2, <1>3, <1>4, <1>5, <1>6

\* The merged program has all that is left, and that is not verified.
LEMMA MergedUses ==
  ASSUME OwnExecutions, Inductive, Used, Merged
  PROVE  Used'
<1>1. /\ stage = "merge" /\ Residuals(<<merged[Whole]>>) /\ UNCHANGED <<reduction, config>>
      /\ Whole \in DOMAIN merged
  BY RootIsMerged DEF Merged
<1>2. /\ answer = "reduced" /\ residuals # {} /\ residuals \subseteq Below[Whole]
      /\ Merges1(Whole) /\ merged[Whole] \subseteq Path
      /\ residuals \in SUBSET Unit /\ \A u \in residuals : Paths[u] \subseteq Paths[Whole]
  BY <1>1, ResidualsRight DEF Inductive, Merging, TypeOK
<1>3. Executions(residuals) \subseteq merged[Whole]
  <2>1. residuals \cap Below[Whole] = residuals
    BY <1>2
  <2> QED
    BY <1>2, <2>1 DEF Merges1
<1>4. PICK r \in residuals : \E x : x \in Paths[r]
  BY <1>2 DEF OwnExecutions
<1>5. PICK e : e \in Paths[r]
  BY <1>4
<1>6. e \in merged[Whole] \cap Paths[Whole]
  BY <1>2, <1>3, <1>5 DEF Executions
<1>7. e \notin Executions(done)
  <2>1. /\ residuals = frontier /\ done = verified /\ frontier \cap verified = {}
        /\ \A u, v \in frontier \cup verified : u # v => Paths[u] \cap Paths[v] = {}
    BY <1>2 DEF Inductive, Reduction, Used, Reported
  <2> QED
    BY <1>5, <2>1 DEF Executions
<1> DEFINE progs == <<merged[Whole]>>
<1>8. /\ progs \in Seq(SUBSET Path)
      /\ \A i \in DOMAIN progs : progs[i] = merged[Whole] /\ DOMAIN progs \ {i} = {}
  BY <1>2
<1> HIDE DEF progs
<1>9. Residuals(progs)
  BY <1>1 DEF progs
<1>10. \A i \in DOMAIN progs : \E x \in progs[i] \cap Paths[Whole] :
        x \notin Executions(done) /\ \A j \in DOMAIN progs \ {i} : x \notin progs[j]
  BY <1>6, <1>7, <1>8
<1> QED
  BY <1>1, <1>2, <1>8, <1>9, <1>10, ResidualsUse

\* What is needed and not proved is missing.
LEMMA UnprovedIsMissing ==
  ASSUME Used, stage = "residuals", Singles, NEW i \in DOMAIN programs, proved' \cap Own(i) = {},
         UNCHANGED <<reduction, config>>
  PROVE  Missing'
<1>1. ~(Own(i) \cap Paths[Whole] \subseteq Executions(done)) /\ done' = done
  BY DEF Used, EachIsNeeded, reduction
<1> QED
  BY <1>1 DEF Missing, Executions

\* The end of a backup verifier that found no bug: a result must not be lost.
LEMMA NoBugEnds ==
  ASSUME Inductive, Used, Running, NEW line, End("result", line), UNCHANGED <<reduction, config>>,
         Clean(proved'), ~found', Singles => Missing' \/ line = "true"
  PROVE  Used'
<1>1. ended' = "result" /\ printed' = line /\ UNCHANGED <<answer, refuted, backup>>
  BY DEF End, reduction, config
<1>2. answer \in {"reduced", "error"} /\ (answer = "reduced" => ~refuted)
  BY DEF Running, Used, Proofs, Reported
<1>3. ResultsAreUsed'
  BY <1>1, <1>2 DEF ResultsAreUsed, Singles, Missing
<1> QED
  BY <1>3, EndUses

\* The verdicts of the backup verifiers decide, or more is to do.
LEMMA NoBugDecides ==
  ASSUME Inductive, Used, Running, NEW vs \in Seq(Says3), vs # <<>>, BackupsOver(vs),
         "INCORRECT" \notin Kinds(vs), UNCHANGED <<reduction, config>>,
         Clean(proved'), ~found', Singles => Missing' \/ Kinds(vs) = {"CORRECT"}
  PROVE  Used'
<1>1. stage # "over" /\ answer \in {"reduced", "error"}
  BY DEF Running, Used, Proofs
<1>2. CASE stage = "residuals" /\ ~Conclusive(vs)
  <2>1. BackupOnWhole /\ Kinds(vs) # {"CORRECT"}
    BY <1>2 DEF BackupsOver, Conclusive
  <2> QED
    BY <1>1, <2>1, WholeUses
<1>3. CASE ~(stage = "residuals" /\ ~Conclusive(vs))
  <2>1. End("result", Printed(vs))
    BY <1>3 DEF BackupsOver, ProcessResult
  <2> QED
    BY <2>1, PrintedConclusive, NoBugEnds
<1> QED
  BY <1>2, <1>3

\* The verdict CORRECT or UNKNOWN of the last verifier of a chain of single ones,
\* and what is proved by it.
LastSays(i, kind) ==
  /\ kind \in {"CORRECT", "UNKNOWN"}
  /\ Clean(proved') /\ ~found'
  /\ proved \subseteq proved' /\ proved' \subseteq proved \cup programs[i]
  /\ kind = "UNKNOWN" => proved' = proved

\* What is proved about one program says nothing about what only another has.
LEMMA OthersUnproved ==
  ASSUME NEW i \in DOMAIN programs, NEW j \in DOMAIN programs, i # j,
         Unproved(j), proved' \subseteq proved \cup programs[i]
  PROVE  proved' \cap Own(j) = {}
<1>1. programs[i] \cap Own(j) = {}
  BY DEF Own
<1> QED
  BY <1>1 DEF Unproved

\* One of several programs is over, others are not.
LEMMA OneOfSeveralUses ==
  ASSUME Inductive, Used, stage = "residuals", Singles, NEW i \in DOMAIN programs,
         task[i] # ChainOver, NEW kind, LastSays(i, kind),
         Kinds(gathered') = Kinds(gathered) \cup {kind}, task' = [task EXCEPT ![i] = ChainOver],
         UNCHANGED <<reduction, config, stage, outcome, programs>>
  PROVE  Used'
<1>1. /\ UNCHANGED <<backup, done, ended>> /\ ended = "no" /\ answer = "reduced"
      /\ DOMAIN task = DOMAIN programs
  BY DEF reduction, config, outcome, Inductive, AtEnd, Used, Proofs, TypeOK
<1>2. \A j \in DOMAIN programs : Own(j)' = Own(j) /\ (task'[j] # ChainOver => task'[j] = task[j] /\ j # i)
  BY <1>1 DEF Own
<1>3. ASSUME NEW j \in DOMAIN programs
      PROVE  /\ ~(Own(j)' \cap Paths[Whole] \subseteq Executions(done))
             /\ task'[j] # ChainOver => task'[j].results = <<>> /\ Unproved(j)'
  <2>1. /\ ~(Own(j) \cap Paths[Whole] \subseteq Executions(done))
        /\ task[j] # ChainOver => task[j].results = <<>> /\ Unproved(j)
    BY DEF Used, EachIsNeeded
  <2>2. j # i /\ Unproved(j) => proved' \cap Own(j) = {}
    BY OthersUnproved DEF LastSays
  <2> QED
    BY <1>2, <2>1, <2>2 DEF Unproved
<1>4. ASSUME ~(Kinds(gathered') \subseteq {"CORRECT"})
      PROVE  \E j \in DOMAIN programs : task'[j] = ChainOver /\ Unproved(j)'
  <2>1. CASE kind = "UNKNOWN"
    <3>1. Unproved(i) /\ proved' = proved /\ task'[i] = ChainOver
      BY <1>1, <2>1 DEF Used, EachIsNeeded, LastSays
    <3> QED
      BY <1>2, <3>1 DEF Unproved
  <2>2. CASE kind = "CORRECT"
    <3>1. PICK j \in DOMAIN programs : task[j] = ChainOver /\ Unproved(j)
      BY <1>4, <2>2 DEF Used, EachIsNeeded
    <3>2. proved' \cap Own(j) = {} /\ task'[j] = ChainOver
      BY <1>1, <3>1, OthersUnproved DEF LastSays
    <3> QED
      BY <1>2, <3>2 DEF Unproved
  <2> QED
    BY <2>1, <2>2 DEF LastSays
<1>5. EachIsNeeded'
  BY <1>1, <1>3, <1>4 DEF EachIsNeeded, Executions
<1>6. WholeIsNeeded' /\ ResultsAreUsed'
  BY <1>1 DEF WholeIsNeeded, ResultsAreUsed
<1>7. Reported' /\ Proofs'
  BY <1>1, OtherStage DEF LastSays
<1> QED
  BY <1>5, <1>6, <1>7 DEF Used

\* All of several programs are over.
LEMMA AllOfSeveralUse ==
  ASSUME Inductive, Used, stage = "residuals", Singles, NEW i \in DOMAIN programs,
         task[i] # ChainOver, NEW kind, LastSays(i, kind),
         ~(Kinds(gathered) \cup {kind} \subseteq {"CORRECT"}), UNCHANGED <<reduction, config>>
  PROVE  Missing'
<1>1. CASE kind = "UNKNOWN"
  <2>1. Unproved(i) /\ proved' = proved
    BY <1>1 DEF Used, EachIsNeeded, LastSays
  <2> QED
    BY <2>1, UnprovedIsMissing DEF Unproved
<1>2. CASE kind = "CORRECT"
  <2>1. PICK j \in DOMAIN programs : task[j] = ChainOver /\ Unproved(j)
    BY <1>2 DEF Used, EachIsNeeded
  <2>2. proved' \cap Own(j) = {}
    BY <2>1, OthersUnproved DEF LastSays
  <2> QED
    BY <2>2, UnprovedIsMissing
<1> QED
  BY <1>1, <1>2 DEF LastSays

\* What runs on the whole input is one program.
LEMMA WholeIsOne ==
  ASSUME Inductive, stage = "whole"
  PROVE  Len(programs) = 1 /\ DOMAIN programs = {1} /\ programs[1] = Paths[Whole]
<1>1. programs = <<Paths[Whole]>>
  BY DEF Inductive, Programs
<1> QED
  BY <1>1

\* A program is over without a bug, and every verifier runs alone.
LEMMA ProgramOverUses ==
  ASSUME Inductive, Used, Running, Singles, NEW i \in DOMAIN programs, task[i] # ChainOver,
         NEW kind, LastSays(i, kind), ProgramOver(i, <<Says(kind)>>),
         UNCHANGED <<reduction, config>>
  PROVE  Used'
<1> DEFINE vs == <<Says(kind)>>
           all == Append(gathered, vs[1])
<1>1. /\ kind \in {"CORRECT", "UNKNOWN"} /\ Clean(proved') /\ ~found'
      /\ proved \subseteq proved' /\ (kind = "UNKNOWN" => proved' = proved)
  BY DEF LastSays
<1>2. /\ vs \in Seq(Says3) /\ vs # <<>> /\ Kinds(vs) = {kind} /\ vs[1] \in Says3 /\ vs[1].kind = kind
  BY <1>1, OneSays, PrintedSays
<1>3. gathered \in Seq(Says3) /\ DOMAIN task = DOMAIN programs /\ "INCORRECT" \notin Kinds(gathered)
  BY DEF Inductive, TypeOK, Chains
<1>4. all \in Seq(Says3) /\ all # <<>> /\ Kinds(all) = Kinds(gathered) \cup {kind}
  <2>1. all \in Seq(Says3) /\ all # <<>> /\ ToSet(all) = ToSet(gathered) \cup {vs[1]}
    BY <1>2, <1>3, AppendToSet
  <2> HIDE DEF all, vs
  <2> QED
    BY <1>2, <2>1 DEF Kinds
<1>5. ProgramOver(i, vs)
  OBVIOUS
<1> HIDE DEF vs, all
<1>6. CASE Len(programs) = 1
  <2>1. BackupsOver(vs)
    BY <1>5, <1>6 DEF ProgramOver
  <2>2. ASSUME kind = "UNKNOWN" PROVE Missing'
    <3>1. CASE stage = "residuals"
      <4>1. Unproved(i)
        BY <3>1 DEF Used, EachIsNeeded
      <4> QED
        BY <1>1, <2>2, <3>1, <4>1, UnprovedIsMissing DEF Unproved
    <3>2. CASE stage = "whole"
      <4>1. Missing /\ proved' = proved /\ done' = done
        BY <1>1, <2>2, <3>2 DEF Used, WholeIsNeeded, reduction
      <4> QED
        BY <4>1 DEF Missing, Executions
    <3> QED
      BY <3>1, <3>2 DEF Running
  <2> QED
    BY <1>1, <1>2, <2>1, <2>2, NoBugDecides
<1>7. CASE Len(programs) # 1
  <2>1. stage = "residuals"
    BY <1>7, WholeIsOne DEF Running
  <2>2. CASE \A j \in DOMAIN task \ {i} : task[j] = ChainOver
    <3>1. BackupsOver(all)
      BY <1>1, <1>2, <1>5, <1>7, <2>2 DEF ProgramOver, all
    <3>2. Kinds(all) # {"CORRECT"} => Missing'
      BY <1>4, <2>1, AllOfSeveralUse
    <3>3. "INCORRECT" \notin Kinds(all)
      BY <1>1, <1>3, <1>4
    <3> QED
      BY <1>1, <1>4, <3>1, <3>2, <3>3, NoBugDecides
  <2>3. CASE ~\A j \in DOMAIN task \ {i} : task[j] = ChainOver
    <3>1. /\ gathered' = all /\ task' = [task EXCEPT ![i] = ChainOver]
          /\ UNCHANGED <<stage, outcome, programs>>
      BY <1>1, <1>2, <1>5, <1>7, <2>3 DEF ProgramOver, all
    <3> QED
      BY <1>4, <2>1, <3>1, OneOfSeveralUses
  <2> QED
    BY <2>2, <2>3
<1> QED
  BY <1>6, <1>7

\* The next verifier of a chain gets the program, nothing being proved by the last.
LEMMA NextInChainUses ==
  ASSUME Inductive, Used, Running, NEW i \in DOMAIN task, task[i] # ChainOver, NEW at,
         NextInChain(i, at), UNCHANGED <<reduction, config, proved>>, ~found'
  PROVE  Used'
<1>1. /\ task' = [task EXCEPT ![i] = Chain(at)] /\ DOMAIN task = DOMAIN programs
      /\ UNCHANGED <<stage, ended, programs, gathered, backup, done>> /\ ended = "no"
      /\ stage \in {"residuals", "whole"} /\ Clean(proved)
  BY DEF NextInChain, outcome, config, reduction, Inductive, AtEnd, Running, TypeOK, Used, Proofs
<1>2. Chain(at).results = <<>>
  BY DEF Chain
<1>3. /\ \A j \in DOMAIN task : task'[j].results = <<>> \/ task'[j] = task[j]
      /\ \A j \in DOMAIN task : j # i => task'[j] = task[j]
      /\ task'[i].results = <<>>
  BY <1>1, <1>2
<1>4. EachIsNeeded'
  <2> SUFFICES ASSUME stage = "residuals", Singles PROVE EachIsNeeded'
    BY <1>1 DEF EachIsNeeded, Singles
  <2>1. ASSUME NEW j \in DOMAIN programs
        PROVE  /\ ~(Own(j)' \cap Paths[Whole] \subseteq Executions(done)')
               /\ task'[j] # ChainOver => task'[j].results = <<>> /\ Unproved(j)'
    <3>1. /\ ~(Own(j) \cap Paths[Whole] \subseteq Executions(done))
          /\ task[j] # ChainOver => task[j].results = <<>> /\ Unproved(j)
      BY DEF Used, EachIsNeeded
    <3>2. Own(j)' = Own(j) /\ Executions(done)' = Executions(done) /\ Unproved(j)' = Unproved(j)
      BY <1>1 DEF Own, Executions, Unproved
    <3> QED
      BY <1>1, <1>3, <3>1, <3>2
  <2>2. ASSUME ~(Kinds(gathered) \subseteq {"CORRECT"})'
        PROVE  \E j \in DOMAIN programs : task'[j] = ChainOver /\ Unproved(j)'
    <3>1. PICK j \in DOMAIN programs : task[j] = ChainOver /\ Unproved(j)
      BY <1>1, <2>2 DEF Used, EachIsNeeded, Kinds
    <3>2. j # i /\ Unproved(j)' = Unproved(j)
      BY <1>1, <3>1 DEF Own, Unproved
    <3> QED
      BY <1>1, <1>3, <3>1, <3>2
  <2> QED
    BY <1>1, <2>1, <2>2 DEF EachIsNeeded
<1>5. WholeIsNeeded'
  <2>1. stage = "whole" => 1 \in DOMAIN task
    BY <1>1, WholeIsOne
  <2> QED
    BY <1>1, <1>3, <2>1 DEF Used, WholeIsNeeded, Missing, Executions, Singles
<1>6. ResultsAreUsed'
  BY <1>1 DEF ResultsAreUsed
<1>7. Reported' /\ Proofs'
  <2>1. stage' = "residuals" => answer = "reduced"
    BY <1>1 DEF Used, Proofs
  <2>2. stage' = "whole" => answer \in {"reduced", "error"}
    BY <1>1 DEF Used, Proofs
  <2> QED
    BY <1>1, <2>1, <2>2, OtherStage
<1> QED
  BY <1>4, <1>5, <1>6, <1>7 DEF Used

\* Where several verifiers run side by side no more is known than that a bug
\* was not found.
LEMMA SeveralUse ==
  ASSUME Inductive, Used, Running, ~Singles, UNCHANGED <<reduction, config>>,
         stage' \in {stage, "whole", "over"}, Clean(proved'), ~found'
  PROVE  Used'
<1>1. /\ UNCHANGED <<backup, answer, refuted>> /\ stage \in {"residuals", "whole"}
      /\ answer \in {"reduced", "error"} /\ (answer = "reduced" => ~refuted)
      /\ stage = "residuals" => answer = "reduced"
  BY DEF reduction, config, Running, Used, Proofs, Reported
<1>2. EachIsNeeded' /\ WholeIsNeeded' /\ ResultsAreUsed'
  BY <1>1 DEF EachIsNeeded, WholeIsNeeded, ResultsAreUsed, Singles
<1>3. Reported' /\ Proofs'
  BY <1>1, OtherStage
<1> QED
  BY <1>2, <1>3 DEF Used

\* An answer leads on, to the whole input, or to the end.
LEMMA AnswerStages ==
  ASSUME NEW i, NEW v, NEW claim, Answer(i, v, claim)
  PROVE  stage' \in {stage, "whole", "over"}
BY DEF Answer, ElementOver, NextInChain, ProgramOver, BackupsOver, BackupOnWhole, Start,
  ProcessResult, End

LEMMA VerifierAnswersUses ==
  ASSUME Inductive, Used, VerifierAnswers
  PROVE  Used'
<1>1. /\ Running /\ UNCHANGED <<reduction, config>> /\ ~found /\ Clean(proved)
      /\ UNCHANGED <<refuted, answer, done, buggy, backup>>
      /\ answer \in {"reduced", "error"} /\ (answer = "reduced" => ~refuted)
  BY DEF VerifierAnswers, Running, Used, Proofs, Reported, reduction, config
<1>2. PICK i \in DOMAIN task : \E v \in task[i].waiting, claim \in Claims(programs[i]) :
        /\ Answer(i, v, claim)
        /\ found' = (found \/ claim.kind = "INCORRECT")
        /\ proved' = IF claim.kind = "CORRECT" THEN proved \cup programs[i] ELSE proved
  BY DEF VerifierAnswers
<1>3. PICK v \in task[i].waiting, claim \in Claims(programs[i]) :
        /\ Answer(i, v, claim)
        /\ found' = (found \/ claim.kind = "INCORRECT")
        /\ proved' = IF claim.kind = "CORRECT" THEN proved \cup programs[i] ELSE proved
  BY <1>2
<1>4. i \in DOMAIN programs /\ task[i].at \in DOMAIN backup /\ task[i] # ChainOver
  BY <1>1, <1>3, WaitingRuns DEF ChainRuns, ChainOver
<1>5. PICK kind \in {"CORRECT", "INCORRECT", "UNKNOWN"} :
        /\ claim = Says(kind) /\ claim.kind = kind
        /\ kind = "CORRECT" => Clean(programs[i])
        /\ kind = "INCORRECT" => ~Clean(programs[i])
  BY DEF Claims, Says, AVerdict, Clean
<1>6. Clean(proved')
  BY <1>1, <1>3, <1>5 DEF Clean
<1>7. CASE kind = "INCORRECT"
  <2>1. Kinds(<<claim>>) = {"INCORRECT"} /\ <<claim>> \in Seq(Says3) /\ <<claim>> # <<>>
    BY <1>5, <1>7, OneSays
  <2>2. BackupsOver(<<claim>>)
    BY <1>3, <1>5, <1>7, <2>1 DEF Answer, ElementOver, Conclusive, ProgramOver
  <2>3. End("result", "unreach")
    BY <2>1, <2>2, PrintedConclusive DEF BackupsOver, Conclusive, ProcessResult
  <2>4. ~WholeClean
    BY <1>1, <1>4, <1>5, <1>7 DEF Inductive, Programs, Clean, WholeClean
  <2>5. Missing'
    BY <1>1, <1>6, <2>4, BugIsMissing
  <2>6. ResultsAreUsed'
    BY <2>3, <2>5 DEF End, ResultsAreUsed, Missing
  <2> QED
    BY <1>1, <1>6, <2>3, <2>6, EndUses
<1>8. CASE kind # "INCORRECT" /\ ~Singles
  <2>1. ~found'
    BY <1>1, <1>3, <1>5, <1>8
  <2> QED
    BY <1>1, <1>3, <1>6, <1>8, <2>1, AnswerStages, SeveralUse
<1>9. CASE kind # "INCORRECT" /\ Singles
  <2>1. Alone(i)
    BY <1>4, <1>9 DEF Singles, Alone
  <2>2. task[i].results = <<>>
    <3>1. stage = "whole" => i = 1
      BY <1>4, WholeIsOne
    <3> QED
      BY <1>1, <1>4, <1>9, <3>1 DEF Running, Used, EachIsNeeded, WholeIsNeeded
  <2>3. ElementOver(i, <<Says(kind)>>)
    <3>1. Append(<<>>, claim) = <<Says(kind)>>
      BY <1>5
    <3> QED
      BY <1>3, <1>5, <1>9, <2>1, <2>2, <3>1 DEF Answer
  <2>4. LastSays(i, kind)
    BY <1>1, <1>3, <1>5, <1>6, <1>9 DEF LastSays
  <2>5. CASE ~Conclusive(<<Says(kind)>>) /\ task[i].at < Len(backup)
    <3>1. NextInChain(i, NextElement(i))
      BY <2>3, <2>5 DEF ElementOver
    <3>2. kind # "CORRECT"
      BY <2>5, OneSays DEF Conclusive
    <3> QED
      BY <1>1, <1>3, <1>4, <1>5, <2>4, <3>1, <3>2, NextInChainUses DEF LastSays
  <2>6. CASE ~(~Conclusive(<<Says(kind)>>) /\ task[i].at < Len(backup))
    <3>1. ProgramOver(i, <<Says(kind)>>)
      BY <2>3, <2>6 DEF ElementOver
    <3> QED
      BY <1>1, <1>4, <1>9, <2>4, <3>1, ProgramOverUses
  <2> QED
    BY <2>5, <2>6
<1> QED
  BY <1>7, <1>8, <1>9

LEMMA VerifierFailsUses ==
  ASSUME Inductive, Used, VerifierFails
  PROVE  Used'
<1>1. /\ Running /\ UNCHANGED <<reduction, config, found, proved>> /\ ~found' /\ Clean(proved')
      /\ UNCHANGED <<done, buggy, backup>> /\ answer \in {"reduced", "error"} /\ stage # "over"
  BY DEF VerifierFails, Running, Used, Proofs, reduction, config, Clean
<1>2. PICK i \in DOMAIN task : task[i].waiting # {} /\
        IF ~Alone(i) THEN RaiseNow
        ELSE IF task[i].at < Len(backup) THEN NextInChain(i, NextElement(i))
        ELSE IF Len(programs) > 1 THEN RaiseNow
        ELSE BackupsFailed
  BY DEF VerifierFails
<1>3. i \in DOMAIN programs /\ task[i] # ChainOver
  BY <1>1, <1>2, WaitingRuns DEF ChainOver
<1>4. CASE RaiseNow
  <2>1. End("exception", "none")
    BY <1>4 DEF RaiseNow, Raise
  <2>2. ResultsAreUsed'
    BY <2>1 DEF End, ResultsAreUsed
  <2> QED
    BY <1>1, <2>1, <2>2, EndUses
<1>5. CASE NextInChain(i, NextElement(i))
  BY <1>1, <1>3, <1>5, NextInChainUses
<1>6. CASE BackupsFailed
  <2>1. CASE stage = "residuals"
    <3>1. ASSUME Singles PROVE Missing'
      <4>1. Unproved(i)
        BY <1>3, <2>1, <3>1 DEF Used, EachIsNeeded
      <4> QED
        BY <1>1, <1>3, <2>1, <3>1, <4>1, UnprovedIsMissing DEF Unproved
    <3>2. BackupOnWhole
      BY <1>6, <2>1 DEF BackupsFailed
    <3> QED
      BY <1>1, <3>1, <3>2, WholeUses
  <2>2. CASE stage = "whole"
    <3>1. Singles => Missing'
      BY <1>1, <2>2 DEF Used, WholeIsNeeded, Missing, Executions
    <3>2. End("result", "none")
      BY <1>6, <2>2 DEF BackupsFailed, ProcessError
    <3> QED
      BY <1>1, <3>1, <3>2, NoBugEnds
  <2> QED
    BY <1>1, <2>1, <2>2 DEF Running
<1> QED
  BY <1>2, <1>4, <1>5, <1>6

-----------------------------------------------------------------------------
(* The theorems *)

LEMMA InitRight ==
  ASSUME Init
  PROVE  Inductive
<1> USE DEF Init, Splitter!Init
<1>1. TypeOK
  BY DEF TypeOK
<1>2. Reduction
  <2>1. Whole \in Unit /\ Whole \in Below[Whole]
    BY TreeAssumption, BelowLeast
  <2> QED
    BY <2>1 DEF Reduction, Executions, Clean
<1>3. Merging /\ Programs /\ Chains /\ AtEnd /\ MergeIsTight /\ VerdictIsRight /\ NoVerdictReasons
  BY DEF Merging, Programs, Chains, Running, AtEnd, MergeIsTight, VerdictIsRight, NoVerdictReasons
<1> QED
  BY <1>1, <1>2, <1>3 DEF Inductive

LEMMA TimeoutRight ==
  ASSUME Inductive, Timeout
  PROVE  Inductive'
<1>1. /\ End("timeout", "none")
      /\ UNCHANGED <<reduction, config, merging, exported, programs, task, gathered>>
      /\ proved' \subseteq Path
  BY DEF Timeout, history, Inductive, TypeOK
<1>2. NoVerdictReasons'
  BY <1>1 DEF NoVerdictReasons, End
<1> QED
  BY <1>1, <1>2, EndRight

\* Every step keeps the invariant.
LEMMA StepRight ==
  ASSUME Inductive, [Next]_vars
  PROVE  Inductive'
<1>1. ASSUME UNCHANGED vars PROVE Inductive'
  <2> USE DEF Inductive
  <2>1. UNCHANGED <<frontier, verified, refuted, answer, residuals, done, buggy, backup, merge,
                    stage, worklist, merged, exported, programs, task, gathered, ended, printed,
                    found, proved, failed>>
    BY <1>1 DEF vars, reduction, config, merging, outcome, history
  <2>2. TypeOK'
    BY <2>1 DEF TypeOK
  <2>3. Reduction' /\ Programs' /\ AtEnd' /\ VerdictIsRight' /\ NoVerdictReasons'
    BY <2>1 DEF Reduction, Executions, Clean, WholeClean, Programs, Running, AtEnd, VerdictIsRight,
      NoVerdictReasons
  <2>4. Merging' /\ MergeIsTight'
    BY <2>1 DEF Merging, Merges1, Waits, Children, MergeIsTight, Executions
  <2>5. Chains'
    BY <2>1 DEF Chains, Running, ChainStates, ChainRight, ChainRuns, Clean
  <2> QED
    BY <2>2, <2>3, <2>4, <2>5
<1>2. CASE Next
  BY <1>1, <1>2, SplittingRight, SplittingOverRight, MergeStepRight, MergedRight,
    VerifierAnswersRight, VerifierFailsRight, TimeoutRight DEF Next, Works, Over
<1> QED
  BY <1>1, <1>2

LEMMA AlwaysInductive == Spec => []Inductive
<1>1. Init => Inductive
  BY InitRight
<1>2. Inductive /\ [Next]_vars => Inductive'
  BY StepRight
<1> QED
  BY <1>1, <1>2, PTL DEF Spec

LEMMA InitUses ==
  ASSUME Init
  PROVE  Used
<1>1. /\ frontier = {Whole} /\ verified = {} /\ done = {} /\ proved = {} /\ answer = "none"
      /\ stage = "split" /\ ended = "no" /\ ~found
  BY DEF Init, Splitter!Init
<1> QED
  BY <1>1 DEF Used, Reported, Proofs, Clean, Executions, EachIsNeeded, WholeIsNeeded, ResultsAreUsed

LEMMA StepUses ==
  ASSUME OwnExecutions, Inductive, Used, [Next]_vars
  PROVE  Used'
<1>1. ASSUME UNCHANGED vars PROVE Used'
  BY <1>1, UsedKept DEF vars
<1>2. ASSUME MergeStep PROVE Used'
  <2>1. UNCHANGED <<frontier, verified, refuted, answer, residuals, done, buggy, backup, stage,
                    programs, task, gathered, ended, printed, found, proved, failed, merge>>
    BY <1>2 DEF MergeStep, reduction, config, outcome, history
  <2> QED
    BY <2>1, UsedKept DEF reduction, config, outcome, history
<1>3. ASSUME Timeout PROVE Used'
  <2>1. End("timeout", "none") /\ UNCHANGED <<reduction, config, proved>> /\ Clean(proved)
    BY <1>3 DEF Timeout, history, Used, Proofs
  <2>2. ResultsAreUsed' /\ Clean(proved')
    BY <2>1 DEF End, ResultsAreUsed, Clean, config
  <2> QED
    BY <2>1, <2>2, EndUses
<1> QED
  BY <1>1, <1>2, <1>3, SplittingUses, SplittingOverUses, MergedUses, VerifierAnswersUses,
    VerifierFailsUses DEF Next, Works, Over

\* The types of the state of the workflow.
THEOREM FlowTyped == Spec => []TypeOK
<1>1. Inductive => TypeOK
  BY DEF Inductive
<1> QED
  BY <1>1, AlwaysInductive, PTL

\* A printed verdict is right for every tree of splits and every chain.
THEOREM VerdictsRight == Spec => []VerdictIsRight
<1>1. Inductive => VerdictIsRight
  BY DEF Inductive
<1> QED
  BY <1>1, AlwaysInductive, PTL

\* The programs that are verified after splitting have everything that is left,
\* and a merged program has no more than the splits make it.
THEOREM MergesTight == Spec => []MergeIsTight
<1>1. Inductive => MergeIsTight
  BY DEF Inductive
<1> QED
  BY <1>1, AlwaysInductive, PTL

\* Without a verdict there was a timeout or a verifier that failed where nothing
\* stands in for it; the assertion that the root is merged never fails.
THEOREM NoVerdictWhy == Spec => []NoVerdictReasons
<1>1. Inductive => NoVerdictReasons
  BY DEF Inductive
<1> QED
  BY <1>1, AlwaysInductive, PTL

\* A bug that was found is what is printed, and so are proofs of everything when
\* verifiers run one after the other, if every program has executions and every
\* one goes through one branch only.
THEOREM ResultsUsed ==
  ASSUME OwnExecutions
  PROVE  Spec => []ResultsAreUsed
<1>1. Init => Used
  BY InitUses
<1>2. Inductive /\ Used /\ [Next]_vars => Used'
  BY StepUses
<1>3. Used => ResultsAreUsed
  BY DEF Used
<1> QED
  BY <1>1, <1>2, <1>3, AlwaysInductive, PTL DEF Spec

=============================================================================
