--------------------------- MODULE SplittingProofs ---------------------------
(***************************************************************************)
(* What holds of dynamic splitting for every tree of splits, every table of *)
(* options and every order of answers.  Three invariants, each built on the *)
(* one before: Inductive (the types, and that a result without a bug covers *)
(* the input), Exact (the lists and results hold exactly what               *)
(* ProgramSplitting says, so that it is implemented) and Tight (no work is  *)
(* done twice and the limits are kept).                                     *)
(***************************************************************************)
EXTENDS DynamicSplitting, SequenceTheorems, FiniteSetTheorems, TLAPS

\* The programs in a list of task results.
Programs(i) == i.correct \cup ToSet(i.open)

Covers(S) == Paths[Whole] \subseteq Executions(S)

\* Only programs that have been executed are split or have a task in a round;
\* a program that has not been executed has no results yet.
Fresh ==
  \A u \in Unit :
    /\ stage[u] # "none" => u \in executed
    /\ u \notin executed \/ stage[u] = "split" => decided[u] = "none" /\ got[u] = NoItems

\* A half that does not run any more has left its program in the results of the
\* two, unless a bug or an error has decided.
HalvesKept ==
  \A u \in Unit : stage[u] = "check" =>
    /\ u \in Halved
    /\ decided[u] = "none" =>
         \A h \in Halves(u) : check[h] = "running" \/ h \in Programs(got[u])
    /\ decided[u] = "items" => Halves(u) \subseteq Programs(got[u])
    /\ decided[u] = "bug" => got[u].bug

\* In a round, what is verified, open, gathered or at work covers the input.
RoundCovers ==
  phase = "round" =>
    collected.bug \/ Covers(results \cup ToSet(open) \cup Programs(collected) \cup InRound)

Inductive == TypeOK /\ Fresh /\ HalvesKept /\ RoundCovers /\ Soundness

-----------------------------------------------------------------------------
(* Lists *)

\* Two lists in a row have the elements of both.
LEMMA ConcatElements ==
  ASSUME NEW S, NEW s \in Seq(S), NEW t \in Seq(S)
  PROVE  s \o t \in Seq(S) /\ ToSet(s \o t) = ToSet(s) \cup ToSet(t)
<1> DEFINE m == Len(s)
           n == Len(t)
<1>1. /\ s \o t \in Seq(S) /\ Len(s \o t) = m + n
      /\ \A i \in 1 .. m + n : (s \o t)[i] = IF i <= m THEN s[i] ELSE t[i - m]
  BY ConcatProperties
<1>2. /\ m \in Nat /\ n \in Nat
      /\ DOMAIN s = 1 .. m /\ DOMAIN t = 1 .. n /\ DOMAIN (s \o t) = 1 .. m + n
  BY <1>1
<1> HIDE DEF m, n
<1>3. ToSet(s \o t) \subseteq ToSet(s) \cup ToSet(t)
  <2>1. \A i \in 1 .. m + n : i <= m => i \in 1 .. m
    BY <1>2
  <2>2. \A i \in 1 .. m + n : ~(i <= m) => i - m \in 1 .. n
    BY <1>2
  <2> QED
    BY <1>1, <1>2, <2>1, <2>2 DEF ToSet
<1>4. ToSet(s) \subseteq ToSet(s \o t)
  <2>1. \A i \in 1 .. m : i \in 1 .. m + n /\ i <= m
    BY <1>2
  <2> QED
    BY <1>1, <1>2, <2>1 DEF ToSet
<1>5. ToSet(t) \subseteq ToSet(s \o t)
  <2>1. \A i \in 1 .. n : i + m \in 1 .. m + n /\ ~(i + m <= m) /\ (i + m) - m = i
    BY <1>2
  <2>2. ASSUME NEW i \in 1 .. n PROVE t[i] \in ToSet(s \o t)
    <3>1. (s \o t)[i + m] = t[(i + m) - m]
      BY <1>1, <2>1
    <3>2. (s \o t)[i + m] = t[i] /\ i + m \in DOMAIN (s \o t)
      BY <1>2, <2>1, <3>1
    <3> QED
      BY <3>2 DEF ToSet
  <2> QED
    BY <1>2, <2>2 DEF ToSet
<1> QED
  BY <1>1, <1>3, <1>4, <1>5

\* The first k elements and the others are all of them.
LEMMA SplitElements ==
  ASSUME NEW S, NEW s \in Seq(S), NEW k \in Nat
  PROVE  LET first == SubSeq(s, 1, IF k < Len(s) THEN k ELSE Len(s))
             rest == SubSeq(s, k + 1, Len(s))
         IN  /\ first \in Seq(S) /\ rest \in Seq(S)
             /\ ToSet(s) \subseteq ToSet(first) \cup ToSet(rest)
<1> DEFINE n == Len(s)
           m == IF k < n THEN k ELSE n
           first == SubSeq(s, 1, m)
           rest == SubSeq(s, k + 1, n)
<1>1. n \in Nat /\ DOMAIN s = 1 .. n /\ \A i \in 1 .. n : s[i] \in S
  OBVIOUS
<1>n. n = Len(s)
  OBVIOUS
<1> HIDE DEF n
<1>2. m \in Nat /\ m <= n /\ m <= k
  BY <1>1
<1>3. /\ first \in Seq(S)
      /\ Len(first) = IF 1 <= m THEN m - 1 + 1 ELSE 0
      /\ \A i \in 1 .. m - 1 + 1 : first[i] = s[1 + i - 1]
  <2>1. \A i \in 1 .. m : s[i] \in S
    BY <1>1, <1>2
  <2>2. 1 \in Int /\ m \in Int
    BY <1>2
  <2> HIDE DEF m
  <2> QED
    BY <2>1, <2>2, SubSeqProperties
<1>4. /\ rest \in Seq(S)
      /\ Len(rest) = IF k + 1 <= n THEN n - (k + 1) + 1 ELSE 0
      /\ \A i \in 1 .. n - (k + 1) + 1 : rest[i] = s[(k + 1) + i - 1]
  <2>1. \A i \in k + 1 .. n : s[i] \in S
    BY <1>1
  <2>2. k + 1 \in Int /\ n \in Int
    BY <1>1
  <2> QED
    BY <2>1, <2>2, SubSeqProperties
<1>5. ASSUME NEW i \in 1 .. n PROVE s[i] \in ToSet(first) \cup ToSet(rest)
  <2>1. CASE i <= k
    <3>1. i \in 1 .. m /\ Len(first) = m
      BY <1>1, <1>2, <1>3, <2>1
    <3>2. i \in DOMAIN first /\ first[i] = s[i]
      BY <1>2, <1>3, <3>1
    <3> QED
      BY <3>2 DEF ToSet
  <2>2. CASE ~(i <= k)
    <3> HIDE DEF first, rest
    <3>1. i - k \in 1 .. n - k /\ k + 1 <= n /\ (k + 1) + (i - k) - 1 = i
      BY <1>1, <2>2
    <3>2. n - (k + 1) + 1 = n - k
      BY <1>1
    <3>3. Len(rest) = n - k /\ rest[i - k] = s[i]
      BY <1>4, <3>1, <3>2
    <3> QED
      BY <1>4, <3>1, <3>3 DEF ToSet
  <2> QED
    BY <2>1, <2>2
<1>6. ToSet(s) \subseteq ToSet(first) \cup ToSet(rest)
  <2> HIDE DEF first, rest
  <2> QED
    BY <1>1, <1>5 DEF ToSet
<1> QED
  BY <1>3, <1>4, <1>6, <1>n

-----------------------------------------------------------------------------
(* Steps *)

LEMMA NoItemsTyped == NoItems \in Items /\ ToSet(NoItems.open) = {}
<1>1. <<>> \in Seq(Unit) /\ ToSet(<<>>) = {}
  BY DEF ToSet
<1> QED
  BY <1>1 DEF NoItems, Items

\* The end of the splitter.
LEMMA EndInductive ==
  ASSUME TypeOK, Fresh, NEW r, End(r), UNCHANGED <<check, got, decided, executed>>,
         open' \in Seq(Unit), results' \in SUBSET Unit, steps' \in Nat,
         r \in [status : {"none", "DONE", "ERROR"}, bug : BOOLEAN,
                verified : SUBSET Unit, residual : Seq(Unit)],
         r.status = "DONE" /\ ~r.bug => Covers(r.verified \cup ToSet(r.residual))
  PROVE  Inductive'
<1>1. TypeOK'
  BY NoItemsTyped DEF TypeOK, End
<1>2. Fresh'
  BY DEF Fresh, End
<1>3. HalvesKept'
  BY DEF HalvesKept, End
<1>4. RoundCovers' /\ Soundness'
  BY DEF RoundCovers, Soundness, End, Covers, Executions
<1> QED
  BY <1>1, <1>2, <1>3, <1>4 DEF Inductive

\* As long as rounds go on, at least one program can be split per round.
LEMMA SplitCheckLimitTyped ==
  ASSUME NEW o \in Seq(Unit), o # <<>>, ~StepOrSplitLimit(StepsAfter, o)
  PROVE  SplitCheckLimit \in Nat
<1>1. ParallelizationLimit \in Int
  BY ConfigAssumption DEF ParallelizationLimit
<1>2. ParallelizationLimit >= 2
  <2>1. Len(o) >= 1
    BY EmptySeq
  <2>2. ~(MaxWidth >= 0 /\ Len(o) >= MaxWidth)
    BY DEF StepOrSplitLimit
  <2>3. Len(o) \in Nat
    OBVIOUS
  <2> QED
    BY <2>1, <2>2, <2>3, ConfigAssumption
<1> QED
  BY <1>1, <1>2 DEF SplitCheckLimit

\* A new round over the programs o.
LEMMA NextRoundInductive ==
  ASSUME TypeOK, Fresh, Soundness, NEW o \in Seq(Unit), o # <<>>,
         ~StepOrSplitLimit(StepsAfter, o), NextRound(o),
         UNCHANGED <<check, got, decided>>,
         results' \in SUBSET Unit, steps' \in Nat,
         Covers(results' \cup ToSet(o))
  PROVE  Inductive'
<1>1. SplitCheckLimit \in Nat
  BY SplitCheckLimitTyped
<1> DEFINE first == ExecTasks(o)
           rest == OtherTasks(o)
<1>2. first \in Seq(Unit) /\ rest \in Seq(Unit) /\ ToSet(o) \subseteq ToSet(first) \cup ToSet(rest)
  <2> HIDE DEF SplitCheckLimit
  <2> QED
    BY <1>1, SplitElements DEF ExecTasks, OtherTasks
<1>3. ToSet(first) \subseteq Unit
  BY <1>2 DEF ToSet
<1> HIDE DEF first, rest
<1>4. /\ phase' = "round" /\ open' = rest /\ executed' = executed \cup ToSet(first)
      /\ stage' = [u \in Unit |-> IF u \notin ToSet(first) THEN "none"
                                 ELSE IF u \in executed THEN "identity" ELSE "split"]
      /\ collected' = NoItems /\ result' = result
  BY DEF NextRound, ExecutedAfter, first, rest
<1>5. TypeOK'
  BY <1>2, <1>3, <1>4, NoItemsTyped DEF TypeOK
<1>6. Fresh'
  BY <1>4 DEF Fresh
<1>7. HalvesKept'
  BY <1>4 DEF HalvesKept
<1>8. RoundCovers'
  <2>1. ToSet(first) \subseteq InRound'
    BY <1>3, <1>4 DEF InRound
  <2>2. ToSet(o) \subseteq ToSet(open') \cup InRound'
    BY <1>2, <1>4, <2>1
  <2> QED
    BY <2>2 DEF RoundCovers, Covers, Executions
<1>9. Soundness'
  BY <1>4 DEF Soundness, Executions
<1> QED
  BY <1>5, <1>6, <1>7, <1>8, <1>9 DEF Inductive

\* The continuation, when the results i cover what was under way.
LEMMA ContinuationInductive ==
  ASSUME TypeOK, Fresh, Soundness, NEW i \in Items, Continuation(i),
         UNCHANGED <<check, got, decided>>,
         i.bug \/ Covers(results \cup ToSet(open) \cup Programs(i))
  PROVE  Inductive'
<1> DEFINE o == open \o i.open
           r == results \cup i.correct
<1>1. i.open \in Seq(Unit) /\ i.correct \in SUBSET Unit /\ i.bug \in BOOLEAN
  BY DEF Items
<1>2. open \in Seq(Unit) /\ results \in SUBSET Unit /\ steps \in Nat
  BY DEF TypeOK
<1>3. o \in Seq(Unit) /\ ToSet(o) = ToSet(open) \cup ToSet(i.open)
  BY <1>1, <1>2, ConcatElements
<1>4. i.bug \/ Covers(r \cup ToSet(o))
  BY <1>3 DEF Programs, Covers, Executions
<1>5. r \in SUBSET Unit /\ results' = r
  BY <1>1, <1>2 DEF Continuation
<1>6. StepsAfter \in Nat
  BY <1>2 DEF StepsAfter
<1>e. <<>> \in Seq(Unit) /\ ToSet(<<>>) = {}
  BY DEF ToSet
<1> HIDE DEF o, r
<1>7. CASE /\ i.bug /\ End(Result("DONE", TRUE, {}, <<>>)) /\ open' = o
           /\ UNCHANGED <<executed, steps>>
  BY <1>2, <1>3, <1>5, <1>7, <1>e, EndInductive DEF Result
<1>8. CASE /\ ~i.bug /\ o = <<>> /\ End(Result("DONE", FALSE, r, <<>>)) /\ open' = o
           /\ UNCHANGED <<executed, steps>>
  BY <1>2, <1>3, <1>4, <1>5, <1>8, <1>e, EndInductive DEF Result
<1>9. CASE /\ ~i.bug /\ o # <<>> /\ steps' = StepsAfter
           /\ End(Result("DONE", FALSE, r, o)) /\ open' = o /\ UNCHANGED executed
  BY <1>2, <1>3, <1>4, <1>5, <1>6, <1>9, EndInductive DEF Result
<1>10. CASE /\ ~i.bug /\ o # <<>> /\ ~StepOrSplitLimit(StepsAfter, o)
            /\ steps' = StepsAfter /\ NextRound(o)
  BY <1>3, <1>4, <1>5, <1>6, <1>10, NextRoundInductive
<1> QED
  BY <1>7, <1>8, <1>9, <1>10 DEF Continuation, o, r

\* The results of two tasks, put together.
LEMMA PlusPrograms ==
  ASSUME NEW i \in Items, NEW j \in Items
  PROVE  /\ Plus(i, j) \in Items
         /\ Programs(Plus(i, j)) = Programs(i) \cup Programs(j)
         /\ Plus(i, j).bug = (i.bug \/ j.bug)
<1>1. /\ i.open \in Seq(Unit) /\ j.open \in Seq(Unit)
      /\ i.correct \in SUBSET Unit /\ j.correct \in SUBSET Unit
      /\ i.bug \in BOOLEAN /\ j.bug \in BOOLEAN
  BY DEF Items
<1>2. i.open \o j.open \in Seq(Unit) /\ ToSet(i.open \o j.open) = ToSet(i.open) \cup ToSet(j.open)
  BY <1>1, ConcatElements
<1> QED
  BY <1>1, <1>2 DEF Plus, Items, Programs

\* What is reported of a program has it, or is a bug.
LEMMA ReportedPrograms ==
  ASSUME NEW u \in Unit, NEW a
  PROVE  /\ Open(u) \in Items /\ Programs(Open(u)) = {u}
         /\ Reported(u, a) \in Items
         /\ Reported(u, a).bug \/ u \in Programs(Reported(u, a))
<1>1. <<u>> \in Seq(Unit) /\ ToSet(<<u>>) = {u} /\ <<>> \in Seq(Unit) /\ ToSet(<<>>) = {}
  BY DEF ToSet
<1> QED
  BY <1>1 DEF Open, Reported, Bug, NoItems, Items, Programs

\* The task for u is over, and its results i cover u.
LEMMA CollectInductive ==
  ASSUME Inductive, phase = "round", NEW u \in Unit, stage[u] \notin {"none", "collected"},
         NEW i \in Items, Collect(u, i), UNCHANGED <<check, got, decided>>,
         i.bug \/ Paths[u] \subseteq Executions(Programs(i))
  PROVE  Inductive'
<1> DEFINE others == {v \in Unit \ {u} : stage[v] \notin {"none", "collected"}}
           j == Plus(collected, i)
<1>1. /\ j \in Items /\ Programs(j) = Programs(collected) \cup Programs(i)
      /\ j.bug = (collected.bug \/ i.bug)
  BY PlusPrograms DEF Inductive, TypeOK
<1>2. InRound = others \cup {u}
  BY DEF InRound
<1>3. j.bug \/ Covers(results \cup ToSet(open) \cup Programs(j) \cup others)
  BY <1>1, <1>2 DEF Inductive, RoundCovers, Covers, Executions
<1> HIDE DEF j
<1>4. CASE others = {} /\ Continuation(j)
  <2>1. j.bug \/ Covers(results \cup ToSet(open) \cup Programs(j))
    BY <1>3, <1>4
  <2> QED
    BY <1>1, <1>4, <2>1, ContinuationInductive DEF Inductive
<1>5. CASE /\ stage' = [stage EXCEPT ![u] = "collected"] /\ collected' = j
           /\ UNCHANGED <<phase, open, executed, results, steps, result>>
  <2>1. TypeOK'
    BY <1>1, <1>5 DEF Inductive, TypeOK
  <2>2. Fresh' /\ HalvesKept' /\ Soundness'
    BY <1>5 DEF Inductive, TypeOK, Fresh, HalvesKept, Soundness, Executions
  <2>3. InRound' = others
    BY <1>5 DEF InRound, Inductive, TypeOK
  <2>4. RoundCovers'
    BY <1>3, <1>5, <2>3 DEF RoundCovers, Covers, Executions
  <2> QED
    BY <2>1, <2>2, <2>4 DEF Inductive
<1> QED
  BY <1>4, <1>5 DEF Collect, j

LEMMA InitInductive == Init => Inductive
<1> SUFFICES ASSUME Init PROVE Inductive
  OBVIOUS
<1>1. TypeOK
  BY NoItemsTyped, SplitAssumption DEF Init, TypeOK, NoResult, Result
<1>2. Fresh /\ HalvesKept /\ RoundCovers /\ Soundness
  BY DEF Init, Fresh, HalvesKept, RoundCovers, Soundness, NoResult, Result
<1> QED
  BY <1>1, <1>2 DEF Inductive

\* A result ERROR ends the splitter and says nothing.
LEMMA FailsInductive ==
  ASSUME Inductive, Fails, UNCHANGED <<check, got, decided>>
  PROVE  Inductive'
<1>1. <<>> \in Seq(Unit)
  OBVIOUS
<1> QED
  BY <1>1, EndInductive DEF Fails, Result, Inductive, TypeOK

LEMMA CheckWholeInductive == Inductive /\ CheckWhole => Inductive'
<1> SUFFICES ASSUME Inductive, CheckWhole PROVE Inductive'
  OBVIOUS
<1>1. TypeOK'
  <2>1. check' \in [Unit -> {"none", "running", "stopped"} \cup Answers]
    BY DEF Inductive, TypeOK, CheckWhole
  <2> QED
    BY <2>1 DEF Inductive, TypeOK, CheckWhole
<1>2. Fresh' /\ RoundCovers' /\ Soundness'
  BY DEF Inductive, Fresh, RoundCovers, Soundness, CheckWhole, Executions
<1>3. HalvesKept'
  BY FreshAssumption DEF Inductive, TypeOK, HalvesKept, CheckWhole, Halves
<1> QED
  BY <1>1, <1>2, <1>3 DEF Inductive

LEMMA WholeCheckedInductive == Inductive /\ WholeChecked => Inductive'
<1> SUFFICES ASSUME Inductive, WholeChecked PROVE Inductive'
  OBVIOUS
<1>1. CASE Fails
  BY <1>1, FailsInductive DEF WholeChecked
<1>2. CASE Continuation(Reported(Whole, check[Whole]))
  <2> DEFINE i == Reported(Whole, check[Whole])
  <2>1. i \in Items /\ (i.bug \/ Whole \in Programs(i))
    BY ReportedPrograms, SplitAssumption
  <2>2. i.bug \/ Covers(results \cup ToSet(open) \cup Programs(i))
    BY <2>1 DEF Covers, Executions
  <2> HIDE DEF i
  <2> QED
    BY <1>2, <2>1, <2>2, ContinuationInductive DEF Inductive, WholeChecked, i
<1> QED
  BY <1>1, <1>2 DEF WholeChecked

\* The checks of the halves of u do not matter to any other program that is split.
LEMMA HalvesApart ==
  ASSUME NEW u \in Halved, NEW v \in Halved, u # v
  PROVE  Halves(u) \cap Halves(v) = {}
BY FreshAssumption DEF Halves

LEMMA SplitDoneInductive ==
  ASSUME Inductive, NEW u \in Unit, SplitDone(u)
  PROVE  Inductive'
<1>1. stage' = [stage EXCEPT ![u] = "check"] /\ stage[u] = "split" /\ u \in Halved
  BY DEF SplitDone
<1>2. TypeOK'
  BY DEF Inductive, TypeOK, SplitDone
<1>3. Fresh'
  BY DEF Inductive, TypeOK, Fresh, SplitDone
<1>4. HalvesKept'
  <2> SUFFICES ASSUME NEW v \in Unit, stage'[v] = "check"
               PROVE  /\ v \in Halved
                      /\ decided[v] = "none" =>
                           \A h \in Halves(v) : check'[h] = "running" \/ h \in Programs(got[v])
                      /\ decided[v] = "items" => Halves(v) \subseteq Programs(got[v])
                      /\ decided[v] = "bug" => got[v].bug
    BY DEF HalvesKept, SplitDone
  <2>1. CASE v = u
    <3>1. Halves(u) \subseteq Unit
      BY <1>1, SplitAssumption DEF Halves
    <3>2. \A h \in Halves(u) : check'[h] = "running"
      BY <3>1 DEF SplitDone
    <3>3. decided[u] = "none"
      BY <1>1 DEF Inductive, Fresh
    <3> QED
      BY <1>1, <2>1, <3>2, <3>3
  <2>2. CASE v # u
    <3>1. stage[v] = "check"
      BY <1>1, <2>2 DEF Inductive, TypeOK
    <3>2. v \in Halved /\ Halves(v) \subseteq Unit
      BY <3>1, SplitAssumption DEF Inductive, HalvesKept, Halves
    <3>3. \A h \in Halves(v) : check'[h] = check[h]
      BY <1>1, <2>2, <3>2, HalvesApart DEF SplitDone
    <3> QED
      BY <3>1, <3>2, <3>3 DEF Inductive, HalvesKept
  <2> QED
    BY <2>1, <2>2
<1>5. RoundCovers'
  <2>1. InRound' = InRound
    BY <1>1 DEF InRound, Inductive, TypeOK
  <2> QED
    BY <2>1 DEF Inductive, RoundCovers, Covers, Executions, SplitDone
<1>6. Soundness'
  BY DEF Inductive, Soundness, Executions, SplitDone
<1> QED
  BY <1>2, <1>3, <1>4, <1>5, <1>6 DEF Inductive

LEMMA PassedOnInductive ==
  ASSUME Inductive, NEW u \in Unit, SplitFailed(u) \/ Identity(u)
  PROVE  Inductive'
<1>1. Open(u) \in Items /\ Paths[u] \subseteq Executions(Programs(Open(u)))
  BY ReportedPrograms DEF Executions
<1> QED
  BY <1>1, CollectInductive DEF SplitFailed, Identity

LEMMA CheckDoneInductive ==
  ASSUME Inductive, NEW u \in Halved, NEW h \in Halves(u), CheckDone(u, h)
  PROVE  Inductive'
<1>1. /\ u \in Unit /\ h \in Unit /\ Halves(u) \subseteq Unit
      /\ stage[u] = "check" /\ decided[u] = "none" /\ check[h] = "running"
  BY SplitAssumption DEF CheckDone, Halves
<1>2. PICK a \in Answers :
        /\ check' = [check EXCEPT ![h] = a]
        /\ got' = [got EXCEPT ![u] = IF a = "error" THEN NoItems
                                     ELSE IF a = "incorrect" THEN Bug
                                     ELSE Plus(got[u], Reported(h, a))]
        /\ decided' = [decided EXCEPT ![u] =
             CASE a = "error" -> "error"
               [] a = "incorrect" -> "bug"
               [] a \notin {"error", "incorrect"} /\
                  \A v \in Halves(u) \ {h} : check[v] # "running" -> "items"
               [] OTHER -> "none"]
  BY DEF CheckDone
<1>3. got[u] \in Items /\ Bug \in Items /\ Bug.bug /\ NoItems \in Items
  BY <1>1, NoItemsTyped DEF Inductive, TypeOK, Bug, NoItems, Items
<1>4. /\ Plus(got[u], Reported(h, a)) \in Items
      /\ Programs(Plus(got[u], Reported(h, a))) = Programs(got[u]) \cup Programs(Reported(h, a))
  BY <1>1, <1>3, ReportedPrograms, PlusPrograms
<1>5. TypeOK'
  <2>1. got' \in [Unit -> Items]
    BY <1>1, <1>2, <1>3, <1>4 DEF Inductive, TypeOK
  <2>2. decided' \in [Unit -> {"none", "items", "bug", "error"}]
    BY <1>1, <1>2 DEF Inductive, TypeOK
  <2>3. check' \in [Unit -> {"none", "running", "stopped"} \cup Answers]
    BY <1>1, <1>2 DEF Inductive, TypeOK
  <2> QED
    BY <2>1, <2>2, <2>3 DEF Inductive, TypeOK, CheckDone
<1>6. Fresh'
  <2>1. u \in executed
    BY <1>1 DEF Inductive, Fresh
  <2> QED
    BY <1>1, <1>2, <2>1 DEF Inductive, TypeOK, Fresh, CheckDone
<1>7. HalvesKept'
  <2> SUFFICES ASSUME NEW v \in Unit, stage[v] = "check"
               PROVE  /\ v \in Halved
                      /\ decided'[v] = "none" =>
                           \A k \in Halves(v) : check'[k] = "running" \/ k \in Programs(got'[v])
                      /\ decided'[v] = "items" => Halves(v) \subseteq Programs(got'[v])
                      /\ decided'[v] = "bug" => got'[v].bug
    BY DEF HalvesKept, CheckDone
  <2>1. CASE v = u
    <3>1. CASE a = "error"
      <4>1. decided'[u] = "error"
        BY <1>1, <1>2, <3>1 DEF Inductive, TypeOK
      <4> QED
        BY <2>1, <4>1
    <3>2. CASE a = "incorrect"
      <4>1. decided'[u] = "bug" /\ got'[u] = Bug
        BY <1>1, <1>2, <3>2 DEF Inductive, TypeOK
      <4> QED
        BY <1>3, <2>1, <4>1
    <3>3. CASE a \notin {"error", "incorrect"}
      <4>1. got'[u] = Plus(got[u], Reported(h, a))
        BY <1>1, <1>2, <3>3 DEF Inductive, TypeOK
      <4>2. h \in Programs(Reported(h, a))
        <5>1. ~Reported(h, a).bug
          BY <3>3 DEF Reported, Open, NoItems
        <5> QED
          BY <1>1, <5>1, ReportedPrograms
      <4>3. \A k \in Halves(u) \ {h} : check'[k] = check[k]
        BY <1>1, <1>2 DEF Inductive, TypeOK
      <4>4. \A k \in Halves(u) : check'[k] = "running" \/ k \in Programs(got'[u])
        BY <1>1, <1>4, <4>1, <4>2, <4>3 DEF Inductive, HalvesKept
      <4>5. decided'[u] = "items" => \A k \in Halves(u) \ {h} : check[k] # "running"
        BY <1>1, <1>2, <3>3 DEF Inductive, TypeOK
      <4>6. decided'[u] = "items" => Halves(u) \subseteq Programs(got'[u])
        BY <1>4, <4>1, <4>2, <4>3, <4>4, <4>5
      <4>7. decided'[u] # "bug"
        BY <1>1, <1>2, <3>3 DEF Inductive, TypeOK
      <4> QED
        BY <2>1, <4>4, <4>6, <4>7
    <3> QED
      BY <3>1, <3>2, <3>3
  <2>2. CASE v # u
    <3>1. v \in Halved /\ Halves(v) \subseteq Unit
      BY SplitAssumption DEF Inductive, HalvesKept, Halves
    <3>2. \A k \in Halves(v) : check'[k] = check[k]
      BY <1>2, <2>2, <3>1, HalvesApart DEF Inductive, TypeOK
    <3>3. got'[v] = got[v] /\ decided'[v] = decided[v]
      BY <1>2, <2>2 DEF Inductive, TypeOK
    <3> QED
      BY <3>1, <3>2, <3>3 DEF Inductive, HalvesKept
  <2> QED
    BY <2>1, <2>2
<1>8. RoundCovers' /\ Soundness'
  BY DEF Inductive, RoundCovers, Soundness, InRound, Covers, Executions, CheckDone
<1> QED
  BY <1>5, <1>6, <1>7, <1>8 DEF Inductive

LEMMA CheckStoppedInductive ==
  ASSUME Inductive, NEW u \in Halved, NEW h \in Halves(u), CheckStopped(u, h)
  PROVE  Inductive'
<1>1. u \in Unit /\ h \in Unit /\ decided[u] # "none"
  BY SplitAssumption DEF CheckStopped, Halves
<1>2. TypeOK'
  BY <1>1 DEF Inductive, TypeOK, CheckStopped
<1>3. Fresh' /\ RoundCovers' /\ Soundness'
  BY DEF Inductive, Fresh, RoundCovers, Soundness, InRound, Covers, Executions, CheckStopped
<1>4. HalvesKept'
  <2> SUFFICES ASSUME NEW v \in Unit, stage[v] = "check", decided[v] = "none",
                      NEW k \in Halves(v)
               PROVE  check'[k] = "running" \/ k \in Programs(got[v])
    BY DEF Inductive, HalvesKept, CheckStopped
  <2>1. v \in Halved /\ v # u /\ k \in Unit
    BY <1>1, SplitAssumption DEF Inductive, HalvesKept, Halves
  <2>2. check'[k] = check[k]
    BY <2>1, HalvesApart DEF Inductive, TypeOK, CheckStopped
  <2> QED
    BY <2>2 DEF Inductive, HalvesKept
<1> QED
  BY <1>2, <1>3, <1>4 DEF Inductive

LEMMA SplitCheckedInductive ==
  ASSUME Inductive, NEW u \in Unit, SplitChecked(u)
  PROVE  Inductive'
<1>1. CASE decided[u] = "error"
  BY <1>1, FailsInductive DEF SplitChecked
<1>2. CASE decided[u] # "error"
  <2>1. got[u] \in Items /\ decided[u] \in {"items", "bug"} /\ stage[u] = "check"
    BY <1>2 DEF Inductive, TypeOK, SplitChecked
  <2>2. got[u].bug \/ Halves(u) \subseteq Programs(got[u])
    BY <2>1 DEF Inductive, HalvesKept
  <2>3. Paths[u] \subseteq Paths[Left[u]] \cup Paths[Right[u]]
    BY <2>1, SplitAssumption DEF Inductive, HalvesKept
  <2>4. got[u].bug \/ Paths[u] \subseteq Executions(Programs(got[u]))
    BY <2>2, <2>3 DEF Halves, Executions
  <2> QED
    BY <1>2, <2>1, <2>4, CollectInductive DEF SplitChecked
<1> QED
  BY <1>1, <1>2

LEMMA StepInductive == Inductive /\ [Next]_vars => Inductive'
<1> SUFFICES ASSUME Inductive, [Next]_vars PROVE Inductive'
  OBVIOUS
<1>1. CASE CheckWhole
  BY <1>1, CheckWholeInductive
<1>2. CASE WholeChecked
  BY <1>2, WholeCheckedInductive
<1>3. ASSUME NEW u \in Unit, SplitDone(u) PROVE Inductive'
  BY <1>3, SplitDoneInductive
<1>4. ASSUME NEW u \in Unit, SplitFailed(u) \/ Identity(u) PROVE Inductive'
  BY <1>4, PassedOnInductive
<1>5. ASSUME NEW u \in Unit, SplitChecked(u) PROVE Inductive'
  BY <1>5, SplitCheckedInductive
<1>6. ASSUME NEW u \in Halved, NEW h \in Halves(u), CheckDone(u, h) PROVE Inductive'
  BY <1>6, CheckDoneInductive
<1>7. ASSUME NEW u \in Halved, NEW h \in Halves(u), CheckStopped(u, h) PROVE Inductive'
  BY <1>7, CheckStoppedInductive
<1>8. CASE UNCHANGED vars
  BY <1>8 DEF vars, Inductive, TypeOK, Fresh, HalvesKept, RoundCovers, Soundness, InRound,
     Covers, Executions
<1> QED
  BY <1>1, <1>2, <1>3, <1>4, <1>5, <1>6, <1>7, <1>8 DEF Next, TaskFinishes, Over

-----------------------------------------------------------------------------
(* The refinement of ProgramSplitting *)

\* A program that has not been split (see Algorithm).
Unsplit(u) == u \in Halved => check[Left[u]] = "none"

Frontier == {u \in Unit : check[u] \notin {"none", "correct"} /\ Unsplit(u)}
Verified == {u \in Unit : check[u] = "correct"}
Refuted == \E u \in Unit : check[u] = "incorrect"

\* The programs that are open, in a list or on their way back to one; those that
\* are to be split or passed on; those whose halves are checked.
Listed == ToSet(open) \cup ToSet(collected.open)
Pending == {u \in Unit : stage[u] \in {"split", "identity"}}
Checking == {u \in Unit : stage[u] = "check"}

\* The programs that the tasks of a round have still to report.
Given(u) == IF stage[u] = "check" THEN Halves(u) ELSE {u}
InWork == UNION {Given(u) : u \in InRound}

\* Both halves of a program are checked or none is, and they are not before the
\* program was.
HalvesTogether ==
  \A u \in Halved :
    /\ check[Left[u]] = "none" <=> check[Right[u]] = "none"
    /\ check[u] \in {"none", "running"} => check[Left[u]] = "none"

\* There is a result when the splitter is over, and not before.
ResultAtEnd == IF phase = "over" THEN result.status # "none" ELSE result = NoResult

\* The input is checked before anything else happens.
WholeFirst ==
  phase = "whole" =>
    /\ open = <<>> /\ results = {}
    /\ check[Whole] # "stopped"
    /\ \A u \in Unit : check[u] = "none" <=> u # Whole

\* A program that is open has been checked and not been split; the halves of one
\* that was split are checked and not split.
OpenAreUnsplit ==
  phase = "round" =>
    /\ \A u \in Listed \cup Pending : check[u] = "unknown" /\ Unsplit(u)
    /\ \A u \in Checking : \A h \in Halves(u) : check[h] # "none" /\ Unsplit(h)

\* No program is in two lists, twice in one, or in a list and in a round, and the
\* halves of a program are in none of these before they have been reported.
Apart ==
  phase = "round" =>
    /\ IsInjective(open) /\ IsInjective(collected.open)
    /\ ToSet(open) \cap ToSet(collected.open) = {}
    /\ Pending \cap Listed = {}
    /\ \A u \in Checking : Halves(u) \cap (Listed \cup Pending) = {}

\* The results that the two checks of a program have left.
ResultsOfHalves ==
  phase = "round" => \A u \in Checking :
    /\ decided[u] \in {"none", "items"} =>
         /\ IsInjective(got[u].open) /\ ~got[u].bug
         /\ ToSet(got[u].open) = {h \in Halves(u) : check[h] = "unknown"}
         /\ got[u].correct = {h \in Halves(u) : check[h] = "correct"}
         /\ \A h \in Halves(u) : check[h] \in {"running", "unknown", "correct"}
    /\ decided[u] = "items" => \A h \in Halves(u) : check[h] # "running"
    /\ decided[u] = "bug" => got[u] = Bug /\ \E h \in Halves(u) : check[h] = "incorrect"

\* The lists and the tasks of a round hold what is neither verified nor split, what
\* is verified, and whether there is a bug; once a bug was collected only that
\* matters, and results may be missing.
ListsExact ==
  phase = "round" =>
    /\ collected.bug => Refuted
    /\ ~collected.bug =>
         /\ Frontier = Listed \cup {u \in InWork : check[u] # "correct"}
         /\ Verified = results \cup collected.correct \cup {u \in InWork : check[u] = "correct"}
         /\ Refuted => \E u \in InWork : check[u] = "incorrect"

Exact ==
  /\ Inductive
  /\ HalvesTogether /\ ResultAtEnd /\ WholeFirst /\ OpenAreUnsplit /\ Apart
  /\ ResultsOfHalves /\ ListsExact

-----------------------------------------------------------------------------
(* Lists without repetitions *)

\* Two lists without repetitions that have nothing in common, in a row.
LEMMA ConcatInjective ==
  ASSUME NEW S, NEW s \in Seq(S), NEW t \in Seq(S),
         IsInjective(s), IsInjective(t), ToSet(s) \cap ToSet(t) = {}
  PROVE  IsInjective(s \o t)
<1> DEFINE m == Len(s)
           n == Len(t)
<1>1. /\ s \o t \in Seq(S) /\ Len(s \o t) = m + n
      /\ \A i \in 1 .. m + n : (s \o t)[i] = IF i <= m THEN s[i] ELSE t[i - m]
  BY ConcatProperties
<1>2. /\ m \in Nat /\ n \in Nat
      /\ DOMAIN s = 1 .. m /\ DOMAIN t = 1 .. n /\ DOMAIN (s \o t) = 1 .. m + n
  BY <1>1
<1> HIDE DEF m, n
<1>3. SUFFICES ASSUME NEW i \in 1 .. m + n, NEW j \in 1 .. m + n, (s \o t)[i] = (s \o t)[j]
               PROVE  i = j
  BY <1>2 DEF IsInjective
<1>4. CASE i <= m /\ j <= m
  BY <1>1, <1>2, <1>3, <1>4 DEF IsInjective
<1>5. CASE ~(i <= m) /\ ~(j <= m)
  <2>1. i - m \in 1 .. n /\ j - m \in 1 .. n
    BY <1>2, <1>5
  <2>2. t[i - m] = t[j - m]
    BY <1>1, <1>3, <1>5
  <2>3. i - m = j - m
    BY <1>2, <2>1, <2>2 DEF IsInjective
  <2> QED
    BY <1>2, <2>3
<1>6. CASE i <= m /\ ~(j <= m)
  <2>1. i \in 1 .. m /\ j - m \in 1 .. n
    BY <1>2, <1>6
  <2>2. s[i] = t[j - m]
    BY <1>1, <1>3, <1>6
  <2> QED
    BY <1>2, <2>1, <2>2 DEF ToSet
<1>7. CASE ~(i <= m) /\ j <= m
  <2>1. j \in 1 .. m /\ i - m \in 1 .. n
    BY <1>2, <1>7
  <2>2. s[j] = t[i - m]
    BY <1>1, <1>3, <1>7
  <2> QED
    BY <1>2, <2>1, <2>2 DEF ToSet
<1> QED
  BY <1>4, <1>5, <1>6, <1>7

\* The first k elements of a list without repetitions, and the others.
LEMMA SplitInjective ==
  ASSUME NEW S, NEW s \in Seq(S), NEW k \in Nat, IsInjective(s)
  PROVE  LET first == SubSeq(s, 1, IF k < Len(s) THEN k ELSE Len(s))
             rest == SubSeq(s, k + 1, Len(s))
         IN  /\ IsInjective(first) /\ IsInjective(rest)
             /\ ToSet(first) \cap ToSet(rest) = {}
             /\ ToSet(first) \cup ToSet(rest) \subseteq ToSet(s)
<1> DEFINE n == Len(s)
           m == IF k < n THEN k ELSE n
           first == SubSeq(s, 1, m)
           rest == SubSeq(s, k + 1, n)
<1>1. n \in Nat /\ DOMAIN s = 1 .. n /\ \A i \in 1 .. n : s[i] \in S
  OBVIOUS
<1>n. n = Len(s)
  OBVIOUS
<1> HIDE DEF n
<1>2. m \in Nat /\ m <= n /\ m <= k
  BY <1>1
<1>3. \A i \in DOMAIN first : i \in 1 .. n /\ i <= k /\ first[i] = s[i]
  <2>1. \A i \in 1 .. m : s[i] \in S
    BY <1>1, <1>2
  <2>2. 1 \in Int /\ m \in Int
    BY <1>2
  <2> HIDE DEF m
  <2>3. /\ first \in Seq(S)
        /\ Len(first) = IF 1 <= m THEN m - 1 + 1 ELSE 0
        /\ \A i \in 1 .. m - 1 + 1 : first[i] = s[1 + i - 1]
    BY <2>1, <2>2, SubSeqProperties
  <2> HIDE DEF first
  <2>4. DOMAIN first = 1 .. m
    BY <1>2, <2>3
  <2> QED
    BY <1>1, <1>2, <2>3, <2>4
<1>4. \A i \in DOMAIN rest : i \in Nat /\ i + k \in 1 .. n /\ ~(i + k <= k) /\ rest[i] = s[i + k]
  <2>1. \A i \in k + 1 .. n : s[i] \in S
    BY <1>1
  <2>2. k + 1 \in Int /\ n \in Int
    BY <1>1
  <2>3. /\ rest \in Seq(S)
        /\ Len(rest) = IF k + 1 <= n THEN n - (k + 1) + 1 ELSE 0
        /\ \A i \in 1 .. n - (k + 1) + 1 : rest[i] = s[(k + 1) + i - 1]
    BY <2>1, <2>2, SubSeqProperties
  <2> HIDE DEF rest
  <2>4. DOMAIN rest = 1 .. Len(rest)
    BY <2>3
  <2>5. ASSUME NEW i \in DOMAIN rest
        PROVE  /\ i \in 1 .. n - (k + 1) + 1
               /\ i \in Nat /\ i + k \in 1 .. n /\ ~(i + k <= k) /\ (k + 1) + i - 1 = i + k
    BY <1>1, <2>3, <2>4
  <2> QED
    BY <2>3, <2>5
<1> HIDE DEF first, rest, m
<1>5. IsInjective(first)
  BY <1>1, <1>3 DEF IsInjective
<1>6. IsInjective(rest)
  <2>1. \A i, j \in DOMAIN rest : rest[i] = rest[j] => i + k = j + k
    BY <1>1, <1>4 DEF IsInjective
  <2>2. \A i, j \in DOMAIN rest : i + k = j + k => i = j
    BY <1>4
  <2> QED
    BY <2>1, <2>2 DEF IsInjective
<1>7. ToSet(first) \cap ToSet(rest) = {}
  <2>1. \A i \in DOMAIN first, j \in DOMAIN rest : first[i] # rest[j]
    BY <1>1, <1>3, <1>4 DEF IsInjective
  <2> QED
    BY <2>1 DEF ToSet
<1>8. ToSet(first) \cup ToSet(rest) \subseteq ToSet(s)
  BY <1>1, <1>3, <1>4 DEF ToSet
<1> QED
  BY <1>5, <1>6, <1>7, <1>8, <1>n DEF first, rest, m

-----------------------------------------------------------------------------
(* Steps of the algorithm *)

\* What is known of the result, as the algorithm says it.
Answer == CASE result.status = "none" -> "none"
            [] result.status = "ERROR" -> "error"
            [] OTHER -> IF result.bug THEN "bug" ELSE "reduced"

Mapped == <<Frontier, Verified, Refuted, Answer, ToSet(result.residual), result.verified>>

LEMMA MappedInit ==
  ASSUME Frontier = {Whole}, Verified = {}, ~Refuted, result = NoResult
  PROVE  Algorithm!Init
<1>1. ToSet(<<>>) = {}
  BY DEF ToSet
<1> QED
  BY <1>1 DEF Algorithm!Init, Frontier, Unsplit, Verified, Refuted, NoResult, Result

LEMMA MappedStutter ==
  ASSUME UNCHANGED Mapped
  PROVE  UNCHANGED Algorithm!vars
BY DEF Mapped, Frontier, Unsplit, Verified, Refuted, Answer, Algorithm!vars

LEMMA MappedVerify ==
  ASSUME NEW u \in Unit, result.status = "none", u \in Frontier,
         Frontier' = Frontier \ {u}, Verified' = Verified \cup {u},
         Refuted' <=> Refuted, UNCHANGED result
  PROVE  Algorithm!Next
BY DEF Frontier, Unsplit, Verified, Refuted, Algorithm!Next, Algorithm!Verify

LEMMA MappedRefute ==
  ASSUME result.status = "none", Refuted', UNCHANGED <<Frontier, Verified, result>>
  PROVE  Algorithm!Next
BY DEF Frontier, Unsplit, Verified, Refuted, Algorithm!Next, Algorithm!Refute

LEMMA MappedSplit ==
  ASSUME NEW u \in Unit, result.status = "none", u \in Frontier \cap Halved,
         Frontier' = (Frontier \ {u}) \cup {Left[u], Right[u]},
         UNCHANGED <<Verified, result>>, Refuted' <=> Refuted
  PROVE  Algorithm!Next
BY DEF Frontier, Unsplit, Verified, Refuted, Algorithm!Next, Algorithm!Split

LEMMA MappedReport ==
  ASSUME result = NoResult, UNCHANGED check,
         \/ result' = Result("ERROR", FALSE, {}, <<>>)
         \/ Refuted /\ result' = Result("DONE", TRUE, {}, <<>>)
         \/ /\ ~Refuted
            /\ \E s : result' = Result("DONE", FALSE, Verified, s) /\ ToSet(s) = Frontier
  PROVE  Algorithm!Next
<1>1. ToSet(<<>>) = {}
  BY DEF ToSet
<1>2. Algorithm!Report
  BY <1>1 DEF Frontier, Unsplit, Verified, Refuted, NoResult, Result, Algorithm!Report
<1> QED
  BY <1>2 DEF Algorithm!Next

AbstractStep == Algorithm!Next \/ UNCHANGED Algorithm!vars

-----------------------------------------------------------------------------
(* The end of a round *)

\* The results i of all that was under way, put to the open programs, are exact.
ItemsExact(i) ==
  /\ IsInjective(open \o i.open)
  /\ \A u \in ToSet(open) \cup ToSet(i.open) : check[u] = "unknown" /\ Unsplit(u)
  /\ i.bug => Refuted
  /\ ~i.bug => /\ Frontier = ToSet(open) \cup ToSet(i.open)
               /\ Verified = results \cup i.correct
               /\ ~Refuted

LEMMA EndExact ==
  ASSUME Exact, Inductive', UNCHANGED check, NEW r, End(r), r.status # "none"
  PROVE  Exact'
<1>1. phase' = "over" /\ result'.status # "none"
  BY DEF End
<1> QED
  BY <1>1 DEF Exact, HalvesTogether, ResultAtEnd, WholeFirst, OpenAreUnsplit, Apart,
     ResultsOfHalves, ListsExact

LEMMA NextRoundExact ==
  ASSUME Exact, Inductive', phase # "over", UNCHANGED <<check, got, decided>>,
         NEW o \in Seq(Unit), o # <<>>, ~StepOrSplitLimit(StepsAfter, o), NextRound(o),
         IsInjective(o), \A u \in ToSet(o) : check[u] = "unknown" /\ Unsplit(u),
         Frontier = ToSet(o), Verified = results', ~Refuted
  PROVE  Exact'
<1> DEFINE first == ExecTasks(o)
           rest == OtherTasks(o)
<1>1. /\ first \in Seq(Unit) /\ rest \in Seq(Unit)
      /\ ToSet(o) = ToSet(first) \cup ToSet(rest)
      /\ IsInjective(first) /\ IsInjective(rest) /\ ToSet(first) \cap ToSet(rest) = {}
  <2>1. SplitCheckLimit \in Nat
    BY SplitCheckLimitTyped
  <2> HIDE DEF SplitCheckLimit
  <2>2. /\ first \in Seq(Unit) /\ rest \in Seq(Unit)
        /\ ToSet(o) \subseteq ToSet(first) \cup ToSet(rest)
    BY <2>1, SplitElements DEF ExecTasks, OtherTasks
  <2>3. /\ IsInjective(first) /\ IsInjective(rest)
        /\ ToSet(first) \cap ToSet(rest) = {}
        /\ ToSet(first) \cup ToSet(rest) \subseteq ToSet(o)
    BY <2>1, SplitInjective DEF ExecTasks, OtherTasks
  <2> QED
    BY <2>2, <2>3
<1>2. ToSet(first) \subseteq Unit
  BY <1>1 DEF ToSet
<1> HIDE DEF first, rest
<1>3. /\ phase' = "round" /\ open' = rest
      /\ stage' = [u \in Unit |-> IF u \notin ToSet(first) THEN "none"
                                 ELSE IF u \in executed THEN "identity" ELSE "split"]
      /\ collected' = NoItems /\ result' = result
  BY DEF NextRound, first, rest
<1>4. /\ NoItems.open = <<>> /\ ToSet(NoItems.open) = {} /\ IsInjective(NoItems.open)
      /\ NoItems.correct = {} /\ ~NoItems.bug
  BY DEF NoItems, ToSet, IsInjective
<1>5. /\ Listed' = ToSet(rest) /\ Pending' = ToSet(first) /\ Checking' = {}
      /\ InWork' = ToSet(first)
  <2>1. Listed' = ToSet(rest)
    BY <1>3, <1>4 DEF Listed
  <2>2. Pending' = ToSet(first) /\ Checking' = {} /\ InRound' = ToSet(first)
    BY <1>2, <1>3 DEF Pending, Checking, InRound
  <2>3. \A u \in InRound' : Given(u)' = {u}
    BY <1>3, <2>2 DEF Given, Checking, InRound
  <2> QED
    BY <2>1, <2>2, <2>3 DEF InWork
<1>6. HalvesTogether' /\ ResultAtEnd' /\ WholeFirst'
  BY <1>3 DEF Exact, HalvesTogether, ResultAtEnd, WholeFirst
<1>7. OpenAreUnsplit'
  BY <1>1, <1>5 DEF OpenAreUnsplit, Unsplit
<1>8. Apart'
  BY <1>1, <1>3, <1>4, <1>5 DEF Apart
<1>9. ResultsOfHalves'
  BY <1>5 DEF ResultsOfHalves
<1>10. ListsExact'
  <2>1. Frontier' = Frontier /\ Verified' = Verified /\ Refuted' = Refuted
    BY DEF Frontier, Unsplit, Verified, Refuted
  <2>2. {u \in InWork' : check'[u] # "correct"} = ToSet(first)
    BY <1>1, <1>5
  <2>3. {u \in InWork' : check'[u] = "correct"} = {}
    BY <1>1, <1>5
  <2> QED
    BY <1>1, <1>3, <1>4, <1>5, <2>1, <2>2, <2>3 DEF ListsExact
<1> QED
  BY <1>6, <1>7, <1>8, <1>9, <1>10 DEF Exact

LEMMA ContinuationExact ==
  ASSUME Exact, Inductive', phase # "over", UNCHANGED <<check, got, decided>>,
         NEW i \in Items, Continuation(i), ItemsExact(i)
  PROVE  Exact' /\ AbstractStep
<1> DEFINE o == open \o i.open
           r == results \cup i.correct
<1>1. i.open \in Seq(Unit) /\ open \in Seq(Unit) /\ i.bug \in BOOLEAN
  BY DEF Items, Exact, Inductive, TypeOK
<1>2. o \in Seq(Unit) /\ ToSet(o) = ToSet(open) \cup ToSet(i.open)
  BY <1>1, ConcatElements
<1>3. result = NoResult /\ result.status = "none"
  BY DEF Exact, ResultAtEnd, NoResult, Result
<1>4. /\ IsInjective(o) /\ results' = r
      /\ \A u \in ToSet(o) : check[u] = "unknown" /\ Unsplit(u)
      /\ i.bug => Refuted
      /\ ~i.bug => Frontier = ToSet(o) /\ Verified = r /\ ~Refuted
  BY <1>2 DEF ItemsExact, Continuation
<1>e. ToSet(<<>>) = {}
  BY DEF ToSet
<1> HIDE DEF o, r
<1>5. CASE i.bug /\ End(Result("DONE", TRUE, {}, <<>>))
  <2>1. Exact'
    BY <1>5, EndExact DEF Result
  <2>2. Algorithm!Next
    BY <1>3, <1>4, <1>5, MappedReport DEF End
  <2> QED
    BY <2>1, <2>2 DEF AbstractStep
<1>6. CASE ~i.bug /\ \/ o = <<>> /\ End(Result("DONE", FALSE, r, <<>>))
                     \/ End(Result("DONE", FALSE, r, o))
  <2>1. Exact'
    BY <1>6, EndExact DEF Result
  <2>2. \E s : result' = Result("DONE", FALSE, Verified, s) /\ ToSet(s) = Frontier
    BY <1>4, <1>6, <1>e DEF End
  <2>3. Algorithm!Next
    BY <1>3, <1>4, <1>6, <2>2, MappedReport
  <2> QED
    BY <2>1, <2>3 DEF AbstractStep
<1>7. CASE ~i.bug /\ o # <<>> /\ ~StepOrSplitLimit(StepsAfter, o) /\ NextRound(o)
  <2>1. Exact'
    BY <1>2, <1>4, <1>7, NextRoundExact
  <2>2. UNCHANGED result
    BY <1>7 DEF NextRound
  <2>3. UNCHANGED Algorithm!vars
    BY <2>2, MappedStutter DEF Mapped, Frontier, Unsplit, Verified, Refuted, Answer
  <2> QED
    BY <2>1, <2>3 DEF AbstractStep
<1> QED
  BY <1>5, <1>6, <1>7 DEF Continuation, o, r

-----------------------------------------------------------------------------
(* A task of a round is over *)

\* The task for u reports i: what it was given, or a bug in that.
Reports(u, i) ==
  /\ IsInjective(i.open) /\ i.bug \in BOOLEAN
  /\ i.bug => i.open = <<>> /\ \E h \in Given(u) : check[h] = "incorrect"
  /\ ~i.bug => /\ ToSet(i.open) = {h \in Given(u) : check[h] # "correct"}
               /\ i.correct = {h \in Given(u) : check[h] = "correct"}
               /\ \A h \in Given(u) : check[h] \in {"unknown", "correct"}

\* The tasks of the round but that for u that are not over.
Others(u) == {v \in Unit \ {u} : stage[v] \notin {"none", "collected"}}

LEMMA CollectExact ==
  ASSUME Exact, Inductive', phase = "round", NEW u \in Unit, stage[u] \notin {"none", "collected"},
         NEW i \in Items, Collect(u, i), Reports(u, i), UNCHANGED <<check, got, decided>>
  PROVE  /\ Exact' /\ AbstractStep
         /\ Others(u) = {} => ItemsExact(Plus(collected, i))
<1> DEFINE others == {v \in Unit \ {u} : stage[v] \notin {"none", "collected"}}
           j == Plus(collected, i)
           before == ToSet(collected.open)
           more == ToSet(i.open)
<1>1. /\ stage \in [Unit -> {"none", "split", "identity", "check", "collected"}]
      /\ collected \in Items /\ open \in Seq(Unit) /\ collected.open \in Seq(Unit)
      /\ i.open \in Seq(Unit) /\ collected.bug \in BOOLEAN /\ i.bug \in BOOLEAN
  BY DEF Exact, Inductive, TypeOK, Items
<1>2. /\ j \in Items /\ j.bug = (collected.bug \/ i.bug)
      /\ j.correct = collected.correct \cup i.correct
      /\ j.open = collected.open \o i.open /\ j.open \in Seq(Unit)
      /\ ToSet(j.open) = before \cup more
  <2>1. j \in Items /\ j.bug = (collected.bug \/ i.bug)
    BY <1>1, PlusPrograms
  <2>2. j.correct = collected.correct \cup i.correct /\ j.open = collected.open \o i.open
    BY DEF Plus
  <2>3. /\ collected.open \o i.open \in Seq(Unit)
        /\ ToSet(collected.open \o i.open) = before \cup more
    BY <1>1, ConcatElements
  <2> QED
    BY <2>1, <2>2, <2>3
<1>3. /\ u \in InRound /\ InRound = others \cup {u} /\ u \notin others
      /\ u \in Pending \cup Checking
      /\ Pending \cup Checking = InRound
      /\ \A v \in Checking : v \in Halved
  BY <1>1 DEF InRound, Pending, Checking, Exact, Inductive, HalvesKept
<1>4. Given(u) \cap (Listed \cup (Pending \ {u})) = {}
  <2>1. CASE u \in Checking
    BY <2>1 DEF Given, Checking, Exact, Apart
  <2>2. CASE u \in Pending
    BY <2>2 DEF Given, Pending, Exact, Apart
  <2> QED
    BY <1>3, <2>1, <2>2
<1>5. \A v \in Checking \ {u} : Given(u) \cap Halves(v) = {}
  <2>1. CASE u \in Checking
    BY <1>3, <2>1, HalvesApart DEF Given, Checking
  <2>2. CASE u \in Pending
    BY <2>2 DEF Given, Pending, Exact, Apart
  <2> QED
    BY <1>3, <2>1, <2>2
<1>6. /\ more \subseteq Given(u)
      /\ \A h \in more : check[h] = "unknown" /\ Unsplit(h)
  <2>1. /\ more \subseteq Given(u) /\ \A h \in more : check[h] = "unknown"
    <3>1. ToSet(<<>>) = {}
      BY DEF ToSet
    <3>2. CASE i.bug
      BY <3>1, <3>2 DEF Reports
    <3>3. CASE ~i.bug
      BY <3>3 DEF Reports
    <3> QED
      BY <3>2, <3>3
  <2>2. \A h \in Given(u) : Unsplit(h)
    <3>1. CASE u \in Checking
      BY <3>1 DEF Given, Checking, Exact, OpenAreUnsplit
    <3>2. CASE u \in Pending
      BY <3>2 DEF Given, Pending, Exact, OpenAreUnsplit
    <3> QED
      BY <1>3, <3>1, <3>2
  <2> QED
    BY <2>1, <2>2
<1>7. /\ Listed = ToSet(open) \cup before
      /\ IsInjective(open) /\ IsInjective(collected.open) /\ ToSet(open) \cap before = {}
  BY DEF Listed, Exact, Apart
<1>8. IsInjective(j.open) /\ ToSet(open) \cap ToSet(j.open) = {}
  <2>1. before \cap more = {} /\ ToSet(open) \cap more = {}
    BY <1>4, <1>6, <1>7
  <2>2. IsInjective(i.open)
    BY DEF Reports
  <2>3. IsInjective(collected.open \o i.open)
    BY <1>1, <1>7, <2>1, <2>2, ConcatInjective
  <2> QED
    BY <1>2, <1>7, <2>1, <2>3
<1>9. /\ Frontier' = Frontier /\ Verified' = Verified /\ (Refuted' <=> Refuted)
      /\ \A v \in Unit : Unsplit(v)' <=> Unsplit(v)
  BY DEF Frontier, Verified, Refuted, Unsplit
<1>10. j.bug => Refuted
  <2>1. Given(u) \subseteq Unit
    BY <1>3, SplitAssumption DEF Given, Halves, Checking
  <2> QED
    BY <1>2, <2>1 DEF Reports, Refuted, Exact, ListsExact
<1>11. InWork = Given(u) \cup UNION {Given(v) : v \in others}
  BY <1>3 DEF InWork
<1> DEFINE work == UNION {Given(v) : v \in others}
<1>12. ~j.bug => /\ Frontier = ToSet(open) \cup ToSet(j.open) \cup {v \in work : check[v] # "correct"}
                 /\ Verified = results \cup j.correct \cup {v \in work : check[v] = "correct"}
                 /\ Refuted => \E v \in work : check[v] = "incorrect"
  <2> SUFFICES ASSUME ~j.bug
               PROVE  /\ Frontier = ToSet(open) \cup ToSet(j.open) \cup {v \in work : check[v] # "correct"}
                      /\ Verified = results \cup j.correct \cup {v \in work : check[v] = "correct"}
                      /\ Refuted => \E v \in work : check[v] = "incorrect"
    OBVIOUS
  <2>1. /\ Frontier = Listed \cup {v \in InWork : check[v] # "correct"}
        /\ Verified = results \cup collected.correct \cup {v \in InWork : check[v] = "correct"}
        /\ Refuted => \E v \in InWork : check[v] = "incorrect"
    BY <1>1, <1>2 DEF Exact, ListsExact
  <2>2. /\ more = {h \in Given(u) : check[h] # "correct"}
        /\ i.correct = {h \in Given(u) : check[h] = "correct"}
        /\ \A h \in Given(u) : check[h] \in {"unknown", "correct"}
    BY <1>1, <1>2 DEF Reports
  <2> HIDE DEF j, others, work
  <2>3. Frontier = ToSet(open) \cup ToSet(j.open) \cup {v \in work : check[v] # "correct"}
    BY <1>2, <1>7, <1>11, <2>1, <2>2 DEF work
  <2>4. Verified = results \cup j.correct \cup {v \in work : check[v] = "correct"}
    BY <1>2, <1>11, <2>1, <2>2 DEF work
  <2>5. Refuted => \E v \in work : check[v] = "incorrect"
    BY <1>11, <2>1, <2>2 DEF work
  <2> QED
    BY <2>3, <2>4, <2>5
<1>13. \A v \in ToSet(open) \cup ToSet(j.open) : check[v] = "unknown" /\ Unsplit(v)
  BY <1>2, <1>6, <1>7 DEF Exact, OpenAreUnsplit
<1> HIDE DEF j
<1>14. CASE others = {}
  <2>1. work = {}
    BY <1>14
  <2>2. IsInjective(open \o j.open)
    BY <1>1, <1>2, <1>7, <1>8, ConcatInjective
  <2>3. ItemsExact(j)
    BY <1>10, <1>12, <1>13, <2>1, <2>2 DEF ItemsExact
  <2>4. Continuation(j)
    BY <1>14 DEF Collect, j
  <2> QED
    BY <1>2, <2>3, <2>4, ContinuationExact DEF j
<1>15. CASE others # {}
  <2>1. /\ stage' = [stage EXCEPT ![u] = "collected"] /\ collected' = j
        /\ UNCHANGED <<phase, open, results, result>>
    BY <1>15 DEF Collect, j
  <2>2. /\ Pending' = Pending \ {u} /\ Checking' = Checking \ {u}
        /\ InRound' = others /\ Listed' = ToSet(open) \cup ToSet(j.open)
    BY <1>1, <2>1 DEF Pending, Checking, InRound, Listed
  <2>3. InWork' = work
    <3>1. \A v \in others : Given(v)' = Given(v)
      BY <1>1, <2>1 DEF Given
    <3> QED
      BY <2>2, <3>1 DEF InWork
  <2>4. HalvesTogether' /\ ResultAtEnd' /\ WholeFirst'
    BY <2>1 DEF Exact, HalvesTogether, ResultAtEnd, WholeFirst
  <2>5. OpenAreUnsplit'
    <3>1. \A v \in Listed' \cup Pending' : check[v] = "unknown" /\ Unsplit(v)
      BY <1>13, <2>2 DEF Exact, OpenAreUnsplit
    <3>2. \A v \in Checking' : \A h \in Halves(v) : check[h] # "none" /\ Unsplit(h)
      BY <2>2 DEF Exact, OpenAreUnsplit
    <3> QED
      BY <3>1, <3>2 DEF OpenAreUnsplit, Unsplit
  <2>6. Apart'
    <3>1. Listed' = Listed \cup more
      BY <1>2, <1>7, <2>2
    <3>2. Pending' \cap Listed' = {}
      BY <1>4, <1>6, <2>2, <3>1 DEF Exact, Apart
    <3>3. \A v \in Checking' : Halves(v) \cap (Listed' \cup Pending') = {}
      BY <1>5, <1>6, <2>2, <3>1 DEF Exact, Apart
    <3> QED
      BY <1>7, <1>8, <2>1, <3>2, <3>3 DEF Apart
  <2>7. ResultsOfHalves'
    BY <2>2 DEF Exact, ResultsOfHalves
  <2>8. ListsExact'
    BY <1>9, <1>10, <1>12, <2>1, <2>2, <2>3 DEF ListsExact
  <2>9. UNCHANGED Algorithm!vars
    BY <2>1, MappedStutter DEF Mapped, Frontier, Unsplit, Verified, Refuted, Answer
  <2> QED
    BY <1>15, <2>4, <2>5, <2>6, <2>7, <2>8, <2>9 DEF Exact, AbstractStep, Others
<1> QED
  BY <1>14, <1>15 DEF Others

-----------------------------------------------------------------------------
(* Steps *)

LEMMA InitExact == Init => Exact /\ Algorithm!Init
<1> SUFFICES ASSUME Init PROVE Exact /\ Algorithm!Init
  OBVIOUS
<1>1. Inductive
  BY InitInductive
<1>2. /\ Whole \in Unit /\ check[Whole] = "running"
      /\ \A u \in Unit : u # Whole => check[u] = "none"
  BY SplitAssumption DEF Init
<1>3. \A u \in Halved : Left[u] \in Unit /\ Right[u] \in Unit /\ Left[u] # Whole /\ Right[u] # Whole
  BY SplitAssumption, FreshAssumption
<1>4. HalvesTogether /\ ResultAtEnd /\ WholeFirst
  BY <1>2, <1>3 DEF Init, HalvesTogether, ResultAtEnd, WholeFirst
<1>5. OpenAreUnsplit /\ Apart /\ ResultsOfHalves /\ ListsExact
  BY DEF Init, OpenAreUnsplit, Apart, ResultsOfHalves, ListsExact
<1>6. Frontier = {Whole} /\ Verified = {} /\ ~Refuted
  BY <1>2, <1>3 DEF Frontier, Unsplit, Verified, Refuted
<1>7. Algorithm!Init
  BY <1>6, MappedInit DEF Init
<1> QED
  BY <1>1, <1>4, <1>5, <1>7 DEF Exact

\* A check that runs answers a: what is known of the algorithm then.
LEMMA AnswerStep ==
  ASSUME check \in [Unit -> {"none", "running", "stopped"} \cup Answers],
         NEW h \in Unit, check[h] = "running", h \in Frontier,
         NEW a \in Answers, check' = [check EXCEPT ![h] = a],
         result.status = "none", UNCHANGED result
  PROVE  AbstractStep
<1>1. \A u \in Unit : check'[u] = "none" <=> check[u] = "none"
  BY DEF Answers
<1>2. \A u \in Unit : Unsplit(u)' <=> Unsplit(u)
  BY <1>1, SplitAssumption DEF Unsplit
<1>3. CASE a = "correct"
  <2>1. Frontier' = Frontier \ {h}
    BY <1>2, <1>3 DEF Frontier
  <2>2. Verified' = Verified \cup {h} /\ (Refuted' <=> Refuted)
    BY <1>3 DEF Verified, Refuted
  <2> QED
    BY <2>1, <2>2, MappedVerify DEF AbstractStep
<1>4. CASE a # "correct"
  <2>1. Frontier' = Frontier /\ Verified' = Verified
    BY <1>2, <1>4 DEF Frontier, Verified, Answers
  <2>2. CASE a = "incorrect"
    <3>1. Refuted'
      BY <2>2 DEF Refuted
    <3> QED
      BY <2>1, <3>1, MappedRefute DEF AbstractStep
  <2>3. CASE a # "incorrect"
    <3>1. Refuted' <=> Refuted
      BY <2>3 DEF Refuted
    <3>2. UNCHANGED Mapped
      BY <2>1, <3>1 DEF Mapped, Answer, Refuted
    <3> QED
      BY <3>2, MappedStutter DEF AbstractStep
  <2> QED
    BY <2>2, <2>3
<1> QED
  BY <1>3, <1>4

LEMMA CheckWholeExact ==
  ASSUME Exact, CheckWhole, Inductive'
  PROVE  Exact' /\ AbstractStep
<1>1. /\ phase = "whole" /\ check[Whole] = "running" /\ Whole \in Unit
      /\ check \in [Unit -> {"none", "running", "stopped"} \cup Answers]
      /\ UNCHANGED <<phase, open, executed, results, steps, stage, got, decided, collected, result>>
  BY SplitAssumption DEF CheckWhole, Exact, Inductive, TypeOK
<1>2. PICK a \in Answers : check' = [check EXCEPT ![Whole] = a]
  BY DEF CheckWhole
<1>3. \A u \in Unit : check'[u] = "none" <=> check[u] = "none"
  BY <1>1, <1>2 DEF Answers
<1>4. \A u \in Halved : u \in Unit /\ Left[u] \in Unit /\ Right[u] \in Unit
  BY SplitAssumption
<1>5. HalvesTogether'
  <2>1. \A u \in Unit : check'[u] \in {"none", "running"} => check[u] \in {"none", "running"}
    BY <1>1, <1>2
  <2> QED
    BY <1>3, <1>4, <2>1 DEF Exact, HalvesTogether
<1>6. ResultAtEnd' /\ WholeFirst'
  BY <1>1, <1>2, <1>3 DEF Exact, ResultAtEnd, WholeFirst, Answers
<1>7. OpenAreUnsplit' /\ Apart' /\ ResultsOfHalves' /\ ListsExact'
  BY <1>1 DEF OpenAreUnsplit, Apart, ResultsOfHalves, ListsExact
<1>8. Whole \in Frontier
  BY <1>1, <1>4, FreshAssumption DEF Frontier, Unsplit, Exact, WholeFirst
<1>9. result.status = "none"
  BY <1>1 DEF Exact, ResultAtEnd, NoResult, Result
<1>10. AbstractStep
  BY <1>1, <1>2, <1>8, <1>9, AnswerStep
<1> QED
  BY <1>5, <1>6, <1>7, <1>10 DEF Exact

LEMMA FailsExact ==
  ASSUME Exact, phase # "over", Fails, UNCHANGED <<check, got, decided>>, Inductive'
  PROVE  Exact' /\ AbstractStep
<1>1. Exact'
  BY EndExact DEF Fails, Result
<1>2. Algorithm!Next
  BY MappedReport DEF Fails, End, Exact, ResultAtEnd
<1> QED
  BY <1>1, <1>2 DEF AbstractStep

\* The result of the first check is exact, unless it is an error.
LEMMA WholeItemsExact ==
  ASSUME Exact, WholeChecked, check[Whole] # "error"
  PROVE  LET i == Reported(Whole, check[Whole])
         IN  /\ phase = "whole" /\ i \in Items /\ ItemsExact(i) /\ Continuation(i)
             /\ Len(open \o i.open) <= 1
             /\ i.correct \subseteq {u \in Unit : check[u] = "correct" /\ Unsplit(u)}
<1> DEFINE i == Reported(Whole, check[Whole])
<1>1. /\ phase = "whole" /\ Whole \in Unit /\ Continuation(i)
      /\ check[Whole] \in {"correct", "incorrect", "unknown"}
      /\ open = <<>> /\ results = {}
      /\ \A u \in Unit : u # Whole => check[u] = "none"
  BY SplitAssumption DEF WholeChecked, Exact, WholeFirst, Inductive, TypeOK, Answers
<1>2. i \in Items
  BY <1>1, ReportedPrograms
<1>3. Unsplit(Whole)
  BY <1>1, SplitAssumption, FreshAssumption DEF Unsplit
<1>4. /\ Frontier = IF check[Whole] = "correct" THEN {} ELSE {Whole}
      /\ Verified = IF check[Whole] = "correct" THEN {Whole} ELSE {}
      /\ Refuted <=> check[Whole] = "incorrect"
  BY <1>1, <1>3 DEF Frontier, Verified, Refuted
<1>5. /\ i.bug <=> check[Whole] = "incorrect"
      /\ check[Whole] = "unknown" => i.open = <<Whole>> /\ i.correct = {}
      /\ check[Whole] = "correct" => i.open = <<>> /\ i.correct = {Whole}
      /\ check[Whole] = "incorrect" => i.open = <<>> /\ i.correct = {}
  BY <1>1 DEF Reported, Open, Bug, NoItems
<1>6. /\ ToSet(<<>>) = {} /\ ToSet(<<Whole>>) = {Whole}
      /\ IsInjective(<<>>) /\ IsInjective(<<Whole>>)
      /\ <<>> \o <<>> = <<>> /\ <<>> \o <<Whole>> = <<Whole>>
  BY DEF ToSet, IsInjective
<1> HIDE DEF i
<1>7. ItemsExact(i)
  BY <1>1, <1>3, <1>4, <1>5, <1>6 DEF ItemsExact
<1>8. Len(open \o i.open) <= 1
  <2>1. i.open = <<>> \/ i.open = <<Whole>>
    BY <1>1, <1>5
  <2>2. open \o i.open = <<>> \/ open \o i.open = <<Whole>>
    BY <1>1, <1>6, <2>1
  <2>3. Len(<<>>) = 0 /\ Len(<<Whole>>) = 1
    OBVIOUS
  <2> QED
    BY <2>2, <2>3
<1>9. i.correct \subseteq {u \in Unit : check[u] = "correct" /\ Unsplit(u)}
  BY <1>1, <1>3, <1>5
<1> QED
  BY <1>1, <1>2, <1>7, <1>8, <1>9 DEF i

LEMMA WholeCheckedExact ==
  ASSUME Exact, WholeChecked, Inductive'
  PROVE  Exact' /\ AbstractStep
<1>1. CASE check[Whole] = "error"
  BY <1>1, FailsExact DEF WholeChecked
<1>2. CASE check[Whole] # "error"
  BY <1>2, WholeItemsExact, ContinuationExact DEF WholeChecked
<1> QED
  BY <1>1, <1>2

\* The program u has two halves that nothing was known of.
LEMMA SplitDoneExact ==
  ASSUME Exact, NEW u \in Unit, SplitDone(u), Inductive'
  PROVE  Exact' /\ AbstractStep
<1>1. /\ phase = "round" /\ stage[u] = "split" /\ u \in Halved
      /\ stage' = [stage EXCEPT ![u] = "check"]
      /\ check' = [v \in Unit |-> IF v \in Halves(u) THEN "running" ELSE check[v]]
      /\ UNCHANGED <<phase, open, executed, results, steps, got, decided, collected, result>>
      /\ stage \in [Unit -> {"none", "split", "identity", "check", "collected"}]
      /\ check \in [Unit -> {"none", "running", "stopped"} \cup Answers]
  BY DEF SplitDone, Exact, Inductive, TypeOK
<1>2. /\ Halves(u) = {Left[u], Right[u]} /\ Halves(u) \subseteq Unit
      /\ \A v \in Halved : v \in Unit /\ Left[v] \in Unit /\ Right[v] \in Unit
      /\ \A v \in Halved : v # u => Left[v] \notin Halves(u) /\ Right[v] \notin Halves(u)
  BY <1>1, SplitAssumption, HalvesApart DEF Halves
<1>3. u \in Pending /\ check[u] = "unknown" /\ Unsplit(u) /\ u \in InRound
  BY <1>1 DEF Pending, InRound, Exact, OpenAreUnsplit
<1>4. /\ \A h \in Halves(u) : check[h] = "none" /\ h # u /\ Unsplit(h) /\ h # Whole
      /\ \A h \in Halves(u) : h \in Halved => h # u
  <2>1. check[Left[u]] = "none" /\ check[Right[u]] = "none"
    BY <1>1, <1>3 DEF Unsplit, Exact, HalvesTogether
  <2>2. \A h \in Halves(u) : check[h] = "none" /\ h # u
    BY <1>2, <1>3, <2>1
  <2> QED
    BY <1>1, <1>2, <2>2, FreshAssumption DEF Exact, HalvesTogether, Unsplit
<1>5. \A v \in Unit : v # u => (Unsplit(v)' <=> Unsplit(v))
  BY <1>1, <1>2 DEF Unsplit
<1>6. ~Unsplit(u)'
  BY <1>1, <1>2 DEF Unsplit
<1>7. \A v \in Unit : check[v] # "none" => check'[v] = check[v]
  BY <1>1, <1>4
<1>8. /\ Frontier' = (Frontier \ {u}) \cup Halves(u)
      /\ Verified' = Verified /\ (Refuted' <=> Refuted) /\ u \in Frontier
  <2>1. u \in Frontier
    BY <1>3 DEF Frontier
  <2>2. Verified' = Verified /\ (Refuted' <=> Refuted)
    BY <1>1, <1>4 DEF Verified, Refuted
  <2>3. ASSUME NEW v \in Unit
        PROVE  v \in Frontier' <=> v \in (Frontier \ {u}) \cup Halves(u)
    <3>1. CASE v = u
      BY <1>4, <1>6, <3>1 DEF Frontier
    <3>2. CASE v \in Halves(u)
      BY <1>1, <1>4, <1>5, <3>2 DEF Frontier
    <3>3. CASE v # u /\ v \notin Halves(u)
      BY <1>1, <1>5, <3>3 DEF Frontier
    <3> QED
      BY <3>1, <3>2, <3>3
  <2>4. Frontier \subseteq Unit /\ Frontier' \subseteq Unit
    BY DEF Frontier
  <2> QED
    BY <1>2, <2>1, <2>2, <2>3, <2>4
<1>9. /\ Pending' = Pending \ {u} /\ Checking' = Checking \cup {u} /\ u \notin Checking
      /\ InRound' = InRound /\ Listed' = Listed
  BY <1>1 DEF Pending, Checking, InRound, Listed
<1>10. /\ \A v \in Listed \cup Pending : v \in Unit /\ check[v] = "unknown"
       /\ \A v \in Checking : v \in Halved /\ v # u /\ \A h \in Halves(v) : h \in Unit /\ check[h] # "none"
  <2>1. Listed \subseteq Unit
    BY DEF Listed, ToSet, Exact, Inductive, TypeOK, Items
  <2> QED
    BY <1>1, <1>2, <1>9, <2>1, SplitAssumption
       DEF Pending, Checking, Halves, Exact, OpenAreUnsplit, Inductive, HalvesKept
<1>11. /\ u \notin Listed /\ \A v \in Checking : u \notin Halves(v)
  BY <1>1, <1>3 DEF Exact, Apart
<1>12. HalvesTogether'
  <2> SUFFICES ASSUME NEW v \in Halved
               PROVE  /\ check'[Left[v]] = "none" <=> check'[Right[v]] = "none"
                      /\ check'[v] \in {"none", "running"} => check'[Left[v]] = "none"
    BY DEF HalvesTogether
  <2>1. CASE v = u
    BY <1>1, <1>2, <1>3, <1>4, <2>1
  <2>2. CASE v # u
    <3>1. check'[Left[v]] = check[Left[v]] /\ check'[Right[v]] = check[Right[v]]
      BY <1>1, <1>2, <2>2
    <3>2. check'[v] \in {"none", "running"} => check[v] \in {"none", "running"}
      BY <1>1, <1>2, <1>4
    <3> QED
      BY <3>1, <3>2 DEF Exact, HalvesTogether
  <2> QED
    BY <2>1, <2>2
<1>13. ResultAtEnd' /\ WholeFirst'
  BY <1>1 DEF Exact, ResultAtEnd, WholeFirst
<1>14. OpenAreUnsplit'
  <2>1. \A v \in Listed' \cup Pending' : check'[v] = "unknown" /\ Unsplit(v)'
    BY <1>1, <1>5, <1>7, <1>9, <1>10, <1>11 DEF Exact, OpenAreUnsplit
  <2>2. \A v \in Checking : \A h \in Halves(v) : check'[h] # "none" /\ Unsplit(h)'
    BY <1>1, <1>5, <1>7, <1>10, <1>11 DEF Exact, OpenAreUnsplit
  <2>3. \A h \in Halves(u) : check'[h] # "none" /\ Unsplit(h)'
    BY <1>1, <1>2, <1>4, <1>5
  <2> QED
    BY <1>9, <2>1, <2>2, <2>3 DEF OpenAreUnsplit
<1>15. Apart'
  <2>1. Halves(u) \cap (Listed \cup Pending) = {}
    BY <1>4, <1>10
  <2> QED
    BY <1>1, <1>9, <2>1 DEF Exact, Apart
<1>16. ResultsOfHalves'
  <2> SUFFICES ASSUME NEW v \in Checking'
               PROVE  /\ decided[v] \in {"none", "items"} =>
                           /\ IsInjective(got[v].open) /\ ~got[v].bug
                           /\ ToSet(got[v].open) = {h \in Halves(v) : check'[h] = "unknown"}
                           /\ got[v].correct = {h \in Halves(v) : check'[h] = "correct"}
                           /\ \A h \in Halves(v) : check'[h] \in {"running", "unknown", "correct"}
                      /\ decided[v] = "items" => \A h \in Halves(v) : check'[h] # "running"
                      /\ decided[v] = "bug" =>
                           got[v] = Bug /\ \E h \in Halves(v) : check'[h] = "incorrect"
    BY <1>1 DEF ResultsOfHalves
  <2>1. CASE v = u
    <3>1. decided[u] = "none" /\ got[u] = NoItems
      BY <1>1 DEF Exact, Inductive, Fresh
    <3>2. /\ IsInjective(NoItems.open) /\ ~NoItems.bug /\ ToSet(NoItems.open) = {}
          /\ NoItems.correct = {}
      BY DEF NoItems, ToSet, IsInjective
    <3>3. \A h \in Halves(u) : check'[h] = "running"
      BY <1>1, <1>2
    <3> QED
      BY <2>1, <3>1, <3>2, <3>3
  <2>2. CASE v # u
    <3>1. v \in Checking /\ \A h \in Halves(v) : check'[h] = check[h]
      BY <1>7, <1>9, <1>10, <2>2
    <3>2. phase = "round"
      BY <1>1
    <3> QED
      BY <3>1, <3>2 DEF Exact, ResultsOfHalves
  <2> QED
    BY <2>1, <2>2
<1>17. ListsExact'
  <2>1. /\ InWork' = (InWork \ {u}) \cup Halves(u) /\ u \in InWork
        /\ \A v \in InWork : v \in Unit /\ check[v] # "none"
    <3>1. Given(u) = {u} /\ Given(u)' = Halves(u)
      BY <1>1 DEF Given
    <3>2. \A v \in InRound \ {u} : Given(v)' = Given(v) /\ u \notin Given(v)
      BY <1>1, <1>11 DEF Given, Checking, InRound
    <3>3. InWork' = (InWork \ {u}) \cup Halves(u) /\ u \in InWork
      BY <1>3, <1>9, <3>1, <3>2 DEF InWork
    <3>4. \A v \in InRound : \A w \in Given(v) : w \in Unit /\ check[w] # "none"
      BY <1>1, <1>10 DEF Given, InRound, Checking, Pending
    <3> QED
      BY <3>3, <3>4 DEF InWork
  <2>2. \A v \in InWork : check'[v] = check[v]
    BY <1>7, <2>1
  <2>3. \A h \in Halves(u) : check'[h] = "running"
    BY <1>1, <1>2
  <2>4. {v \in InWork' : check'[v] # "correct"} = ({v \in InWork : check[v] # "correct"} \ {u}) \cup Halves(u)
    BY <2>1, <2>2, <2>3
  <2>5. {v \in InWork' : check'[v] = "correct"} = {v \in InWork : check[v] = "correct"}
    BY <1>3, <2>1, <2>2, <2>3
  <2>6. (\E v \in InWork : check[v] = "incorrect") => \E v \in InWork' : check'[v] = "incorrect"
    BY <1>3, <2>1, <2>2
  <2>7. collected' = collected /\ results' = results /\ phase = "round"
    BY <1>1
  <2> QED
    BY <1>8, <1>9, <1>11, <2>4, <2>5, <2>6, <2>7 DEF Exact, ListsExact
<1>18. AbstractStep
  <2>1. result.status = "none"
    BY <1>1 DEF Exact, ResultAtEnd, NoResult, Result
  <2> QED
    BY <1>1, <1>2, <1>8, <2>1, MappedSplit DEF AbstractStep
<1> QED
  BY <1>12, <1>13, <1>14, <1>15, <1>16, <1>17, <1>18 DEF Exact

\* A program that is passed on is reported as it is.
LEMMA PassedOnReports ==
  ASSUME Exact, NEW u \in Unit, SplitFailed(u) \/ Identity(u)
  PROVE  /\ phase = "round" /\ stage[u] \notin {"none", "collected"}
         /\ Open(u) \in Items /\ Collect(u, Open(u)) /\ Reports(u, Open(u))
         /\ UNCHANGED <<check, got, decided>>
<1>1. phase = "round" /\ u \in Pending /\ Given(u) = {u} /\ Collect(u, Open(u))
  BY DEF SplitFailed, Identity, Pending, Given
<1>2. check[u] = "unknown"
  BY <1>1 DEF Exact, OpenAreUnsplit
<1>3. /\ Open(u).open = <<u>> /\ Open(u).bug = FALSE /\ Open(u).correct = {}
      /\ ToSet(<<u>>) = {u} /\ IsInjective(<<u>>)
  BY DEF Open, NoItems, ToSet, IsInjective
<1>4. Reports(u, Open(u))
  BY <1>1, <1>2, <1>3 DEF Reports
<1> QED
  BY <1>1, <1>4, ReportedPrograms DEF SplitFailed, Identity

LEMMA PassedOnExact ==
  ASSUME Exact, NEW u \in Unit, SplitFailed(u) \/ Identity(u), Inductive'
  PROVE  Exact' /\ AbstractStep
BY PassedOnReports, CollectExact

\* The two checks of a program have left the results of its halves.
LEMMA SplitCheckedReports ==
  ASSUME Exact, NEW u \in Unit, SplitChecked(u), decided[u] # "error"
  PROVE  /\ phase = "round" /\ stage[u] \notin {"none", "collected"}
         /\ got[u] \in Items /\ Collect(u, got[u]) /\ Reports(u, got[u])
         /\ UNCHANGED <<check, got, decided>>
<1>1. /\ phase = "round" /\ stage[u] = "check" /\ u \in Checking /\ Given(u) = Halves(u)
      /\ decided[u] \in {"items", "bug"} /\ got[u] \in Items /\ Collect(u, got[u])
      /\ \A h \in Halves(u) : check[h] # "running"
  BY DEF SplitChecked, Checking, Given, Exact, Inductive, TypeOK
<1>2. Reports(u, got[u])
  <2>1. CASE decided[u] = "items"
    <3>1. /\ IsInjective(got[u].open) /\ got[u].bug = FALSE
          /\ ToSet(got[u].open) = {h \in Halves(u) : check[h] = "unknown"}
          /\ got[u].correct = {h \in Halves(u) : check[h] = "correct"}
          /\ \A h \in Halves(u) : check[h] \in {"unknown", "correct"}
      BY <1>1, <2>1 DEF Exact, ResultsOfHalves, Items
    <3>2. {h \in Halves(u) : check[h] = "unknown"} = {h \in Halves(u) : check[h] # "correct"}
      BY <3>1
    <3> QED
      BY <1>1, <3>1, <3>2 DEF Reports
  <2>2. CASE decided[u] = "bug"
    <3>1. /\ Bug.bug /\ Bug.open = <<>> /\ IsInjective(<<>>)
      BY DEF Bug, NoItems, IsInjective
    <3> QED
      BY <1>1, <2>2, <3>1 DEF Reports, Exact, ResultsOfHalves
  <2> QED
    BY <1>1, <2>1, <2>2
<1> QED
  BY <1>1, <1>2 DEF SplitChecked

LEMMA SplitCheckedExact ==
  ASSUME Exact, NEW u \in Unit, SplitChecked(u), Inductive'
  PROVE  Exact' /\ AbstractStep
<1>1. CASE decided[u] = "error"
  BY <1>1, FailsExact DEF SplitChecked
<1>2. CASE decided[u] # "error"
  BY <1>2, SplitCheckedReports, CollectExact
<1> QED
  BY <1>1, <1>2

LEMMA CheckDoneExact ==
  ASSUME Exact, NEW u \in Halved, NEW h \in Halves(u), CheckDone(u, h), Inductive'
  PROVE  Exact' /\ AbstractStep
<1>1. /\ phase = "round" /\ stage[u] = "check" /\ u \in Unit /\ h \in Unit /\ u \in Checking
      /\ Halves(u) \subseteq Unit /\ decided[u] = "none" /\ check[h] = "running"
      /\ check \in [Unit -> {"none", "running", "stopped"} \cup Answers]
      /\ got \in [Unit -> Items]
      /\ decided \in [Unit -> {"none", "items", "bug", "error"}]
      /\ UNCHANGED <<phase, open, executed, results, steps, stage, collected, result>>
  BY SplitAssumption DEF CheckDone, Halves, Checking, Exact, Inductive, TypeOK
<1>2. PICK a \in Answers :
        /\ check' = [check EXCEPT ![h] = a]
        /\ got' = [got EXCEPT ![u] = IF a = "error" THEN NoItems
                                     ELSE IF a = "incorrect" THEN Bug
                                     ELSE Plus(got[u], Reported(h, a))]
        /\ decided' = [decided EXCEPT ![u] =
             CASE a = "error" -> "error"
               [] a = "incorrect" -> "bug"
               [] a \notin {"error", "incorrect"} /\
                  \A v \in Halves(u) \ {h} : check[v] # "running" -> "items"
               [] OTHER -> "none"]
  BY DEF CheckDone
<1>3. \A v \in Unit : check'[v] = "none" <=> check[v] = "none"
  BY <1>1, <1>2 DEF Answers
<1>4. \A v \in Unit : v # h => check'[v] = check[v]
  BY <1>1, <1>2
<1>5. \A v \in Halved : v \in Unit /\ Left[v] \in Unit /\ Right[v] \in Unit
  BY SplitAssumption
<1>6. \A v \in Unit : Unsplit(v)' <=> Unsplit(v)
  BY <1>3, <1>5 DEF Unsplit
<1>7. /\ Listed' = Listed /\ Pending' = Pending /\ Checking' = Checking /\ InRound' = InRound
      /\ InWork' = InWork
  BY <1>1 DEF Listed, Pending, Checking, InRound, InWork, Given
<1>8. /\ Listed \cup Pending \subseteq Unit
      /\ \A v \in Checking : v \in Halved /\ v \in Unit /\ Halves(v) \subseteq Unit
  <2>1. Listed \subseteq Unit
    BY DEF Listed, ToSet, Exact, Inductive, TypeOK, Items
  <2> QED
    BY <2>1, SplitAssumption DEF Pending, Checking, Halves, Exact, Inductive, HalvesKept
<1>9. h \in InWork /\ InWork \subseteq Unit
  <2>1. u \in InRound /\ Given(u) = Halves(u)
    BY <1>1 DEF InRound, Given
  <2>2. \A v \in InRound : Given(v) \subseteq Unit
    BY <1>8 DEF InRound, Given, Checking
  <2> QED
    BY <2>1, <2>2 DEF InWork
<1>10. HalvesTogether'
  <2>1. \A v \in Unit : check'[v] \in {"none", "running"} => check[v] \in {"none", "running"}
    BY <1>1, <1>4
  <2> QED
    BY <1>3, <1>5, <2>1 DEF Exact, HalvesTogether
<1>11. ResultAtEnd' /\ WholeFirst'
  BY <1>1 DEF Exact, ResultAtEnd, WholeFirst
<1>12. OpenAreUnsplit'
  <2>1. \A v \in Listed \cup Pending : v # h
    BY <1>1 DEF Exact, OpenAreUnsplit
  <2> QED
    BY <1>1, <1>3, <1>4, <1>6, <1>7, <1>8, <2>1 DEF Exact, OpenAreUnsplit
<1>13. Apart'
  BY <1>1, <1>7 DEF Exact, Apart
<1>14. ResultsOfHalves'
  <2> SUFFICES ASSUME NEW v \in Checking
               PROVE  /\ decided'[v] \in {"none", "items"} =>
                           /\ IsInjective(got'[v].open) /\ ~got'[v].bug
                           /\ ToSet(got'[v].open) = {k \in Halves(v) : check'[k] = "unknown"}
                           /\ got'[v].correct = {k \in Halves(v) : check'[k] = "correct"}
                           /\ \A k \in Halves(v) : check'[k] \in {"running", "unknown", "correct"}
                      /\ decided'[v] = "items" => \A k \in Halves(v) : check'[k] # "running"
                      /\ decided'[v] = "bug" =>
                           got'[v] = Bug /\ \E k \in Halves(v) : check'[k] = "incorrect"
    BY <1>7 DEF ResultsOfHalves
  <2>1. CASE v = u
    <3>1. CASE a = "error"
      <4>1. decided'[u] = "error"
        BY <1>1, <1>2, <3>1
      <4> QED
        BY <2>1, <4>1
    <3>2. CASE a = "incorrect"
      <4>1. decided'[u] = "bug" /\ got'[u] = Bug /\ check'[h] = "incorrect"
        BY <1>1, <1>2, <3>2
      <4> QED
        BY <2>1, <4>1
    <3>3. CASE a \in {"correct", "unknown"}
      <4> DEFINE rep == Reported(h, a)
                 old == got[u]
      <4>1. decided'[u] # "bug" /\ got'[u] = Plus(old, rep) /\ check'[h] = a
        BY <1>1, <1>2, <3>3
      <4>2. /\ IsInjective(old.open) /\ old.bug = FALSE /\ old.open \in Seq(Unit)
            /\ ToSet(old.open) = {k \in Halves(u) : check[k] = "unknown"}
            /\ old.correct = {k \in Halves(u) : check[k] = "correct"}
            /\ \A k \in Halves(u) : check[k] \in {"running", "unknown", "correct"}
        BY <1>1 DEF Exact, ResultsOfHalves, Items
      <4>3. /\ rep.bug = FALSE /\ rep.open \in Seq(Unit) /\ IsInjective(rep.open)
            /\ ToSet(rep.open) = IF a = "unknown" THEN {h} ELSE {}
            /\ rep.correct = IF a = "correct" THEN {h} ELSE {}
        <5>1. /\ ToSet(<<>>) = {} /\ ToSet(<<h>>) = {h}
              /\ IsInjective(<<>>) /\ IsInjective(<<h>>)
              /\ <<>> \in Seq(Unit) /\ <<h>> \in Seq(Unit)
          BY <1>1 DEF ToSet, IsInjective
        <5>2. CASE a = "unknown"
          <6>1. rep = Open(h)
            BY <5>2 DEF Reported
          <6> QED
            BY <5>1, <5>2, <6>1 DEF Open, NoItems
        <5>3. CASE a = "correct"
          <6>1. rep = [NoItems EXCEPT !.correct = {h}]
            BY <5>3 DEF Reported
          <6> QED
            BY <5>1, <5>3, <6>1 DEF NoItems
        <5> QED
          BY <3>3, <5>2, <5>3
      <4> HIDE DEF rep, old
      <4>4. /\ Plus(old, rep).open = old.open \o rep.open
            /\ Plus(old, rep).correct = old.correct \cup rep.correct
            /\ Plus(old, rep).bug = FALSE
        BY <4>2, <4>3 DEF Plus
      <4>5. ToSet(old.open) \cap ToSet(rep.open) = {}
        BY <1>1, <4>2, <4>3
      <4>6. IsInjective(old.open \o rep.open)
        BY <4>2, <4>3, <4>5, ConcatInjective
      <4>7. ToSet(old.open \o rep.open) = ToSet(old.open) \cup ToSet(rep.open)
        BY <4>2, <4>3, ConcatElements
      <4>8. \A k \in Halves(u) : k # h => check'[k] = check[k]
        BY <1>1, <1>4
      <4>9. ToSet(old.open) \cup ToSet(rep.open) = {k \in Halves(u) : check'[k] = "unknown"}
        BY <1>1, <3>3, <4>1, <4>2, <4>3, <4>8
      <4>10. old.correct \cup rep.correct = {k \in Halves(u) : check'[k] = "correct"}
        BY <1>1, <3>3, <4>1, <4>2, <4>3, <4>8
      <4>11. \A k \in Halves(u) : check'[k] \in {"running", "unknown", "correct"}
        BY <3>3, <4>1, <4>2, <4>8
      <4>12. decided'[u] = "items" => \A k \in Halves(u) \ {h} : check[k] # "running"
        BY <1>1, <1>2, <3>3
      <4>13. decided'[u] = "items" => \A k \in Halves(u) : check'[k] # "running"
        BY <3>3, <4>1, <4>8, <4>12
      <4> QED
        BY <2>1, <4>1, <4>4, <4>6, <4>7, <4>9, <4>10, <4>11, <4>13
    <3> QED
      BY <3>1, <3>2, <3>3 DEF Answers
  <2>2. CASE v # u
    <3>1. got'[v] = got[v] /\ decided'[v] = decided[v]
      BY <1>1, <1>2, <1>8, <2>2
    <3>2. \A k \in Halves(v) : check'[k] = check[k]
      BY <1>4, <1>8, <2>2, HalvesApart
    <3> QED
      BY <1>1, <3>1, <3>2 DEF Exact, ResultsOfHalves
  <2> QED
    BY <2>1, <2>2
<1>15. ListsExact'
  <2>1. collected.bug => Refuted'
    <3>1. \A v \in Unit : check[v] = "incorrect" => check'[v] = "incorrect"
      BY <1>1, <1>4
    <3> QED
      BY <1>1, <3>1 DEF Exact, ListsExact, Refuted
  <2>2. ~collected.bug =>
          /\ Frontier' = Listed \cup {v \in InWork : check'[v] # "correct"}
          /\ Verified' = results \cup collected.correct \cup {v \in InWork : check'[v] = "correct"}
          /\ Refuted' => \E v \in InWork : check'[v] = "incorrect"
    <3> SUFFICES ASSUME ~collected.bug
                 PROVE  /\ Frontier' = Listed \cup {v \in InWork : check'[v] # "correct"}
                        /\ Verified' = results \cup collected.correct \cup {v \in InWork : check'[v] = "correct"}
                        /\ Refuted' => \E v \in InWork : check'[v] = "incorrect"
      OBVIOUS
    <3>1. /\ Frontier = Listed \cup {v \in InWork : check[v] # "correct"}
          /\ Verified = results \cup collected.correct \cup {v \in InWork : check[v] = "correct"}
          /\ Refuted => \E v \in InWork : check[v] = "incorrect"
      BY <1>1 DEF Exact, ListsExact
    <3>2. h \notin Listed
      BY <1>1 DEF Exact, OpenAreUnsplit
    <3>3. Frontier' = IF a = "correct" THEN Frontier \ {h} ELSE Frontier
      BY <1>1, <1>2, <1>3, <1>4, <1>6 DEF Frontier, Answers
    <3>4. Verified' = IF a = "correct" THEN Verified \cup {h} ELSE Verified
      BY <1>1, <1>2, <1>4 DEF Verified
    <3>5. Refuted' <=> Refuted \/ a = "incorrect"
      BY <1>1, <1>2, <1>4 DEF Refuted
    <3>6. \A v \in InWork : v # h => check'[v] = check[v]
      BY <1>4, <1>9
    <3>7. check'[h] = a
      BY <1>1, <1>2
    <3>8. Frontier' = Listed \cup {v \in InWork : check'[v] # "correct"}
      BY <1>1, <1>9, <3>1, <3>2, <3>3, <3>6, <3>7
    <3>9. Verified' = results \cup collected.correct \cup {v \in InWork : check'[v] = "correct"}
      BY <1>1, <1>9, <3>1, <3>4, <3>6, <3>7
    <3>10. Refuted' => \E v \in InWork : check'[v] = "incorrect"
      BY <1>1, <1>9, <3>1, <3>5, <3>6, <3>7
    <3> QED
      BY <3>8, <3>9, <3>10
  <2> QED
    BY <1>1, <1>7, <2>1, <2>2 DEF ListsExact
<1>16. AbstractStep
  <2>1. result.status = "none"
    BY <1>1 DEF Exact, ResultAtEnd, NoResult, Result
  <2>2. h \in Frontier
    BY <1>1 DEF Frontier, Exact, OpenAreUnsplit
  <2> QED
    BY <1>1, <1>2, <2>1, <2>2, AnswerStep
<1> QED
  BY <1>10, <1>11, <1>12, <1>13, <1>14, <1>15, <1>16 DEF Exact

LEMMA CheckStoppedExact ==
  ASSUME Exact, NEW u \in Halved, NEW h \in Halves(u), CheckStopped(u, h), Inductive'
  PROVE  Exact' /\ AbstractStep
<1>1. /\ phase = "round" /\ stage[u] = "check" /\ u \in Unit /\ h \in Unit /\ u \in Checking
      /\ decided[u] # "none" /\ check[h] = "running" /\ check' = [check EXCEPT ![h] = "stopped"]
      /\ check \in [Unit -> {"none", "running", "stopped"} \cup Answers]
      /\ UNCHANGED <<phase, open, executed, results, steps, stage, got, decided, collected, result>>
  BY SplitAssumption DEF CheckStopped, Halves, Checking, Exact, Inductive, TypeOK
<1>2. \A v \in Unit : v # h => check'[v] = check[v]
  BY <1>1
<1>3. check'[h] = "stopped"
  BY <1>1
<1>4. \A v \in Halved : v \in Unit /\ Left[v] \in Unit /\ Right[v] \in Unit
  BY SplitAssumption
<1>5. \A v \in Unit : Unsplit(v)' <=> Unsplit(v)
  BY <1>1, <1>2, <1>3, <1>4 DEF Unsplit
<1>6. /\ Listed' = Listed /\ Pending' = Pending /\ Checking' = Checking /\ InRound' = InRound
      /\ InWork' = InWork
  BY <1>1 DEF Listed, Pending, Checking, InRound, InWork, Given
<1>7. /\ Listed \cup Pending \subseteq Unit
      /\ \A v \in Checking : v \in Halved /\ v \in Unit /\ Halves(v) \subseteq Unit
  <2>1. Listed \subseteq Unit
    BY DEF Listed, ToSet, Exact, Inductive, TypeOK, Items
  <2> QED
    BY <2>1, SplitAssumption DEF Pending, Checking, Halves, Exact, Inductive, HalvesKept
<1>8. InWork \subseteq Unit
  <2>1. \A v \in InRound : Given(v) \subseteq Unit
    BY <1>7 DEF InRound, Given, Checking
  <2> QED
    BY <2>1 DEF InWork
<1>9. Frontier' = Frontier /\ Verified' = Verified /\ (Refuted' <=> Refuted)
  BY <1>1, <1>2, <1>3, <1>5 DEF Frontier, Verified, Refuted
<1>10. HalvesTogether'
  <2>1. \A v \in Unit : check'[v] \in {"none", "running"} => check[v] \in {"none", "running"}
    BY <1>2, <1>3
  <2> QED
    BY <1>1, <1>2, <1>3, <1>4, <2>1 DEF Exact, HalvesTogether
<1>11. ResultAtEnd' /\ WholeFirst'
  BY <1>1 DEF Exact, ResultAtEnd, WholeFirst
<1>12. OpenAreUnsplit'
  <2>1. \A v \in Listed \cup Pending : v # h
    BY <1>1 DEF Exact, OpenAreUnsplit
  <2> QED
    BY <1>1, <1>2, <1>3, <1>5, <1>6, <1>7, <2>1 DEF Exact, OpenAreUnsplit
<1>13. Apart'
  BY <1>1, <1>6 DEF Exact, Apart
<1>14. ResultsOfHalves'
  <2> SUFFICES ASSUME NEW v \in Checking
               PROVE  /\ decided[v] \in {"none", "items"} =>
                           /\ IsInjective(got[v].open) /\ ~got[v].bug
                           /\ ToSet(got[v].open) = {k \in Halves(v) : check'[k] = "unknown"}
                           /\ got[v].correct = {k \in Halves(v) : check'[k] = "correct"}
                           /\ \A k \in Halves(v) : check'[k] \in {"running", "unknown", "correct"}
                      /\ decided[v] = "items" => \A k \in Halves(v) : check'[k] # "running"
                      /\ decided[v] = "bug" =>
                           got[v] = Bug /\ \E k \in Halves(v) : check'[k] = "incorrect"
    BY <1>1, <1>6 DEF ResultsOfHalves
  <2>1. CASE v = u
    <3>1. decided[u] # "items"
      BY <1>1 DEF Exact, ResultsOfHalves
    <3>2. \A k \in Halves(u) : check[k] = "incorrect" => check'[k] = "incorrect"
      BY <1>1, <1>2, <1>7
    <3> QED
      BY <1>1, <2>1, <3>1, <3>2 DEF Exact, ResultsOfHalves
  <2>2. CASE v # u
    <3>1. \A k \in Halves(v) : check'[k] = check[k]
      BY <1>2, <1>7, <2>2, HalvesApart
    <3> QED
      BY <1>1, <3>1 DEF Exact, ResultsOfHalves
  <2> QED
    BY <2>1, <2>2
<1>15. ListsExact'
  <2>1. {v \in InWork : check'[v] # "correct"} = {v \in InWork : check[v] # "correct"}
    BY <1>1, <1>2, <1>3, <1>8
  <2>2. {v \in InWork : check'[v] = "correct"} = {v \in InWork : check[v] = "correct"}
    BY <1>1, <1>2, <1>3, <1>8
  <2>3. (\E v \in InWork : check[v] = "incorrect") => \E v \in InWork : check'[v] = "incorrect"
    BY <1>1, <1>2, <1>8
  <2> QED
    BY <1>1, <1>6, <1>9, <2>1, <2>2, <2>3 DEF Exact, ListsExact
<1>16. UNCHANGED Algorithm!vars
  <2>1. UNCHANGED Mapped
    BY <1>1, <1>9 DEF Mapped, Answer, Refuted
  <2> QED
    BY <2>1, MappedStutter
<1> QED
  BY <1>10, <1>11, <1>12, <1>13, <1>14, <1>15, <1>16 DEF Exact, AbstractStep

LEMMA StepExact == Exact /\ [Next]_vars => Exact' /\ AbstractStep
<1> SUFFICES ASSUME Exact, [Next]_vars PROVE Exact' /\ AbstractStep
  OBVIOUS
<1>1. Inductive'
  BY StepInductive DEF Exact
<1>2. CASE CheckWhole
  BY <1>1, <1>2, CheckWholeExact
<1>3. CASE WholeChecked
  BY <1>1, <1>3, WholeCheckedExact
<1>4. ASSUME NEW u \in Unit, SplitDone(u) PROVE Exact' /\ AbstractStep
  BY <1>1, <1>4, SplitDoneExact
<1>5. ASSUME NEW u \in Unit, SplitFailed(u) \/ Identity(u) PROVE Exact' /\ AbstractStep
  BY <1>1, <1>5, PassedOnExact
<1>6. ASSUME NEW u \in Unit, SplitChecked(u) PROVE Exact' /\ AbstractStep
  BY <1>1, <1>6, SplitCheckedExact
<1>7. ASSUME NEW u \in Halved, NEW h \in Halves(u), CheckDone(u, h) PROVE Exact' /\ AbstractStep
  BY <1>1, <1>7, CheckDoneExact
<1>8. ASSUME NEW u \in Halved, NEW h \in Halves(u), CheckStopped(u, h) PROVE Exact' /\ AbstractStep
  BY <1>1, <1>8, CheckStoppedExact
<1>9. CASE UNCHANGED vars
  <2>1. Exact'
    BY <1>1, <1>9 DEF vars, Exact, HalvesTogether, ResultAtEnd, WholeFirst, OpenAreUnsplit,
       Apart, ResultsOfHalves, ListsExact, Frontier, Verified, Refuted, Unsplit, Listed,
       Pending, Checking, InRound, InWork, Given
  <2>2. UNCHANGED Algorithm!vars
    BY <1>9 DEF vars, Algorithm!vars
  <2> QED
    BY <2>1, <2>2 DEF AbstractStep
<1> QED
  BY <1>2, <1>3, <1>4, <1>5, <1>6, <1>7, <1>8, <1>9 DEF Next, TaskFinishes, Over

-----------------------------------------------------------------------------
(* No work is done twice, and the limits *)

\* The programs that there are, each without what was split off it.
Leaves == {u \in Unit : check[u] # "none" /\ Unsplit(u)}
VerifiedLeaves == {u \in Unit : check[u] = "correct" /\ Unsplit(u)}

\* The programs that have a task in this round, and those whose task is over.
Tasks == {u \in Unit : stage[u] # "none"}
Collected == {u \in Unit : stage[u] = "collected"}

\* When the halves of a program share nothing, no two of the leaves do.
LeavesApart ==
  HalvesShareNothing => \A u, v \in Leaves : u # v => Paths[u] \cap Paths[v] = {}

\* There is no task before the first round.
NothingCollected ==
  phase = "whole" => collected = NoItems /\ \A u \in Unit : stage[u] = "none"

\* What counts as verified was verified and is not split, and is not the half of
\* a program whose task is not over.
ResultsAreLeaves ==
  phase # "over" =>
    /\ results \cup collected.correct \subseteq VerifiedLeaves
    /\ \A u \in Checking : Halves(u) \cap (results \cup collected.correct) = {}

\* A round has few enough tasks, and every task leaves two open programs at most.
RoundLimits ==
  phase = "round" =>
    /\ IsFiniteSet(Tasks) /\ Cardinality(Tasks) <= SplitCheckLimit
    /\ MaxWidth >= 0 => Len(open) + Cardinality(Tasks) <= MaxWidth - 1
    /\ Len(collected.open) <= 2 * Cardinality(Collected)

\* Only halves of the programs of a round are checked in it.
OnlyHalvesRun ==
  phase = "round" => \A u \in Unit : check[u] = "running" => \E v \in Checking : u \in Halves(v)

Tight ==
  /\ LeavesApart /\ NothingCollected /\ ResultsAreLeaves /\ RoundLimits /\ OnlyHalvesRun
  /\ WidthKept(Len(result.residual))

-----------------------------------------------------------------------------
(* Sizes *)

\* A list has no more elements than its length.
LEMMA ElementsBounded ==
  ASSUME NEW S, NEW s \in Seq(S)
  PROVE  IsFiniteSet(ToSet(s)) /\ Cardinality(ToSet(s)) <= Len(s)
<1>1. Len(s) \in Nat /\ DOMAIN s = 1 .. Len(s) /\ s \in [1 .. Len(s) -> ToSet(s)]
  BY DEF ToSet
<1>2. s \in Surjection(1 .. Len(s), ToSet(s))
  BY <1>1 DEF Surjection, ToSet
<1>3. ExistsSurjection(1 .. Len(s), ToSet(s))
  BY <1>2 DEF ExistsSurjection
<1> QED
  BY <1>1, <1>3, FS_SurjCardinalityBound, FS_NatSurjection

\* A list without repetitions of two programs at most has length two at most.
LEMMA PairBounded ==
  ASSUME NEW s \in Seq(Unit), IsInjective(s), NEW a, NEW b, ToSet(s) \subseteq {a, b}
  PROVE  Len(s) <= 2
<1>1. Len(s) \in Nat /\ DOMAIN s = 1 .. Len(s)
  OBVIOUS
<1>2. SUFFICES ASSUME Len(s) >= 3 PROVE FALSE
  BY <1>1
<1>3. 1 \in DOMAIN s /\ 2 \in DOMAIN s /\ 3 \in DOMAIN s
  BY <1>1, <1>2
<1>4. s[1] \in {a, b} /\ s[2] \in {a, b} /\ s[3] \in {a, b}
  BY <1>3 DEF ToSet
<1>5. s[1] # s[2] /\ s[1] # s[3] /\ s[2] # s[3]
  BY <1>3 DEF IsInjective
<1> QED
  BY <1>4, <1>5

\* A set of programs has at most twice as many halves.
LEMMA HalvesBounded ==
  ASSUME NEW C, IsFiniteSet(C), C \subseteq Halved, NEW R, R \subseteq UNION {Halves(u) : u \in C}
  PROVE  IsFiniteSet(R) /\ Cardinality(R) <= 2 * Cardinality(C)
<1> DEFINE left == {Left[u] : u \in C}
           right == {Right[u] : u \in C}
<1>1. [u \in C |-> Left[u]] \in Surjection(C, left) /\ [u \in C |-> Right[u]] \in Surjection(C, right)
  BY DEF Surjection
<1>2. /\ IsFiniteSet(left) /\ IsFiniteSet(right)
      /\ Cardinality(left) <= Cardinality(C) /\ Cardinality(right) <= Cardinality(C)
  BY <1>1, FS_Surjection
<1>3. R \subseteq left \cup right
  BY DEF Halves
<1> HIDE DEF left, right
<1>4. /\ IsFiniteSet(left \cup right)
      /\ Cardinality(left \cup right) = Cardinality(left) + Cardinality(right) - Cardinality(left \cap right)
      /\ IsFiniteSet(left \cap right)
  BY <1>2, FS_Union, FS_Intersection
<1>5. IsFiniteSet(R) /\ Cardinality(R) <= Cardinality(left \cup right)
  BY <1>3, <1>4, FS_Subset
<1>6. /\ Cardinality(C) \in Nat /\ Cardinality(left) \in Nat /\ Cardinality(right) \in Nat
      /\ Cardinality(left \cap right) \in Nat /\ Cardinality(R) \in Nat
  BY <1>2, <1>4, <1>5, FS_CardinalityType
<1> QED
  BY <1>2, <1>4, <1>5, <1>6

\* What the limits are.
LEMMA LimitsTyped ==
  /\ ParallelizationLimit \in Int /\ SplitCheckLimit \in Int /\ MaxWidth \in Int
  /\ 2 * SplitCheckLimit <= ParallelizationLimit
<1>1. ParallelizationLimit \in Int /\ MaxWidth \in Int
  BY ConfigAssumption DEF ParallelizationLimit
<1> QED
  BY <1>1 DEF SplitCheckLimit

\* The first elements of a list and the others, their number.
LEMMA SplitLengths ==
  ASSUME NEW o \in Seq(Unit), SplitCheckLimit \in Nat
  PROVE  /\ Len(ExecTasks(o)) + Len(OtherTasks(o)) = Len(o)
         /\ Len(ExecTasks(o)) <= SplitCheckLimit
<1>1. Len(o) \in Nat
  OBVIOUS
<1>2. Len(ExecTasks(o)) = IF SplitCheckLimit < Len(o) THEN SplitCheckLimit ELSE Len(o)
  BY <1>1 DEF ExecTasks
<1>3. Len(OtherTasks(o)) = IF SplitCheckLimit < Len(o) THEN Len(o) - SplitCheckLimit ELSE 0
  BY <1>1 DEF OtherTasks
<1> QED
  BY <1>1, <1>2, <1>3

-----------------------------------------------------------------------------
(* Steps *)

\* A check that answers or is stopped makes no new program.
LEMMA LeavesKept ==
  ASSUME LeavesApart, \A u \in Unit : check'[u] = "none" <=> check[u] = "none"
  PROVE  LeavesApart'
<1>1. Leaves' = Leaves
  BY SplitAssumption DEF Leaves, Unsplit
<1> QED
  BY <1>1 DEF LeavesApart, HalvesShareNothing

\* A step that only answers or stops checks.
LEMMA AnswerTight ==
  ASSUME Exact, Tight,
         UNCHANGED <<phase, open, results, stage, collected, result>>,
         \A u \in Unit : check'[u] = "none" <=> check[u] = "none",
         \A u \in Unit : check[u] = "correct" => check'[u] = "correct",
         \A u \in Unit : check'[u] = "running" => check[u] = "running"
  PROVE  Tight'
<1>1. /\ Checking' = Checking /\ Tasks' = Tasks /\ Collected' = Collected
      /\ VerifiedLeaves \subseteq VerifiedLeaves'
  BY SplitAssumption DEF Checking, Tasks, Collected, VerifiedLeaves, Unsplit
<1>2. LeavesApart'
  BY LeavesKept DEF Tight
<1>3. NothingCollected' /\ WidthKept(Len(result.residual))'
  BY DEF Tight, NothingCollected, WidthKept
<1>4. ResultsAreLeaves'
  BY <1>1 DEF Tight, ResultsAreLeaves
<1>5. RoundLimits' /\ OnlyHalvesRun'
  BY <1>1 DEF Tight, RoundLimits, OnlyHalvesRun
<1> QED
  BY <1>2, <1>3, <1>4, <1>5 DEF Tight

\* The end of the splitter.
LEMMA EndTight ==
  ASSUME Exact, Tight, NEW r, End(r), UNCHANGED check, WidthKept(Len(r.residual))
  PROVE  Tight'
<1>1. phase' = "over" /\ result' = r
  BY DEF End
<1>2. LeavesApart'
  BY LeavesKept DEF Tight
<1>3. WidthKept(Len(result.residual))'
  BY <1>1 DEF WidthKept
<1> QED
  BY <1>1, <1>2, <1>3 DEF Tight, NothingCollected, ResultsAreLeaves, RoundLimits, OnlyHalvesRun

\* An ERROR or a bug has no residual, and no limit is below zero.
LEMMA NoneIsWithin == WidthKept(Len(<<>>))
<1>1. Len(<<>>) = 0
  OBVIOUS
<1>2. MaxWidth > 1 => MaxWidth - 1 + SplitCheckLimit >= 0
  BY LimitsTyped, ConfigAssumption DEF SplitCheckLimit
<1> QED
  BY <1>1, <1>2, LimitsTyped DEF WidthKept

LEMMA NextRoundTight ==
  ASSUME Exact, Tight, phase # "over", UNCHANGED <<check, got, decided>>,
         NEW o \in Seq(Unit), o # <<>>, ~StepOrSplitLimit(StepsAfter, o), NextRound(o),
         \A u \in ToSet(o) : check[u] = "unknown", Frontier = ToSet(o),
         results' \subseteq VerifiedLeaves
  PROVE  Tight'
<1> DEFINE first == ExecTasks(o)
           rest == OtherTasks(o)
<1>1. SplitCheckLimit \in Nat
  BY SplitCheckLimitTyped
<1>2. first \in Seq(Unit) /\ rest \in Seq(Unit)
  <2> HIDE DEF SplitCheckLimit
  <2> QED
    BY <1>1, SplitElements DEF ExecTasks, OtherTasks
<1>3. /\ Len(first) \in Nat /\ Len(rest) \in Nat /\ Len(o) \in Nat
      /\ Len(first) + Len(rest) = Len(o) /\ Len(first) <= SplitCheckLimit
  BY <1>1, <1>2, SplitLengths
<1>4. IsFiniteSet(ToSet(first)) /\ Cardinality(ToSet(first)) <= Len(first) /\ ToSet(first) \subseteq Unit
  BY <1>2, ElementsBounded DEF ToSet
<1>5. Cardinality(ToSet(first)) \in Nat
  BY <1>4, FS_CardinalityType
<1> HIDE DEF first, rest
<1>6. /\ phase' = "round" /\ open' = rest
      /\ stage' = [u \in Unit |-> IF u \notin ToSet(first) THEN "none"
                                 ELSE IF u \in executed THEN "identity" ELSE "split"]
      /\ collected' = NoItems /\ result' = result
  BY DEF NextRound, first, rest
<1>7. Tasks' = ToSet(first) /\ Collected' = {} /\ Checking' = {}
  BY <1>4, <1>6 DEF Tasks, Collected, Checking
<1>8. NoItems.open = <<>> /\ Len(NoItems.open) = 0 /\ NoItems.correct = {}
  BY DEF NoItems
<1>9. LeavesApart'
  BY LeavesKept DEF Tight
<1>10. NothingCollected' /\ WidthKept(Len(result.residual))'
  BY <1>6 DEF Tight, NothingCollected, WidthKept
<1>11. ResultsAreLeaves'
  <2>1. VerifiedLeaves' = VerifiedLeaves
    BY DEF VerifiedLeaves, Unsplit
  <2> QED
    BY <1>6, <1>7, <1>8, <2>1 DEF ResultsAreLeaves
<1>12. RoundLimits'
  <2>1. MaxWidth >= 0 => Len(o) <= MaxWidth - 1
    BY <1>3, LimitsTyped DEF StepOrSplitLimit
  <2>2. MaxWidth >= 0 => Len(rest) + Cardinality(ToSet(first)) <= MaxWidth - 1
    BY <1>3, <1>4, <1>5, <2>1, LimitsTyped
  <2>3. Cardinality(ToSet(first)) <= SplitCheckLimit
    BY <1>1, <1>3, <1>4, <1>5
  <2>4. Cardinality({}) = 0
    BY FS_EmptySet
  <2> QED
    BY <1>4, <1>6, <1>7, <1>8, <2>2, <2>3, <2>4 DEF RoundLimits
<1>13. OnlyHalvesRun'
  <2>1. \A u \in Unit : check[u] # "running"
    BY DEF Frontier, Unsplit, Exact, HalvesTogether
  <2> QED
    BY <2>1 DEF OnlyHalvesRun
<1> QED
  BY <1>9, <1>10, <1>11, <1>12, <1>13 DEF Tight

LEMMA ContinuationTight ==
  ASSUME Exact, Tight, phase # "over", UNCHANGED <<check, got, decided>>,
         NEW i \in Items, Continuation(i), ItemsExact(i),
         results \cup i.correct \subseteq VerifiedLeaves, WidthKept(Len(open \o i.open))
  PROVE  Tight'
<1> DEFINE o == open \o i.open
           r == results \cup i.correct
<1>1. o \in Seq(Unit) /\ ToSet(o) = ToSet(open) \cup ToSet(i.open)
  BY ConcatElements DEF Items, Exact, Inductive, TypeOK
<1>2. /\ results' = r
      /\ \A u \in ToSet(o) : check[u] = "unknown"
      /\ ~i.bug => Frontier = ToSet(o)
  BY <1>1 DEF ItemsExact, Continuation
<1> HIDE DEF o, r
<1>3. CASE End(Result("DONE", TRUE, {}, <<>>)) \/ End(Result("DONE", FALSE, r, <<>>))
  BY <1>3, EndTight, NoneIsWithin DEF Result
<1>4. CASE End(Result("DONE", FALSE, r, o))
  BY <1>4, EndTight DEF Result, o
<1>5. CASE ~i.bug /\ o # <<>> /\ ~StepOrSplitLimit(StepsAfter, o) /\ NextRound(o)
  BY <1>1, <1>2, <1>5, NextRoundTight DEF r
<1> QED
  BY <1>3, <1>4, <1>5 DEF Continuation, o, r

\* A task that is over leaves two open programs at most, and what it reports as
\* verified is.
LEMMA ReportsLimited ==
  ASSUME Exact, Tight, phase = "round", NEW u \in Unit, stage[u] \notin {"none", "collected"},
         NEW i \in Items, Reports(u, i)
  PROVE  /\ Len(i.open) <= 2
         /\ ~i.bug => i.correct \subseteq VerifiedLeaves \cap Given(u)
<1>1. u \in Checking => u \in Halved
  BY DEF Checking, Exact, Inductive, HalvesKept
<1>2. u \in Checking \cup Pending /\ i.open \in Seq(Unit)
  BY DEF Checking, Pending, Items, Exact, Inductive, TypeOK
<1>3. \A h \in Given(u) : h \in Unit /\ Unsplit(h)
  BY <1>1, <1>2, SplitAssumption DEF Given, Halves, Pending, Checking, Exact, OpenAreUnsplit
<1>4. Len(i.open) <= 2
  <2>1. CASE i.bug
    BY <2>1 DEF Reports
  <2>2. CASE ~i.bug
    <3>1. IsInjective(i.open) /\ ToSet(i.open) \subseteq Given(u)
      BY <2>2 DEF Reports
    <3>2. Given(u) = {u, u} \/ Given(u) = {Left[u], Right[u]}
      BY DEF Given, Halves
    <3> QED
      BY <1>2, <3>1, <3>2, PairBounded
  <2> QED
    BY <2>1, <2>2
<1>5. ~i.bug => i.correct \subseteq VerifiedLeaves \cap Given(u)
  BY <1>3 DEF Reports, VerifiedLeaves
<1> QED
  BY <1>4, <1>5

LEMMA CollectTight ==
  ASSUME Exact, Tight, phase = "round", NEW u \in Unit, stage[u] \notin {"none", "collected"},
         NEW i \in Items, Collect(u, i), Reports(u, i), UNCHANGED <<check, got, decided>>,
         ~i.bug \/ i.correct = {}, u \in Checking => \A h \in Halves(u) : check[h] # "running",
         Others(u) = {} => ItemsExact(Plus(collected, i))
  PROVE  Tight'
<1> DEFINE j == Plus(collected, i)
<1>1. /\ stage \in [Unit -> {"none", "split", "identity", "check", "collected"}]
      /\ collected \in Items /\ open \in Seq(Unit) /\ collected.open \in Seq(Unit)
      /\ i.open \in Seq(Unit)
  BY DEF Exact, Inductive, TypeOK, Items
<1>2. /\ j \in Items /\ j.correct = collected.correct \cup i.correct
      /\ j.open = collected.open \o i.open /\ Len(j.open) = Len(collected.open) + Len(i.open)
      /\ Len(collected.open) \in Nat /\ Len(i.open) \in Nat /\ Len(open) \in Nat
      /\ Len(open \o j.open) = Len(open) + Len(j.open)
  <2>1. /\ j \in Items /\ j.correct = collected.correct \cup i.correct
        /\ j.open = collected.open \o i.open
    BY <1>1, PlusPrograms DEF Plus
  <2> HIDE DEF j
  <2> QED
    BY <1>1, <2>1 DEF Items
<1> HIDE DEF j
<1>3. Len(i.open) <= 2 /\ i.correct \subseteq VerifiedLeaves \cap Given(u)
  BY ReportsLimited
<1>4. results \cup j.correct \subseteq VerifiedLeaves
  BY <1>2, <1>3 DEF Tight, ResultsAreLeaves
<1>5. /\ IsFiniteSet(Tasks) /\ Cardinality(Tasks) <= SplitCheckLimit
      /\ MaxWidth >= 0 => Len(open) + Cardinality(Tasks) <= MaxWidth - 1
      /\ Len(collected.open) <= 2 * Cardinality(Collected)
      /\ IsFiniteSet(Collected) /\ Cardinality(Tasks) \in Nat /\ Cardinality(Collected) \in Nat
  <2>1. Collected \subseteq Tasks
    BY DEF Collected, Tasks
  <2> QED
    BY <2>1, FS_Subset, FS_CardinalityType DEF Tight, RoundLimits
<1>6. /\ u \notin Collected
      /\ IsFiniteSet(Collected \cup {u}) /\ Cardinality(Collected \cup {u}) = Cardinality(Collected) + 1
  BY <1>5, FS_AddElement DEF Collected
<1>7. Len(j.open) <= 2 * Cardinality(Collected \cup {u})
  <2>1. \A a, b, c \in Nat : a <= 2 * c /\ b <= 2 => a + b <= 2 * (c + 1)
    OBVIOUS
  <2> QED
    BY <1>2, <1>3, <1>5, <1>6, <2>1
<1>8. CASE Others(u) = {}
  <2>1. Tasks = Collected \cup {u}
    BY <1>8 DEF Tasks, Collected, Others
  <2>2. WidthKept(Len(open \o j.open))
    <3>1. Cardinality(Tasks) >= 1
      BY <1>5, <1>6, <2>1
    <3>2. Len(j.open) \in Nat /\ Len(j.open) <= 2 * Cardinality(Tasks)
      <4>1. j.open \in Seq(Unit)
        BY <1>2 DEF Items
      <4>2. Len(j.open) \in Nat
        BY <4>1
      <4> QED
        BY <1>7, <2>1, <4>2
    <3>3. \A n, t, l \in Nat : \A m, w \in Int :
            /\ t >= 1 /\ t <= w /\ n <= 2 * t
            /\ m >= 0 => l + t <= m - 1
            => (m >= 0 => l + n <= IF m <= 1 THEN 1 ELSE m - 1 + w)
      OBVIOUS
    <3>4. MaxWidth >= 0 =>
            Len(open) + Len(j.open) <= IF MaxWidth <= 1 THEN 1 ELSE MaxWidth - 1 + SplitCheckLimit
      <4>1. Len(open) \in Nat
        BY <1>1
      <4> QED
        BY <1>5, <3>1, <3>2, <3>3, <4>1, LimitsTyped
    <3>5. Len(open \o j.open) = Len(open) + Len(j.open)
      BY <1>2
    <3> QED
      BY <3>4, <3>5 DEF WidthKept
  <2>3. Continuation(j) /\ ItemsExact(j)
    BY <1>8 DEF Collect, Others, j
  <2> QED
    BY <1>2, <1>4, <2>2, <2>3, ContinuationTight
<1>9. CASE Others(u) # {}
  <2>1. /\ stage' = [stage EXCEPT ![u] = "collected"] /\ collected' = j
        /\ UNCHANGED <<phase, open, results, result>>
    BY <1>9 DEF Collect, Others, j
  <2>2. Tasks' = Tasks /\ Collected' = Collected \cup {u} /\ Checking' = Checking \ {u}
    BY <1>1, <2>1 DEF Tasks, Collected, Checking
  <2>3. LeavesApart'
    BY LeavesKept DEF Tight
  <2>4. NothingCollected' /\ WidthKept(Len(result.residual))'
    BY <2>1 DEF Tight, NothingCollected, WidthKept
  <2>5. ResultsAreLeaves'
    <3>1. VerifiedLeaves' = VerifiedLeaves
      BY DEF VerifiedLeaves, Unsplit
    <3>2. \A v \in Checking \ {u} : Given(u) \cap Halves(v) = {}
      <4>1. CASE stage[u] = "check"
        BY <4>1, HalvesApart DEF Given, Checking, Exact, Inductive, HalvesKept
      <4>2. CASE stage[u] # "check"
        <5>1. u \in Pending /\ Given(u) = {u}
          BY <1>1, <4>2 DEF Pending, Given
        <5> QED
          BY <5>1 DEF Exact, Apart
      <4> QED
        BY <4>1, <4>2
    <3>3. \A v \in Checking' : Halves(v) \cap (results \cup j.correct) = {}
      BY <1>2, <1>3, <2>2, <3>2 DEF Tight, ResultsAreLeaves
    <3> QED
      BY <1>4, <2>1, <3>1, <3>3 DEF ResultsAreLeaves
  <2>6. RoundLimits'
    BY <1>5, <1>7, <2>1, <2>2 DEF RoundLimits
  <2>7. OnlyHalvesRun'
    BY <2>1, <2>2 DEF OnlyHalvesRun, Tight
  <2> QED
    BY <2>3, <2>4, <2>5, <2>6, <2>7 DEF Tight
<1> QED
  BY <1>8, <1>9

LEMMA InitTight == Init => Tight
<1> SUFFICES ASSUME Init PROVE Tight
  OBVIOUS
<1>1. Leaves \subseteq {Whole}
  BY DEF Init, Leaves
<1>2. NoResult.residual = <<>>
  BY DEF NoResult, Result
<1>3. NothingCollected /\ ResultsAreLeaves
  BY DEF Init, NothingCollected, ResultsAreLeaves, NoItems, Checking
<1> QED
  BY <1>1, <1>2, <1>3, NoneIsWithin DEF Init, Tight, LeavesApart, RoundLimits, OnlyHalvesRun

\* The halves of u are new, and they take the place of u.
LEMMA SplitDoneTight ==
  ASSUME Exact, Tight, NEW u \in Unit, SplitDone(u)
  PROVE  Tight'
<1>1. /\ phase = "round" /\ stage[u] = "split" /\ u \in Halved
      /\ stage' = [stage EXCEPT ![u] = "check"]
      /\ check' = [v \in Unit |-> IF v \in Halves(u) THEN "running" ELSE check[v]]
      /\ UNCHANGED <<phase, open, results, collected, result>>
      /\ stage \in [Unit -> {"none", "split", "identity", "check", "collected"}]
      /\ check \in [Unit -> {"none", "running", "stopped"} \cup Answers]
  BY DEF SplitDone, Exact, Inductive, TypeOK
<1>2. /\ Halves(u) = {Left[u], Right[u]} /\ Halves(u) \subseteq Unit
      /\ \A v \in Halved : v \in Unit /\ Left[v] \in Unit /\ Right[v] \in Unit
      /\ \A v \in Halved : v # u => Left[v] \notin Halves(u) /\ Right[v] \notin Halves(u)
  BY <1>1, SplitAssumption, HalvesApart DEF Halves
<1>3. u \in Pending /\ check[u] = "unknown" /\ Unsplit(u) /\ u \in Leaves
  BY <1>1 DEF Pending, Leaves, Exact, OpenAreUnsplit
<1>4. \A h \in Halves(u) : check[h] = "none"
  BY <1>1, <1>2, <1>3 DEF Unsplit, Exact, HalvesTogether
<1>5. \A v \in Unit : v # u => (Unsplit(v)' <=> Unsplit(v))
  BY <1>1, <1>2 DEF Unsplit
<1>6. /\ Tasks' = Tasks /\ Collected' = Collected
      /\ Checking' = Checking \cup {u} /\ u \notin Checking
  BY <1>1 DEF Tasks, Collected, Checking
<1>7. LeavesApart'
  <2> SUFFICES ASSUME HalvesShareNothing, NEW v \in Leaves', NEW w \in Leaves', v # w
               PROVE  Paths[v] \cap Paths[w] = {}
    BY DEF LeavesApart, HalvesShareNothing
  <2>1. \A x \in Leaves' : x \in Halves(u) \/ x \in Leaves \ {u}
    <3>1. ~Unsplit(u)'
      BY <1>1, <1>2 DEF Unsplit
    <3> QED
      BY <1>1, <1>5, <3>1 DEF Leaves
  <2>2. /\ Paths[Left[u]] \cap Paths[Right[u]] = {}
        /\ \A h \in Halves(u) : Paths[h] \subseteq Paths[u]
    BY <1>1, <1>2 DEF HalvesShareNothing
  <2>3. \A x \in Leaves \ {u} : \A h \in Halves(u) : Paths[x] \cap Paths[h] = {}
    BY <1>3, <2>2 DEF Tight, LeavesApart
  <2>4. \A x, y \in Leaves : x # y => Paths[x] \cap Paths[y] = {}
    BY DEF Tight, LeavesApart
  <2>5. CASE v \in Halves(u) /\ w \in Halves(u)
    BY <1>2, <2>2, <2>5
  <2>6. CASE v \in Leaves \ {u} /\ w \in Leaves \ {u}
    BY <2>4, <2>6
  <2>7. CASE v \in Halves(u) /\ w \in Leaves \ {u}
    BY <2>3, <2>7
  <2>8. CASE v \in Leaves \ {u} /\ w \in Halves(u)
    BY <2>3, <2>8
  <2> QED
    BY <2>1, <2>5, <2>6, <2>7, <2>8
<1>8. NothingCollected' /\ WidthKept(Len(result.residual))'
  BY <1>1 DEF Tight, NothingCollected, WidthKept
<1>9. ResultsAreLeaves'
  <2>1. VerifiedLeaves \subseteq VerifiedLeaves'
    BY <1>1, <1>3, <1>4, <1>5 DEF VerifiedLeaves
  <2>2. Halves(u) \cap VerifiedLeaves = {}
    BY <1>4 DEF VerifiedLeaves
  <2> QED
    BY <1>1, <1>6, <2>1, <2>2 DEF Tight, ResultsAreLeaves
<1>10. RoundLimits' /\ OnlyHalvesRun'
  BY <1>1, <1>6 DEF Tight, RoundLimits, OnlyHalvesRun
<1> QED
  BY <1>7, <1>8, <1>9, <1>10 DEF Tight

\* A result ERROR has no residual.
LEMMA FailsTight ==
  ASSUME Exact, Tight, Fails, UNCHANGED check
  PROVE  Tight'
BY EndTight, NoneIsWithin DEF Fails, Result

LEMMA WholeCheckedTight ==
  ASSUME Exact, Tight, WholeChecked
  PROVE  Tight'
<1>1. CASE check[Whole] = "error"
  BY <1>1, FailsTight DEF WholeChecked
<1>2. CASE check[Whole] # "error"
  <2> DEFINE i == Reported(Whole, check[Whole])
  <2>1. /\ phase = "whole" /\ i \in Items /\ ItemsExact(i) /\ Continuation(i)
        /\ Len(open \o i.open) <= 1 /\ i.correct \subseteq VerifiedLeaves
    BY <1>2, WholeItemsExact DEF VerifiedLeaves
  <2>2. results = {} /\ open \in Seq(Unit)
    BY <2>1 DEF Exact, WholeFirst, Inductive, TypeOK
  <2> HIDE DEF i
  <2>3. WidthKept(Len(open \o i.open))
    <3>1. Len(open \o i.open) \in Nat
      BY <2>1, <2>2, ConcatElements DEF Items
    <3>2. WidthKept(1)
      BY LimitsTyped, ConfigAssumption DEF WidthKept, SplitCheckLimit
    <3> QED
      BY <2>1, <3>1, <3>2, LimitsTyped DEF WidthKept
  <2> QED
    BY <2>1, <2>2, <2>3, ContinuationTight DEF WholeChecked
<1> QED
  BY <1>1, <1>2

LEMMA PassedOnTight ==
  ASSUME Exact, Tight, NEW u \in Unit, SplitFailed(u) \/ Identity(u), Inductive'
  PROVE  Tight'
<1>1. /\ phase = "round" /\ stage[u] \notin {"none", "collected"}
      /\ Open(u) \in Items /\ Collect(u, Open(u)) /\ Reports(u, Open(u))
      /\ UNCHANGED <<check, got, decided>>
  BY PassedOnReports
<1>2. ~Open(u).bug /\ u \notin Checking
  BY DEF Open, NoItems, Checking, SplitFailed, Identity
<1>3. Others(u) = {} => ItemsExact(Plus(collected, Open(u)))
  BY <1>1, CollectExact
<1> QED
  BY <1>1, <1>2, <1>3, CollectTight

LEMMA SplitCheckedTight ==
  ASSUME Exact, Tight, NEW u \in Unit, SplitChecked(u), Inductive'
  PROVE  Tight'
<1>1. CASE decided[u] = "error"
  BY <1>1, FailsTight DEF SplitChecked
<1>2. CASE decided[u] # "error"
  <2>1. /\ phase = "round" /\ stage[u] \notin {"none", "collected"}
        /\ got[u] \in Items /\ Collect(u, got[u]) /\ Reports(u, got[u])
        /\ UNCHANGED <<check, got, decided>>
    BY <1>2, SplitCheckedReports
  <2>2. ~got[u].bug \/ got[u].correct = {}
    <3>1. u \in Checking /\ decided[u] \in {"items", "bug"}
      BY <1>2 DEF SplitChecked, Checking, Exact, Inductive, TypeOK
    <3>2. Bug.correct = {}
      BY DEF Bug, NoItems
    <3> QED
      BY <2>1, <3>1, <3>2 DEF Exact, ResultsOfHalves
  <2>3. Others(u) = {} => ItemsExact(Plus(collected, got[u]))
    BY <2>1, CollectExact
  <2>4. \A h \in Halves(u) : check[h] # "running"
    BY DEF SplitChecked
  <2> QED
    BY <2>1, <2>2, <2>3, <2>4, CollectTight
<1> QED
  BY <1>1, <1>2

LEMMA StepTight == Exact /\ Tight /\ [Next]_vars => Tight'
<1> SUFFICES ASSUME Exact, Tight, [Next]_vars PROVE Tight'
  OBVIOUS
<1>1. Inductive' /\ check \in [Unit -> {"none", "running", "stopped"} \cup Answers]
  BY StepInductive DEF Exact, Inductive, TypeOK
<1>2. CASE CheckWhole
  <2>1. PICK a \in Answers : check' = [check EXCEPT ![Whole] = a]
    BY <1>2 DEF CheckWhole
  <2> QED
    BY <1>1, <1>2, <2>1, AnswerTight DEF CheckWhole, Answers
<1>3. CASE WholeChecked
  BY <1>3, WholeCheckedTight
<1>4. ASSUME NEW u \in Unit, SplitDone(u) PROVE Tight'
  BY <1>4, SplitDoneTight
<1>5. ASSUME NEW u \in Unit, SplitFailed(u) \/ Identity(u) PROVE Tight'
  BY <1>1, <1>5, PassedOnTight
<1>6. ASSUME NEW u \in Unit, SplitChecked(u) PROVE Tight'
  BY <1>1, <1>6, SplitCheckedTight
<1>7. ASSUME NEW u \in Halved, NEW h \in Halves(u), CheckDone(u, h) PROVE Tight'
  <2>1. PICK a \in Answers : check' = [check EXCEPT ![h] = a]
    BY <1>7 DEF CheckDone
  <2> QED
    BY <1>1, <1>7, <2>1, AnswerTight DEF CheckDone, Answers
<1>8. ASSUME NEW u \in Halved, NEW h \in Halves(u), CheckStopped(u, h) PROVE Tight'
  BY <1>1, <1>8, AnswerTight DEF CheckStopped
<1>9. CASE UNCHANGED vars
  BY <1>9, AnswerTight DEF vars
<1> QED
  BY <1>2, <1>3, <1>4, <1>5, <1>6, <1>7, <1>8, <1>9 DEF Next, TaskFinishes, Over

-----------------------------------------------------------------------------
(* What follows *)

\* The lists hold leaves, and what is split is apart from them as its halves are.
LEMMA TightNoWorkTwice ==
  ASSUME Exact, Tight, HalvesShareNothing
  PROVE  NoWorkTwice
<1>1. SUFFICES ASSUME phase # "over" PROVE NoWorkTwice
  BY DEF NoWorkTwice
<1>2. CASE phase = "whole"
  <2>1. open = <<>> /\ results = {} /\ collected = NoItems /\ InRound = {}
    BY <1>2 DEF Exact, WholeFirst, Tight, NothingCollected, InRound
  <2>2. /\ NoItems.open = <<>> /\ NoItems.correct = {} /\ <<>> \o <<>> = <<>>
        /\ ToSet(<<>>) = {} /\ IsInjective(<<>>)
    BY DEF NoItems, ToSet, IsInjective
  <2> QED
    BY <2>1, <2>2 DEF NoWorkTwice
<1>3. CASE phase = "round"
  <2> DEFINE proven == results \cup collected.correct
  <2>1. /\ open \in Seq(Unit) /\ collected.open \in Seq(Unit)
        /\ stage \in [Unit -> {"none", "split", "identity", "check", "collected"}]
    BY DEF Exact, Inductive, TypeOK, Items
  <2>2. IsInjective(open \o collected.open) /\ ToSet(open \o collected.open) = Listed
    BY <1>3, <2>1, ConcatInjective, ConcatElements DEF Exact, Apart, Listed
  <2>3. InRound = Pending \cup Checking /\ Listed \subseteq Unit
    BY <2>1 DEF InRound, Pending, Checking, Listed, ToSet
  <2>4. Listed \cup Pending \cup proven \subseteq Leaves
    BY <1>3, <2>3 DEF Exact, OpenAreUnsplit, Tight, ResultsAreLeaves, VerifiedLeaves, Leaves, Pending
  <2>5. ASSUME NEW u \in Checking
        PROVE  /\ u \in Halved /\ Halves(u) \subseteq Leaves /\ u \notin Leaves
               /\ Halves(u) \cap (Listed \cup Pending \cup proven) = {}
               /\ Paths[u] \subseteq Paths[Left[u]] \cup Paths[Right[u]]
               /\ Halves(u) = {Left[u], Right[u]}
    <3>1. u \in Halved
      BY DEF Checking, Exact, Inductive, HalvesKept
    <3>2. Halves(u) \subseteq Leaves /\ u \notin Leaves
      BY <1>3, <3>1, SplitAssumption DEF Exact, OpenAreUnsplit, Leaves, Unsplit, Halves
    <3>3. Halves(u) \cap (Listed \cup Pending \cup proven) = {}
      BY <1>3 DEF Exact, Apart, Tight, ResultsAreLeaves
    <3> QED
      BY <3>1, <3>2, <3>3, SplitAssumption DEF Halves
  <2>6. \A u, v \in Leaves : u # v => Paths[u] \cap Paths[v] = {}
    BY DEF Tight, LeavesApart
  <2>7. ASSUME NEW u \in Checking, NEW v \in Listed \cup Pending \cup proven
        PROVE  Paths[u] \cap Paths[v] = {}
    BY <2>4, <2>5, <2>6
  <2>8. ASSUME NEW u \in Checking, NEW v \in Checking, u # v
        PROVE  Paths[u] \cap Paths[v] = {}
    <3>1. Halves(u) \cap Halves(v) = {}
      BY <2>5, <2>8, HalvesApart
    <3> QED
      BY <2>5, <2>6, <3>1
  <2>9. \A u, v \in Pending \cup Checking \cup Listed \cup proven :
          u # v => Paths[u] \cap Paths[v] = {}
    BY <2>4, <2>6, <2>7, <2>8
  <2>10. InRound \cap Listed = {}
    BY <1>3, <2>3, <2>4, <2>5 DEF Exact, Apart
  <2> QED
    BY <2>2, <2>3, <2>9, <2>10 DEF NoWorkTwice
<1> QED
  BY <1>1, <1>2, <1>3 DEF Exact, Inductive, TypeOK

\* Every running check belongs to one of few enough programs.
LEMMA TightLimitsKept ==
  ASSUME Exact, Tight
  PROVE  LimitsKept
<1>1. ASSUME phase = "round"
      PROVE  Cardinality({u \in Unit : check[u] = "running"}) <= ParallelizationLimit
  <2> DEFINE R == {u \in Unit : check[u] = "running"}
  <2>1. R \subseteq UNION {Halves(u) : u \in Checking}
    BY <1>1 DEF Tight, OnlyHalvesRun
  <2>2. Checking \subseteq Halved /\ Checking \subseteq Tasks
    BY DEF Checking, Tasks, Exact, Inductive, HalvesKept
  <2>3. /\ IsFiniteSet(Checking) /\ Cardinality(Checking) <= Cardinality(Tasks)
        /\ IsFiniteSet(Tasks) /\ Cardinality(Tasks) <= SplitCheckLimit
    BY <1>1, <2>2, FS_Subset DEF Tight, RoundLimits
  <2> HIDE DEF R
  <2>4. IsFiniteSet(R) /\ Cardinality(R) <= 2 * Cardinality(Checking)
    BY <2>1, <2>2, <2>3, HalvesBounded
  <2>5. Cardinality(R) \in Nat /\ Cardinality(Checking) \in Nat /\ Cardinality(Tasks) \in Nat
    BY <2>3, <2>4, FS_CardinalityType
  <2>6. Cardinality(R) <= ParallelizationLimit
    BY <2>3, <2>4, <2>5, LimitsTyped
  <2> QED
    BY <2>6 DEF R
<1> QED
  BY <1>1 DEF LimitsKept, Tight

-----------------------------------------------------------------------------
(* Theorems *)

\* All that follows from the invariant.
LEMMA SpecInductive == Spec => []Inductive
BY InitInductive, StepInductive, PTL DEF Spec

\* The types of the splitter (DynamicSplittingVerificationTask and the tasks of a
\* round), for any tree of programs and any options.
THEOREM SplittingTyped == Spec => []TypeOK
<1>1. Inductive => TypeOK
  BY DEF Inductive
<1> QED
  BY <1>1, SpecInductive, PTL

\* Whatever is split, whatever order checks finish in and whichever of them fail:
\* a result of the splitter without a bug covers the input.
THEOREM SplittingSound == Spec => []Soundness
<1>1. Inductive => Soundness
  BY DEF Inductive
<1> QED
  BY <1>1, SpecInductive, PTL

\* The lists, tasks and results that programs travel through (_open_tasks,
\* _executed_tasks, _results, ParallelCompose, ComposeResults) do what the
\* algorithm says: a program is verified, or replaced by its halves, or reported
\* as it is, and a reduction is reported only if no bug was found.
THEOREM SplittingImplements == Spec => ImplementsSplitting
<1>1. Init => Exact /\ Algorithm!Init
  BY InitExact
<1>2. Exact /\ [Next]_vars => Exact' /\ [Algorithm!Next]_(Algorithm!vars)
  BY StepExact DEF AbstractStep
<1> QED
  BY <1>1, <1>2, PTL DEF Spec, ImplementsSplitting, Algorithm!Spec

\* Both invariants of the refinement, together with that of the splitter.
LEMMA SpecTight == Spec => [](Exact /\ Tight)
<1>1. Init => Exact /\ Tight
  BY InitExact, InitTight
<1>2. Exact /\ Tight /\ [Next]_vars => (Exact /\ Tight)'
  BY StepExact, StepTight
<1> QED
  BY <1>1, <1>2, PTL DEF Spec

\* When the splitter makes a program of each branch, no execution of the input is
\* analysed twice: no program waits in two places (_open_tasks, the results of a
\* round, its tasks), and none is left in one that another one covers.
THEOREM WorkIsDoneOnce ==
  ASSUME HalvesShareNothing
  PROVE  Spec => []NoWorkTwice
<1>1. Exact /\ Tight => NoWorkTwice
  BY TightNoWorkTwice
<1> QED
  BY <1>1, SpecTight, PTL

\* However many programs are open and whatever order checks finish in, a round
\* runs no more checks than parallelization_limit, and the splitter leaves no more
\* programs than the limit on splitting and one round allow.
THEOREM LimitsAreKept == Spec => []LimitsKept
<1>1. Exact /\ Tight => LimitsKept
  BY TightLimitsKept
<1> QED
  BY <1>1, SpecTight, PTL

=============================================================================
