------------------------- MODULE WorkStealingProofs -------------------------
(***************************************************************************)
(* What holds of work stealing for any number of verifiers and inputs: its  *)
(* types, that no input is forgotten, that nobody starts twice on an input  *)
(* or after one of its name, and why the result is an ERROR.                *)
(***************************************************************************)
EXTENDS WorkStealing, WellFoundedInduction, TLAPS

-----------------------------------------------------------------------------
(* The invariant; a state of the algorithm is a record s, as in Execute *)

Phases == {"none", "queued", "setup", "tool", "over"}

States == [tracked : [Verifier -> 0..Inputs], alloc : [Input -> SUBSET Verifier],
           results : [Input -> {"none", "CORRECT", "UNKNOWN"}],
           job : [Verifier -> [Input -> Phases]]]

\* Of an input with a result nobody is known to work on it; for another one
\* those are known who were ever given it, they are still at it, and no two of
\* them have one name.
Sound(s) ==
  /\ s \in States
  /\ \A i \in Input : s.results[i] # "none" => s.alloc[i] = {}
  /\ \A i \in Input, v \in Verifier : s.results[i] = "none" =>
       /\ v \in s.alloc[i] <=> s.job[v][i] # "none"
       /\ s.job[v][i] # "over"
  /\ \A i \in Input : \A v, w \in s.alloc[i] : v # w => Names[v] # Names[w]

Unsolved(s) == \E i \in Input : s.results[i] = "none"

\* Somebody works on an input without a result.
Busy(s) == \E i \in Input : s.results[i] = "none" /\ s.alloc[i] # {}

Now == [tracked |-> tracked, alloc |-> alloc, results |-> results, job |-> job]

\* Only who works on an input that has been solved is stopped.
StopsAreLate == \A p \in stopped : results[p[2]] # "none"

Inductive ==
  /\ TypeOK /\ StopsAreLate /\ ErrorReasons
  /\ ended = "no" => Sound(Now) /\ Busy(Now)

-----------------------------------------------------------------------------
(* Giving out inputs *)

\* A set of natural numbers has a smallest element.
LEMMA Smallest ==
  ASSUME NEW S \in SUBSET Nat, S # {}
  PROVE  Min(S) \in S /\ \A y \in S : Min(S) <= y
<1>1. \E x \in S : \A y \in S : ~(<<y, x>> \in OpToRel(<, Nat))
  BY NatLessThanWellFounded, WFMin
<1>2. \A x \in Nat, y \in Nat : ~(<<y, x>> \in OpToRel(<, Nat)) => x <= y
  BY DEF OpToRel
<1>3. \E x \in S : \A y \in S : x <= y
  BY <1>1, <1>2
<1> QED
  BY <1>3 DEF Min

\* How t may follow s when inputs are given out: some that nobody of a name
\* was given are waited for by one more.
Onward(s, t) ==
  /\ Sound(t) /\ t.results = s.results
  /\ \A i \in Input : s.alloc[i] \subseteq t.alloc[i]
  /\ \A v \in Verifier, i \in Input :
       \/ t.job[v][i] = s.job[v][i]
       \/ /\ s.job[v][i] = "none" /\ t.job[v][i] = "queued"
          /\ v \in t.alloc[i] /\ t.results[i] = "none"

LEMMA OnwardTransitive ==
  ASSUME NEW s, NEW t, NEW u, Onward(s, t), Onward(t, u)
  PROVE  Onward(s, u)
BY DEF Onward

LEMMA OnwardBusy ==
  ASSUME NEW s, NEW t, Onward(s, t), Busy(s)
  PROVE  Busy(t)
BY DEF Onward, Busy

\* One verifier is given an input, and if there is one without a result, some
\* verifier works on such an input afterwards.
LEMMA GiveRight ==
  ASSUME NEW s, Sound(s), NEW v \in Verifier
  PROVE  Onward(s, Give(s, v)) /\ (Unsolved(s) => Busy(Give(s, v)))
<1> DEFINE candidates == IF OpenInputs(s) # {} THEN OpenInputs(s) ELSE StealingPoints(s, v)
<1>1. candidates \subseteq Input /\ candidates \in SUBSET Nat
  BY DEF OpenInputs, StealingPoints, Input
<1>2. ASSUME NEW i \in candidates
      PROVE  /\ i \in Input /\ s.results[i] = "none"
             /\ \A w \in s.alloc[i] : Names[w] # Names[v]
  BY DEF OpenInputs, StealingPoints
<1>3. CASE candidates = {}
  <2>1. Give(s, v) = s
    BY <1>3 DEF Give
  <2>2. Unsolved(s) => Busy(s)
    BY <1>3 DEF Unsolved, Busy, OpenInputs
  <2> QED
    BY <2>1, <2>2 DEF Onward
<1>4. CASE candidates # {}
  <2> DEFINE m == Min(candidates)
             t == Give(s, v)
  <2>1. m \in candidates
    <3> HIDE DEF candidates
    <3> QED
      BY <1>1, <1>4, Smallest
  <2>2. t = [s EXCEPT !.tracked[v] = m, !.alloc[m] = @ \cup {v}, !.job[v][m] = "queued"]
    BY <1>4 DEF Give
  <2>3. m \in Input /\ s.results[m] = "none" /\ \A w \in s.alloc[m] : Names[w] # Names[v]
    BY <1>2, <2>1
  <2> HIDE DEF candidates, m, t
  <2>4. s \in States
    BY DEF Sound
  <2>5. /\ t.tracked = [s.tracked EXCEPT ![v] = m]
        /\ t.alloc = [s.alloc EXCEPT ![m] = @ \cup {v}]
        /\ t.results = s.results
        /\ t.job = [s.job EXCEPT ![v][m] = "queued"]
    BY <2>2, <2>4 DEF States
  <2>6. t \in States
    <3>1. s.tracked \in [Verifier -> 0..Inputs] /\ m \in 0..Inputs
      BY <2>3, <2>4, CountAssumption DEF States, Input
    <3>2. s.alloc \in [Input -> SUBSET Verifier] /\ s.job \in [Verifier -> [Input -> Phases]]
      BY <2>4 DEF States
    <3>3. t.tracked \in [Verifier -> 0..Inputs] /\ t.alloc \in [Input -> SUBSET Verifier]
      BY <2>3, <2>5, <3>1, <3>2
    <3>4. t.job \in [Verifier -> [Input -> Phases]]
      BY <2>3, <2>5, <3>2 DEF Phases
    <3>5. t = [tracked |-> t.tracked, alloc |-> t.alloc, results |-> t.results, job |-> t.job]
      BY <2>2, <2>4 DEF States
    <3> QED
      BY <2>4, <2>5, <3>3, <3>4, <3>5 DEF States
  <2>7. /\ \A i \in Input : t.alloc[i] = IF i = m THEN s.alloc[i] \cup {v} ELSE s.alloc[i]
        /\ \A w \in Verifier, i \in Input :
             t.job[w][i] = IF w = v /\ i = m THEN "queued" ELSE s.job[w][i]
    <3>1. s.alloc \in [Input -> SUBSET Verifier] /\ s.job \in [Verifier -> [Input -> Phases]]
      BY <2>4 DEF States
    <3>2. \A i \in Input : t.alloc[i] = IF i = m THEN s.alloc[i] \cup {v} ELSE s.alloc[i]
      BY <2>3, <2>5, <3>1
    <3>3. ASSUME NEW w \in Verifier, NEW i \in Input
          PROVE  t.job[w][i] = IF w = v /\ i = m THEN "queued" ELSE s.job[w][i]
      <4>1. t.job[w] = IF w = v THEN [s.job[v] EXCEPT ![m] = "queued"] ELSE s.job[w]
        BY <2>5, <3>1
      <4>2. s.job[v] \in [Input -> Phases]
        BY <3>1
      <4> QED
        BY <4>1, <4>2
    <3> QED
      BY <3>2, <3>3
  <2>8. v \notin s.alloc[m] /\ s.job[v][m] = "none"
    BY <2>3 DEF Sound
  <2>9. Sound(t)
    <3>1. ASSUME NEW i \in Input, t.results[i] # "none" PROVE t.alloc[i] = {}
      BY <2>3, <2>5, <2>7, <3>1 DEF Sound
    <3>2. ASSUME NEW i \in Input, NEW u \in Verifier, t.results[i] = "none"
          PROVE  (u \in t.alloc[i] <=> t.job[u][i] # "none") /\ t.job[u][i] # "over"
      <4>1. (u \in s.alloc[i] <=> s.job[u][i] # "none") /\ s.job[u][i] # "over"
        BY <2>5, <3>2 DEF Sound
      <4> QED
        BY <2>7, <4>1
    <3>3. ASSUME NEW i \in Input, NEW u \in t.alloc[i], NEW w \in t.alloc[i], u # w
          PROVE  Names[u] # Names[w]
      <4>1. \A x, y \in s.alloc[i] : x # y => Names[x] # Names[y]
        BY DEF Sound
      <4>2. t.alloc[i] = IF i = m THEN s.alloc[i] \cup {v} ELSE s.alloc[i]
        BY <2>7
      <4> QED
        BY <2>3, <3>3, <4>1, <4>2
    <3> QED
      BY <2>6, <3>1, <3>2, <3>3 DEF Sound
  <2>10. Onward(s, t)
    BY <2>3, <2>5, <2>7, <2>8, <2>9 DEF Onward
  <2>11. Busy(t)
    BY <2>3, <2>5, <2>7 DEF Busy
  <2> QED
    BY <2>10, <2>11 DEF t
<1> QED
  BY <1>3, <1>4

-----------------------------------------------------------------------------
(* Execute.  Its recursive function is reasoned about without induction: if it *)
(* did not exist, or were wrong, there would be a first verifier for which.    *)

\* What is given to the first n verifiers.
Gives(s, n, f) ==
  \A v \in 0..n : f[v] = IF v = 0 THEN s ELSE Give(f[v - 1], v)

LEMMA FirstOf ==
  ASSUME NEW S \in SUBSET (0..Verifiers), S # {}, 0 \notin S
  PROVE  \E n \in S : n \in 1..Verifiers /\ n - 1 \in 0..Verifiers /\ n - 1 \notin S
<1>1. Verifiers \in Nat /\ S \in SUBSET Nat
  BY CountAssumption
<1>2. PICK n \in S : \A k \in S : n <= k
  BY <1>1, Smallest
<1>3. n \in 1..Verifiers /\ n - 1 \in 0..Verifiers /\ n - 1 \notin S
  BY <1>1, <1>2
<1> QED
  BY <1>3

LEMMA GivesExists ==
  ASSUME NEW s
  PROVE  \E f : f = [v \in 0..Verifiers |-> f[v]] /\ Gives(s, Verifiers, f)
<1> DEFINE Bad == {n \in 0..Verifiers : ~\E f : f = [v \in 0..n |-> f[v]] /\ Gives(s, n, f)}
<1>1. Verifiers \in Nat /\ Verifiers \in 0..Verifiers
  BY CountAssumption
<1> SUFFICES ASSUME Bad # {} PROVE FALSE
  BY <1>1
<1>2. 0 \notin Bad
  <2> DEFINE f == [v \in 0..0 |-> s]
  <2>1. f = [v \in 0..0 |-> f[v]] /\ Gives(s, 0, f)
    BY DEF Gives
  <2> QED
    BY <2>1
<1>3. PICK n \in Bad : n \in 1..Verifiers /\ n - 1 \in 0..Verifiers /\ n - 1 \notin Bad
  <2> HIDE DEF Bad
  <2>1. Bad \in SUBSET (0..Verifiers)
    BY DEF Bad
  <2> QED
    BY <1>2, <2>1, FirstOf
<1>4. ~\E f : f = [v \in 0..n |-> f[v]] /\ Gives(s, n, f)
  OBVIOUS
<1>5. PICK g : g = [v \in 0..(n - 1) |-> g[v]] /\ Gives(s, n - 1, g)
  BY <1>3
<1> HIDE DEF Bad
<1> DEFINE last == Give(g[n - 1], n)
           f == [v \in 0..n |-> IF v = n THEN last ELSE g[v]]
<1>6. f = [v \in 0..n |-> f[v]]
  <2> HIDE DEF last
  <2> QED
    OBVIOUS
<1>7. ASSUME NEW v \in 0..n PROVE f[v] = IF v = 0 THEN s ELSE Give(f[v - 1], v)
  <2>1. CASE v = n
    <3>1. f[v] = last /\ f[v - 1] = g[n - 1] /\ v # 0
      <4> HIDE DEF last
      <4> QED
        BY <1>3, <2>1
    <3> HIDE DEF f
    <3> QED
      BY <2>1, <3>1
  <2>2. CASE v # n
    <3>1. v \in 0..(n - 1) /\ (v # 0 => v - 1 \in 0..n /\ v - 1 # n)
      BY <1>3, <2>2
    <3>2. f[v] = g[v] /\ (v # 0 => f[v - 1] = g[v - 1])
      <4> HIDE DEF last
      <4> QED
        BY <2>2, <3>1
    <3> HIDE DEF f
    <3> QED
      BY <1>5, <3>1, <3>2 DEF Gives
  <2> QED
    BY <2>1, <2>2
<1> HIDE DEF f
<1>8. Gives(s, n, f)
  BY <1>7, Zenon DEF Gives
<1> QED
  BY <1>4, <1>6, <1>8

\* After all verifiers have been given inputs everything is as it should be, and
\* somebody works.
LEMMA ExecuteRight ==
  ASSUME NEW s, Sound(s)
  PROVE  Onward(s, Execute(s)) /\ (Unsolved(s) => Busy(Execute(s)))
<1> DEFINE given == CHOOSE f : f = [v \in 0..Verifiers |-> IF v = 0 THEN s ELSE Give(f[v - 1], v)]
<1>1. Verifiers \in Nat /\ Verifiers \in 0..Verifiers /\ Verifiers # 0
  BY CountAssumption
<1>2. Gives(s, Verifiers, given)
  <2>1. PICK f : f = [v \in 0..Verifiers |-> f[v]] /\ Gives(s, Verifiers, f)
    BY GivesExists
  <2>2. f = [v \in 0..Verifiers |-> IF v = 0 THEN s ELSE Give(f[v - 1], v)]
    <3>1. [v \in 0..Verifiers |-> f[v]]
            = [v \in 0..Verifiers |-> IF v = 0 THEN s ELSE Give(f[v - 1], v)]
      BY <2>1 DEF Gives
    <3> QED
      BY <2>1, <3>1, Zenon
  <2>3. given = [v \in 0..Verifiers |-> IF v = 0 THEN s ELSE Give(given[v - 1], v)]
    BY <2>2, Zenon
  <2> HIDE DEF given
  <2> QED
    BY <2>3 DEF Gives
<1>3. Execute(s) = given[Verifiers]
  BY Zenon DEF Execute
<1> HIDE DEF given
<1> DEFINE Right(n) == Onward(s, given[n]) /\ (n # 0 /\ Unsolved(s) => Busy(given[n]))
           Bad == {n \in 0..Verifiers : ~Right(n)}
<1>4. Right(0)
  <2>1. given[0] = s
    BY <1>1, <1>2 DEF Gives
  <2> QED
    BY <2>1 DEF Onward
<1>5. ASSUME NEW n \in 1..Verifiers, n - 1 \in 0..Verifiers, Right(n - 1) PROVE Right(n)
  <2>1. given[n] = Give(given[n - 1], n)
    BY <1>1, <1>2, <1>5 DEF Gives
  <2>2. Onward(s, given[n - 1]) /\ Sound(given[n - 1]) /\ n \in Verifier
    BY <1>5 DEF Onward, Verifier
  <2>3. Onward(given[n - 1], given[n]) /\ (Unsolved(given[n - 1]) => Busy(given[n]))
    BY <2>1, <2>2, GiveRight
  <2>4. Unsolved(s) => Unsolved(given[n - 1])
    BY <2>2 DEF Onward, Unsolved
  <2> QED
    BY <2>2, <2>3, <2>4, OnwardTransitive
<1> HIDE DEF Right
<1>6. Bad = {}
  <2> SUFFICES ASSUME Bad # {} PROVE FALSE
    OBVIOUS
  <2>1. Bad \in SUBSET (0..Verifiers) /\ 0 \notin Bad
    BY <1>4
  <2>2. PICK n \in Bad : n \in 1..Verifiers /\ n - 1 \in 0..Verifiers /\ n - 1 \notin Bad
    <3> HIDE DEF Bad
    <3> QED
      BY <2>1, FirstOf
  <2> QED
    BY <1>5, <2>2
<1>7. Right(Verifiers)
  BY <1>1, <1>6
<1> QED
  BY <1>1, <1>3, <1>7 DEF Right

-----------------------------------------------------------------------------
(* Every step keeps the invariant *)

\* The state of the algorithm becomes a sound one.
LEMMA SoundIsTyped ==
  ASSUME NEW s, s \in States, Become(s), stopped' \subseteq Job, failed' \subseteq Job,
         ended' \in {"no", "DONE", "bug", "ERROR", "exception"}
  PROVE  TypeOK'
BY DEF Become, TypeOK, States, Phases

LEMMA NowTyped ==
  ASSUME TypeOK
  PROVE  Now \in States
BY DEF TypeOK, Now, States, Phases

\* One job goes on while nothing else happens.
LEMMA SetJobTyped ==
  ASSUME TypeOK, NEW v \in Verifier, NEW i \in Input, NEW phase \in Phases, SetJob(v, i, phase)
  PROVE  /\ job' \in [Verifier -> [Input -> Phases]]
         /\ \A w \in Verifier, j \in Input :
              job'[w][j] = IF w = v /\ j = i THEN phase ELSE job[w][j]
<1>1. job \in [Verifier -> [Input -> Phases]] /\ job' = [job EXCEPT ![v][i] = phase]
  BY DEF TypeOK, Phases, SetJob
<1>2. job' \in [Verifier -> [Input -> Phases]]
  BY <1>1
<1>3. ASSUME NEW w \in Verifier, NEW j \in Input
      PROVE  job'[w][j] = IF w = v /\ j = i THEN phase ELSE job[w][j]
  <2>1. job'[w] = (IF w = v THEN [job[v] EXCEPT ![i] = phase] ELSE job[w])
        /\ job[v] \in [Input -> Phases]
    BY <1>1
  <2> QED
    BY <2>1
<1> QED
  BY <1>2, <1>3

\* A job that is not over yet goes on.
LEMMA GoesOn ==
  ASSUME Inductive, ended = "no", ended' = "no", NEW v \in Verifier, NEW i \in Input,
         NEW phase \in {"setup", "tool"}, job[v][i] # "none", SetJob(v, i, phase), Unchanged,
         UNCHANGED failed
  PROVE  Inductive'
<1>1. UNCHANGED <<tracked, alloc, results, stopped, failed>> /\ TypeOK /\ Sound(Now) /\ Busy(Now)
  BY DEF Unchanged, Inductive
<1>2. /\ job' \in [Verifier -> [Input -> Phases]]
      /\ \A w \in Verifier, j \in Input : job'[w][j] = IF w = v /\ j = i THEN phase ELSE job[w][j]
  <2>1. phase \in Phases
    BY DEF Phases
  <2> QED
    BY <1>1, <2>1, SetJobTyped
<1>3. TypeOK'
  BY <1>1, <1>2 DEF TypeOK, Phases
<1>4. Sound(Now)' /\ Busy(Now)'
  <2>1. Now' \in States
    BY <1>3 DEF TypeOK, Now, States, Phases
  <2> QED
    BY <1>1, <1>2, <2>1 DEF Sound, Busy, Now
<1> QED
  BY <1>1, <1>3, <1>4 DEF Inductive, StopsAreLate, ErrorReasons

\* A job ends everything.
LEMMA Ending ==
  ASSUME Inductive, NEW v \in Verifier, NEW i \in Input, SetJob(v, i, "over"),
         ended' \in {"bug", "ERROR", "exception"}, Unchanged,
         failed \subseteq failed', failed' \subseteq failed \cup {<<v, i>>},
         ended' = "bug" \/ <<v, i>> \in stopped \cup failed'
  PROVE  Inductive'
<1>1. UNCHANGED <<tracked, alloc, results, stopped>> /\ TypeOK /\ StopsAreLate
  BY DEF Unchanged, Inductive
<1>2. /\ job' \in [Verifier -> [Input -> Phases]] /\ job'[v][i] = "over"
  <2>1. "over" \in Phases
    BY DEF Phases
  <2> QED
    BY <1>1, <2>1, SetJobTyped
<1>3. TypeOK'
  <2>1. failed' \subseteq Job
    BY <1>1 DEF TypeOK, Job
  <2> QED
    BY <1>1, <1>2, <2>1 DEF TypeOK, Phases
<1>4. ErrorReasons'
  <2>1. CASE <<v, i>> \in stopped
    <3>1. <<v, i>>[1] = v /\ <<v, i>>[2] = i
      OBVIOUS
    <3> QED
      BY <1>1, <1>2, <2>1, <3>1 DEF StopsAreLate, ErrorReasons
  <2>2. CASE <<v, i>> \in failed' \/ ended' = "bug"
    BY <2>2 DEF ErrorReasons
  <2> QED
    BY <2>1, <2>2
<1> QED
  BY <1>1, <1>3, <1>4 DEF Inductive, StopsAreLate

\* What is done about an answer before inputs are given out again.
Answered(v, i, kind) ==
  [tracked |-> [w \in Verifier |-> IF tracked[w] = i THEN 0 ELSE tracked[w]],
   alloc |-> [alloc EXCEPT ![i] = {}],
   results |-> Record(i, kind),
   job |-> [job EXCEPT ![v][i] = "over"]]

LEMMA AnsweredSound ==
  ASSUME Inductive, ended = "no", NEW v \in Verifier, NEW i \in Input,
         NEW kind \in {"CORRECT", "UNKNOWN"}
  PROVE  LET s == Answered(v, i, kind) IN
           /\ Sound(s) /\ s.results[i] # "none"
           /\ \A j \in Input : results[j] # "none" => s.results[j] # "none"
           /\ \A w \in Verifier, j \in Input :
                s.job[w][j] = IF w = v /\ j = i THEN "over" ELSE job[w][j]
<1> DEFINE s == Answered(v, i, kind)
<1>1. TypeOK /\ Sound(Now)
  BY DEF Inductive
<1>2. /\ s.tracked = [w \in Verifier |-> IF tracked[w] = i THEN 0 ELSE tracked[w]]
      /\ s.alloc = [alloc EXCEPT ![i] = {}]
      /\ s.results = [results EXCEPT ![i] = kind]
      /\ s.job = [job EXCEPT ![v][i] = "over"]
      /\ s = [tracked |-> s.tracked, alloc |-> s.alloc, results |-> s.results, job |-> s.job]
  BY DEF Answered, Record
<1> HIDE DEF s
<1>3. /\ tracked \in [Verifier -> 0..Inputs] /\ alloc \in [Input -> SUBSET Verifier]
      /\ results \in [Input -> {"none", "CORRECT", "UNKNOWN"}]
      /\ job \in [Verifier -> [Input -> Phases]]
  BY <1>1 DEF TypeOK, Phases
<1>4. /\ \A j \in Input : s.alloc[j] = IF j = i THEN {} ELSE alloc[j]
      /\ \A j \in Input : s.results[j] = IF j = i THEN kind ELSE results[j]
  BY <1>2, <1>3
<1>5. /\ s.job \in [Verifier -> [Input -> Phases]]
      /\ \A w \in Verifier, j \in Input :
           s.job[w][j] = IF w = v /\ j = i THEN "over" ELSE job[w][j]
  <2>1. s.job \in [Verifier -> [Input -> Phases]]
    BY <1>2, <1>3 DEF Phases
  <2>2. ASSUME NEW w \in Verifier, NEW j \in Input
        PROVE  s.job[w][j] = IF w = v /\ j = i THEN "over" ELSE job[w][j]
    <3>1. s.job[w] = (IF w = v THEN [job[v] EXCEPT ![i] = "over"] ELSE job[w])
          /\ job[v] \in [Input -> Phases]
      BY <1>2, <1>3
    <3> QED
      BY <3>1
  <2> QED
    BY <2>1, <2>2
<1>6. s \in States
  <2>1. s.tracked \in [Verifier -> 0..Inputs]
    BY <1>2, <1>3, CountAssumption
  <2>2. s.alloc \in [Input -> SUBSET Verifier]
        /\ s.results \in [Input -> {"none", "CORRECT", "UNKNOWN"}]
    BY <1>2, <1>3
  <2> QED
    BY <1>2, <1>5, <2>1, <2>2 DEF States
<1>7. Sound(s)
  BY <1>1, <1>4, <1>5, <1>6 DEF Sound, Now
<1> QED
  BY <1>4, <1>5, <1>7 DEF s

\* An answer and what is given out after it.
LEMMA AnswerStep ==
  ASSUME Inductive, NEW v \in Verifier, NEW i \in Input, Answers(v, i)
  PROVE  /\ ended = "no" /\ UNCHANGED failed
         /\ stopped \subseteq stopped' /\ \A p \in stopped' \ stopped : p \in Job /\ p[2] = i
         /\ \E kind \in {"CORRECT", "UNKNOWN"} : LET s == Answered(v, i, kind) IN
              \/ ~Unsolved(s) /\ Become(s) /\ ended' = "DONE"
              \/ Unsolved(s) /\ Become(Execute(s)) /\ ended' = ended
<1>1. ended = "no" /\ UNCHANGED failed /\ stopped' = stopped \cup (StoppedFor(i) \ {<<v, i>>})
  BY DEF Answers
<1>2. \A p \in StoppedFor(i) : p \in Job /\ p[2] = i
  BY DEF StoppedFor, Job
<1>3. PICK kind \in {"CORRECT", "UNKNOWN"} :
        LET s == Answered(v, i, kind) IN
          IF \A j \in Input : s.results[j] # "none"
          THEN Become(s) /\ ended' = "DONE"
          ELSE Become(Reschedule(s)) /\ UNCHANGED ended
  BY Zenon DEF Answers, Answered
<1> QED
  BY <1>1, <1>2, <1>3 DEF Reschedule, Unsolved

LEMMA AnswersRight ==
  ASSUME Inductive, NEW v \in Verifier, NEW i \in Input, Answers(v, i)
  PROVE  Inductive'
<1>1. /\ ended = "no" /\ UNCHANGED failed /\ TypeOK /\ StopsAreLate
      /\ stopped \subseteq stopped' /\ \A p \in stopped' \ stopped : p \in Job /\ p[2] = i
  BY AnswerStep DEF Inductive
<1>2. PICK kind \in {"CORRECT", "UNKNOWN"} : LET s == Answered(v, i, kind) IN
        \/ ~Unsolved(s) /\ Become(s) /\ ended' = "DONE"
        \/ Unsolved(s) /\ Become(Execute(s)) /\ ended' = ended
  BY AnswerStep
<1> DEFINE s == Answered(v, i, kind)
<1>3. /\ Sound(s) /\ s.results[i] # "none"
      /\ \A j \in Input : results[j] # "none" => s.results[j] # "none"
  BY <1>1, AnsweredSound
<1>4. (~Unsolved(s) /\ Become(s) /\ ended' = "DONE")
      \/ (Unsolved(s) /\ Become(Execute(s)) /\ ended' = "no")
  BY <1>1, <1>2
<1> HIDE DEF s
<1>5. stopped' \subseteq Job /\ failed' \subseteq Job
  BY <1>1 DEF TypeOK
<1>6. ASSUME results' = s.results PROVE StopsAreLate'
  <2>1. \A p \in stopped : p \in Job /\ p[2] \in Input
    BY <1>1 DEF TypeOK, Job
  <2> QED
    BY <1>1, <1>3, <1>6, <2>1 DEF StopsAreLate
<1>7. CASE Become(s) /\ ended' = "DONE"
  <2>1. TypeOK'
    BY <1>3, <1>5, <1>7, SoundIsTyped DEF Sound
  <2>2. results' = s.results
    BY <1>7 DEF Become
  <2> QED
    BY <1>6, <1>7, <2>1, <2>2 DEF Inductive, ErrorReasons
<1>8. CASE Unsolved(s) /\ Become(Execute(s)) /\ ended' = "no"
  <2> DEFINE t == Execute(s)
  <2>1. Sound(t) /\ Busy(t) /\ t.results = s.results
    BY <1>3, <1>8, ExecuteRight DEF Onward
  <2>2. Become(t)
    BY <1>8
  <2> HIDE DEF t
  <2>3. t \in States /\ TypeOK'
    BY <1>5, <1>8, <2>1, <2>2, SoundIsTyped DEF Sound
  <2>4. Now' = t
    BY <2>2, <2>3 DEF Now, Become, States
  <2>5. results' = s.results
    BY <2>1, <2>2 DEF Become
  <2>6. Sound(Now') /\ Busy(Now')
    BY <2>1, <2>4
  <2>7. Sound(Now)' /\ Busy(Now)'
    BY <2>6 DEF Sound, Busy
  <2> QED
    BY <1>6, <1>8, <2>3, <2>5, <2>7 DEF Inductive, ErrorReasons
<1> QED
  BY <1>4, <1>7, <1>8

LEMMA InitRight ==
  ASSUME Init
  PROVE  Inductive
<1> DEFINE s == [tracked |-> [v \in Verifier |-> 0],
                 alloc |-> [i \in Input |-> {}],
                 results |-> [i \in Input |-> "none"],
                 job |-> [v \in Verifier |-> [i \in Input |-> "none"]]]
           t == Execute(s)
<1>1. Sound(s) /\ Unsolved(s)
  <2>1. 0 \in 0..Inputs /\ 1 \in Input
    BY CountAssumption DEF Input
  <2>2. s \in States
    BY <2>1 DEF States, Phases
  <2> QED
    BY <2>1, <2>2 DEF Sound, Unsolved
<1>2. Sound(t) /\ Busy(t)
  <2> HIDE DEF s
  <2> QED
    BY <1>1, ExecuteRight DEF Onward
<1>3. /\ tracked = t.tracked /\ alloc = t.alloc /\ results = t.results /\ job = t.job
      /\ stopped = {} /\ failed = {} /\ ended = "no"
  BY Zenon DEF Init
<1> HIDE DEF t
<1>4. t \in States /\ Now = t
  BY <1>2, <1>3 DEF Sound, Now, States
<1>5. TypeOK
  BY <1>3, <1>4 DEF TypeOK, States, Phases
<1> QED
  BY <1>2, <1>3, <1>4, <1>5 DEF Inductive, StopsAreLate, ErrorReasons

LEMMA StepRight ==
  ASSUME Inductive, [Next]_vars
  PROVE  Inductive'
<1>1. ASSUME UNCHANGED vars PROVE Inductive'
  <2>1. UNCHANGED <<tracked, alloc, results, job, stopped, failed, ended>>
    BY <1>1 DEF vars
  <2>2. TypeOK' /\ StopsAreLate' /\ ErrorReasons'
    BY <2>1 DEF Inductive, TypeOK, StopsAreLate, ErrorReasons
  <2>3. Now' = Now
    BY <2>1 DEF Now
  <2>4. ended' = "no" => Sound(Now') /\ Busy(Now')
    BY <2>1, <2>3 DEF Inductive
  <2> QED
    BY <2>2, <2>4 DEF Inductive, Sound, Busy
<1>2. ASSUME NEW v \in Verifier, NEW i \in Input, StartJob(v, i) PROVE Inductive'
  <2>1. CASE <<v, i>> \in stopped
    BY <1>2, <2>1, Ending DEF StartJob
  <2>2. CASE <<v, i>> \notin stopped
    BY <1>2, <2>2, GoesOn DEF StartJob
  <2> QED
    BY <2>1, <2>2
<1>3. ASSUME NEW v \in Verifier, NEW i \in Input, ToolStarts(v, i) PROVE Inductive'
  BY <1>3, GoesOn DEF ToolStarts
<1>4. ASSUME NEW v \in Verifier, NEW i \in Input, SetupFails(v, i) PROVE Inductive'
  BY <1>4, Ending DEF SetupFails
<1>5. ASSUME NEW v \in Verifier, NEW i \in Input, FindsBug(v, i) PROVE Inductive'
  BY <1>5, Ending DEF FindsBug
<1>6. ASSUME NEW v \in Verifier, NEW i \in Input, Answers(v, i) PROVE Inductive'
  BY <1>6, AnswersRight
<1> QED
  BY <1>1, <1>2, <1>3, <1>4, <1>5, <1>6 DEF Next, Works, Over

LEMMA AlwaysInductive == Spec => []Inductive
<1>1. Init => Inductive
  BY InitRight
<1>2. Inductive /\ [Next]_vars => Inductive'
  BY StepRight
<1> QED
  BY <1>1, <1>2, PTL DEF Spec

-----------------------------------------------------------------------------
(* The theorems *)

\* The types of the records of the algorithm and of the jobs.
THEOREM StealingTyped == Spec => []TypeOK
<1>1. Inductive => TypeOK
  BY DEF Inductive
<1> QED
  BY <1>1, AlwaysInductive, PTL

\* An input without a result is worked on, or nobody was given it yet, and
\* somebody works as long as there is no result: execute() never gives all
\* inputs up.
THEOREM NoInputForgotten == Spec => []InputsCovered
<1>1. ASSUME Inductive PROVE InputsCovered
  <2> SUFFICES ASSUME ended = "no" PROVE InputsCovered
    BY DEF InputsCovered
  <2>1. /\ TypeOK /\ StopsAreLate /\ job \in [Verifier -> [Input -> Phases]]
        /\ alloc \in [Input -> SUBSET Verifier]
        /\ \E i \in Input : results[i] = "none" /\ alloc[i] # {}
        /\ \A i \in Input, v \in Verifier : results[i] = "none" =>
             (v \in alloc[i] <=> job[v][i] # "none") /\ job[v][i] # "over"
    BY <1>1 DEF Inductive, Sound, Busy, Now, TypeOK, Phases
  <2>2. ASSUME NEW i \in Input, results[i] = "none", NEW v \in alloc[i]
        PROVE  v \in Verifier /\ Live(v, i) /\ <<v, i>> \notin stopped
    <3>1. v \in Verifier /\ job[v][i] \in Phases
      BY <2>1
    <3>2. Live(v, i)
      BY <2>1, <2>2, <3>1 DEF Live, Phases
    <3>3. <<v, i>>[2] = i
      OBVIOUS
    <3> QED
      BY <2>1, <2>2, <3>1, <3>2, <3>3 DEF StopsAreLate
  <2>3. ASSUME NEW i \in Input, results[i] = "none"
        PROVE  \/ alloc[i] = {} /\ \A v \in Verifier : job[v][i] = "none"
               \/ \E v \in alloc[i] : Live(v, i) /\ <<v, i>> \notin stopped
    BY <2>1, <2>2, <2>3
  <2>4. \E v \in Verifier, i \in Input : results[i] = "none" /\ Live(v, i)
    BY <2>1, <2>2
  <2> QED
    BY <2>1, <2>3, <2>4 DEF InputsCovered
<1> QED
  BY <1>1, AlwaysInductive, PTL

\* An ERROR or an exception comes from a set-up that failed or from a job that was
\* stopped because its input was solved.
THEOREM ErrorsHaveReasons == Spec => []ErrorReasons
<1>1. Inductive => ErrorReasons
  BY DEF Inductive
<1> QED
  BY <1>1, AlwaysInductive, PTL

\* Handing out inputs again and again starts nobody twice on an input, and nobody
\* where one of its name has started.
THEOREM NobodyTwice == Spec => OncePerName
<1> DEFINE Once == \A v \in Verifier, i \in Input :
                     job[v][i] # "queued" /\ job'[v][i] = "queued" =>
                       /\ job[v][i] = "none"
                       /\ \A w \in Verifier \ {v} : Names[w] = Names[v] => job'[w][i] = "none"
<1>1. ASSUME Inductive, [Next]_vars PROVE [Once]_vars
  <2> SUFFICES ASSUME Next, NEW v \in Verifier, NEW i \in Input,
                      job[v][i] # "queued", job'[v][i] = "queued"
               PROVE  /\ job[v][i] = "none"
                      /\ \A w \in Verifier \ {v} : Names[w] = Names[v] => job'[w][i] = "none"
    BY <1>1
  <2>1. ASSUME NEW w \in Verifier, NEW j \in Input, NEW phase \in Phases \ {"queued"},
               SetJob(w, j, phase)
        PROVE  FALSE
    BY <1>1, <2>1, SetJobTyped DEF Inductive
  <2>2. PICK w \in Verifier, j \in Input : Answers(w, j)
    <3>1. Works
      BY DEF Next, Over, vars
    <3> QED
      BY <2>1, <3>1 DEF Works, StartJob, ToolStarts, SetupFails, FindsBug, Phases
  <2>3. PICK kind \in {"CORRECT", "UNKNOWN"} : LET s == Answered(w, j, kind) IN
          \/ ~Unsolved(s) /\ Become(s)
          \/ Unsolved(s) /\ Become(Execute(s))
    BY <1>1, <2>2, AnswerStep
  <2> DEFINE s == Answered(w, j, kind)
             t == Execute(s)
  <2>4. /\ Sound(s)
        /\ \A u \in Verifier, k \in Input :
             s.job[u][k] = IF u = w /\ k = j THEN "over" ELSE job[u][k]
    BY <1>1, <2>2, AnsweredSound DEF Answers
  <2>5. Become(s) \/ Become(t)
    BY <2>3
  <2> HIDE DEF s
  <2>6. Onward(s, t)
    BY <2>4, ExecuteRight
  <2> HIDE DEF t
  <2>7. s.job[v][i] # "queued" /\ (s.job[v][i] = "none" => job[v][i] = "none")
    BY <2>4
  <2>8. job' = t.job /\ t.job[v][i] = "queued"
    BY <2>5, <2>7 DEF Become
  <2>9. /\ s.job[v][i] = "none" /\ v \in t.alloc[i] /\ t.results[i] = "none" /\ Sound(t)
    BY <2>6, <2>7, <2>8 DEF Onward
  <2>10. ASSUME NEW u \in Verifier \ {v}, Names[u] = Names[v] PROVE job'[u][i] = "none"
    BY <2>8, <2>9, <2>10 DEF Sound
  <2> QED
    BY <2>7, <2>9, <2>10
<1> QED
  BY <1>1, AlwaysInductive, PTL DEF Spec, OncePerName

=============================================================================
