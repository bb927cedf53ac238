--------------------------- MODULE WorkflowProofs ---------------------------
(***************************************************************************)
(* What holds of the task engine for every plan of tasks.  Two invariants  *)
(* carry it: Inductive, the types and that a stop reaches everything below *)
(* the stopped task, and Tree, where every task is and whom it belongs to. *)
(***************************************************************************)
EXTENDS Workflow, SequenceTheorems, WellFoundedInduction, TLAPS

-----------------------------------------------------------------------------
(* Lemmas about sequences *)

LEMMA ToSetType ==
  ASSUME NEW S, NEW q \in Seq(S)
  PROVE  ToSet(q) \in SUBSET S
BY LenProperties DEF ToSet

\* The head of a queue leaves it.
LEMMA TailToSet ==
  ASSUME NEW S, NEW q \in Seq(S), q # <<>>, IsInjective(q)
  PROVE  /\ Tail(q) \in Seq(S) /\ Head(q) \in S
         /\ ToSet(q) = {Head(q)} \cup ToSet(Tail(q))
         /\ Head(q) \notin ToSet(Tail(q))
         /\ IsInjective(Tail(q))
<1>1. /\ Tail(q) \in Seq(S) /\ Head(q) \in S /\ Head(q) = q[1]
      /\ Len(q) \in Nat \ {0} /\ Len(Tail(q)) = Len(q) - 1
      /\ \A i \in 1..Len(Tail(q)) : Tail(q)[i] = q[i + 1]
      /\ DOMAIN q = 1..Len(q) /\ DOMAIN Tail(q) = 1..Len(Tail(q))
  BY HeadTailProperties, LenProperties, EmptySeq
<1>2. ToSet(q) = {Head(q)} \cup ToSet(Tail(q))
  <2>1. \A i \in 1..Len(q) : i = 1 \/ (i - 1 \in 1..Len(Tail(q)) /\ q[i] = Tail(q)[i - 1])
    BY <1>1
  <2>2. \A i \in 1..Len(Tail(q)) : i + 1 \in 1..Len(q)
    BY <1>1
  <2>3. ToSet(Tail(q)) \subseteq ToSet(q)
    BY <1>1, <2>2 DEF ToSet
  <2>4. Head(q) \in ToSet(q)
    BY <1>1 DEF ToSet
  <2>5. ASSUME NEW x \in ToSet(q), x # Head(q)
        PROVE  x \in ToSet(Tail(q))
    <3>1. PICK i \in 1..Len(q) : x = q[i]
      BY <1>1 DEF ToSet
    <3>2. i - 1 \in 1..Len(Tail(q)) /\ x = Tail(q)[i - 1]
      BY <1>1, <2>1, <2>5, <3>1
    <3> QED
      BY <1>1, <3>2 DEF ToSet
  <2> QED
    BY <2>3, <2>4, <2>5
<1>3. Head(q) \notin ToSet(Tail(q)) /\ IsInjective(Tail(q))
  BY <1>1 DEF ToSet, IsInjective
<1> QED
  BY <1>1, <1>2, <1>3

LEMMA ConcatToSet ==
  ASSUME NEW S, NEW p \in Seq(S), NEW q \in Seq(S)
  PROVE  /\ p \o q \in Seq(S)
         /\ ToSet(p \o q) = ToSet(p) \cup ToSet(q)
         /\ IsInjective(p) /\ IsInjective(q) /\ ToSet(p) \cap ToSet(q) = {}
              => IsInjective(p \o q)
<1>1. /\ p \o q \in Seq(S) /\ Len(p \o q) = Len(p) + Len(q)
      /\ Len(p) \in Nat /\ Len(q) \in Nat
      /\ \A i \in 1..(Len(p) + Len(q)) :
           (p \o q)[i] = IF i <= Len(p) THEN p[i] ELSE q[i - Len(p)]
      /\ DOMAIN p = 1..Len(p) /\ DOMAIN q = 1..Len(q)
      /\ DOMAIN (p \o q) = 1..(Len(p) + Len(q))
  BY ConcatProperties, LenProperties
<1> DEFINE c == p \o q
<1>2. /\ \A i \in 1..Len(p) : i \in DOMAIN c /\ c[i] = p[i]
      /\ \A i \in 1..Len(q) : Len(p) + i \in DOMAIN c /\ c[Len(p) + i] = q[i]
      /\ \A i \in DOMAIN c : i \in 1..Len(p) \/ \E j \in 1..Len(q) : i = Len(p) + j
  <2>1. \A i \in 1..Len(p) : i \in DOMAIN c /\ c[i] = p[i]
    BY <1>1
  <2>2. ASSUME NEW i \in 1..Len(q)
        PROVE  Len(p) + i \in DOMAIN c /\ c[Len(p) + i] = q[i]
    <3>1. Len(p) + i \in 1..(Len(p) + Len(q)) /\ ~(Len(p) + i <= Len(p))
          /\ (Len(p) + i) - Len(p) = i
      BY <1>1
    <3> QED
      BY <1>1, <3>1
  <2>3. ASSUME NEW i \in DOMAIN c, i \notin 1..Len(p)
        PROVE  \E j \in 1..Len(q) : i = Len(p) + j
    <3>1. i - Len(p) \in 1..Len(q) /\ i = Len(p) + (i - Len(p))
      BY <1>1, <2>3
    <3> QED
      BY <3>1
  <2> QED
    BY <2>1, <2>2, <2>3
<1> HIDE DEF c
<1>3. ToSet(c) = ToSet(p) \cup ToSet(q)
  <2>1. ToSet(p) \subseteq ToSet(c) /\ ToSet(q) \subseteq ToSet(c)
    BY <1>1, <1>2 DEF ToSet
  <2>2. ASSUME NEW x \in ToSet(c)
        PROVE  x \in ToSet(p) \cup ToSet(q)
    <3>1. PICK i \in DOMAIN c : x = c[i]
      BY DEF ToSet
    <3>2. CASE i \in 1..Len(p)
      BY <1>1, <1>2, <3>1, <3>2 DEF ToSet
    <3>3. CASE i \notin 1..Len(p)
      BY <1>1, <1>2, <3>1, <3>3 DEF ToSet
    <3> QED
      BY <3>2, <3>3
  <2> QED
    BY <2>1, <2>2
<1>4. ASSUME IsInjective(p), IsInjective(q), ToSet(p) \cap ToSet(q) = {}
      PROVE  IsInjective(c)
  <2> SUFFICES ASSUME NEW i \in DOMAIN c, NEW j \in DOMAIN c, c[i] = c[j]
               PROVE  i = j
    BY DEF IsInjective
  <2>1. CASE i \in 1..Len(p) /\ j \in 1..Len(p)
    BY <1>1, <1>2, <1>4, <2>1 DEF IsInjective
  <2>2. CASE i \notin 1..Len(p) /\ j \notin 1..Len(p)
    <3>1. PICK k \in 1..Len(q) : i = Len(p) + k
      BY <1>2, <2>2
    <3>2. PICK m \in 1..Len(q) : j = Len(p) + m
      BY <1>2, <2>2
    <3>3. q[k] = q[m]
      BY <1>2, <3>1, <3>2
    <3>4. k = m
      BY <1>1, <1>4, <3>3 DEF IsInjective
    <3> QED
      BY <3>1, <3>2, <3>4
  <2>3. CASE i \in 1..Len(p) /\ j \notin 1..Len(p)
    <3>1. PICK m \in 1..Len(q) : j = Len(p) + m
      BY <1>2, <2>3
    <3>2. p[i] = q[m]
      BY <1>2, <2>3, <3>1
    <3> QED
      BY <1>1, <1>4, <2>3, <3>2 DEF ToSet
  <2>4. CASE i \notin 1..Len(p) /\ j \in 1..Len(p)
    <3>1. PICK k \in 1..Len(q) : i = Len(p) + k
      BY <1>2, <2>4
    <3>2. p[j] = q[k]
      BY <1>2, <2>4, <3>1
    <3> QED
      BY <1>1, <1>4, <2>4, <3>2 DEF ToSet
  <2> QED
    BY <2>1, <2>2, <2>3, <2>4
<1> QED
  BY <1>1, <1>3, <1>4 DEF c

\* Removing the element at a position of a sequence leaves a sequence.
LEMMA RemoveAtType ==
  ASSUME NEW S, NEW q \in Seq(S), NEW i \in 1 .. Len(q)
  PROVE  RemoveAt(q, i) \in Seq(S)
<1>1. SubSeq(q, 1, i - 1) \in Seq(S)
  BY SubSeqProperties
<1>2. SubSeq(q, i + 1, Len(q)) \in Seq(S)
  BY SubSeqProperties
<1> QED
  BY <1>1, <1>2, ConcatProperties DEF RemoveAt

\* An element leaves a list without repetitions.
LEMMA RemoveAtToSet ==
  ASSUME NEW S, NEW q \in Seq(S), NEW i \in 1 .. Len(q), IsInjective(q)
  PROVE  /\ RemoveAt(q, i) \in Seq(S)
         /\ ToSet(RemoveAt(q, i)) = ToSet(q) \ {q[i]}
         /\ IsInjective(RemoveAt(q, i))
<1>1. Len(q) \in Nat /\ DOMAIN q = 1..Len(q)
  BY LenProperties
<1> DEFINE p == SubSeq(q, 1, i - 1)
           r == SubSeq(q, i + 1, Len(q))
<1>2. /\ p \in Seq(S) /\ Len(p) = i - 1 /\ DOMAIN p = 1..(i - 1)
      /\ \A j \in 1..(i - 1) : p[j] = q[j]
  <2>1. p \in Seq(S) /\ Len(p) = i - 1 /\ \A j \in 1..(i - 1) : p[j] = q[1 + j - 1]
    BY <1>1, SubSeqProperties
  <2> HIDE DEF p
  <2> QED
    BY <1>1, <2>1, LenProperties
<1>3. /\ r \in Seq(S) /\ Len(r) = Len(q) - i /\ DOMAIN r = 1..(Len(q) - i)
      /\ \A j \in 1..(Len(q) - i) : r[j] = q[i + j]
  <2>1. r \in Seq(S) /\ Len(r) = Len(q) - i /\ \A j \in 1..(Len(q) - i) : r[j] = q[i + j]
    <3>1. /\ i + 1 \in Int /\ Len(q) \in Int
          /\ \A j \in (i + 1)..Len(q) : q[j] \in S
      BY <1>1
    <3>2. /\ r \in Seq(S)
          /\ Len(r) = IF i + 1 <= Len(q) THEN Len(q) - (i + 1) + 1 ELSE 0
          /\ \A j \in 1..(Len(q) - (i + 1) + 1) : r[j] = q[(i + 1) + j - 1]
      BY <3>1, SubSeqProperties
    <3> HIDE DEF r
    <3>3. /\ Len(q) - (i + 1) + 1 = Len(q) - i
          /\ i + 1 <= Len(q) \/ Len(q) - i = 0
      <4>1. i \in Int /\ Len(q) \in Int /\ 1 <= i /\ i <= Len(q)
        BY <1>1
      <4> QED
        BY <4>1
    <3>4. \A j \in 1..(Len(q) - i) : (i + 1) + j - 1 = i + j
      BY <1>1
    <3>5. CASE i + 1 <= Len(q)
      BY <3>2, <3>3, <3>4, <3>5
    <3>6. CASE ~(i + 1 <= Len(q))
      BY <3>2, <3>3, <3>4, <3>6
    <3> QED
      BY <3>5, <3>6
  <2> HIDE DEF r
  <2> QED
    BY <1>1, <2>1, LenProperties
<1>4. RemoveAt(q, i) = p \o r
  BY DEF RemoveAt
<1> HIDE DEF p, r
<1>5. ToSet(p) \cup ToSet(r) = ToSet(q) \ {q[i]}
  <2>1. ASSUME NEW j \in 1..Len(q), j # i
        PROVE  q[j] \in ToSet(p) \cup ToSet(r)
    <3>1. CASE j < i
      BY <1>1, <1>2, <2>1, <3>1 DEF ToSet
    <3>2. CASE j > i
      <4>1. j - i \in 1..(Len(q) - i) /\ i + (j - i) = j
        BY <1>1, <3>2
      <4> QED
        BY <1>3, <4>1 DEF ToSet
    <3> QED
      BY <1>1, <2>1, <3>1, <3>2
  <2>2. ASSUME NEW x \in ToSet(p) \cup ToSet(r)
        PROVE  x \in ToSet(q) \ {q[i]}
    <3>1. CASE x \in ToSet(p)
      <4>1. PICK j \in 1..(i - 1) : x = q[j]
        BY <1>2, <3>1 DEF ToSet
      <4> QED
        BY <1>1, <4>1 DEF ToSet, IsInjective
    <3>2. CASE x \in ToSet(r)
      <4>1. PICK j \in 1..(Len(q) - i) : x = q[i + j]
        BY <1>3, <3>2 DEF ToSet
      <4>2. i + j \in 1..Len(q) /\ i + j # i
        BY <1>1
      <4> QED
        BY <1>1, <4>1, <4>2 DEF ToSet, IsInjective
    <3> QED
      BY <2>2, <3>1, <3>2
  <2>3. ASSUME NEW x \in ToSet(q) \ {q[i]}
        PROVE  x \in ToSet(p) \cup ToSet(r)
    <3>1. PICK j \in 1..Len(q) : x = q[j]
      BY <1>1 DEF ToSet
    <3> QED
      BY <2>1, <2>3, <3>1
  <2> QED
    BY <2>2, <2>3
<1>6. IsInjective(p) /\ IsInjective(r) /\ ToSet(p) \cap ToSet(r) = {}
  <2>1. IsInjective(p)
    BY <1>1, <1>2 DEF IsInjective
  <2>2. IsInjective(r)
    <3> SUFFICES ASSUME NEW j \in 1..(Len(q) - i), NEW k \in 1..(Len(q) - i), r[j] = r[k]
                 PROVE  j = k
      BY <1>3 DEF IsInjective
    <3>1. i + j \in 1..Len(q) /\ i + k \in 1..Len(q) /\ q[i + j] = q[i + k]
      BY <1>1, <1>3
    <3>2. i + j = i + k
      BY <1>1, <3>1 DEF IsInjective
    <3> QED
      BY <3>2
  <2>3. ASSUME NEW j \in 1..(i - 1), NEW k \in 1..(Len(q) - i), p[j] = r[k]
        PROVE  FALSE
    <3>1. j \in 1..Len(q) /\ i + k \in 1..Len(q) /\ q[j] = q[i + k] /\ j # i + k
      BY <1>1, <1>2, <1>3, <2>3
    <3> QED
      BY <1>1, <3>1 DEF IsInjective
  <2> QED
    BY <1>2, <1>3, <2>1, <2>2, <2>3 DEF ToSet
<1> QED
  BY <1>2, <1>3, <1>4, <1>5, <1>6, ConcatToSet

-----------------------------------------------------------------------------
(* NoFd.  Its recursive function is reasoned about without induction: if it did
   not exist, or were wrong, there would be a smallest place where it is. *)

\* A set of natural numbers has a smallest element.
LEMMA Smallest ==
  ASSUME NEW S \in SUBSET Nat, S # {}
  PROVE  \E x \in S : \A y \in S : x <= y
<1>1. \E x \in S : \A y \in S : ~(<<y, x>> \in OpToRel(<, Nat))
  BY NatLessThanWellFounded, WFMin
<1>2. \A x \in Nat, y \in Nat : ~(<<y, x>> \in OpToRel(<, Nat)) => x <= y
  BY DEF OpToRel
<1> QED
  BY <1>1, <1>2

LEMMA AppendToSet ==
  ASSUME NEW S, NEW q \in Seq(S), NEW e \in S
  PROVE  /\ Append(q, e) \in Seq(S)
         /\ ToSet(Append(q, e)) = ToSet(q) \cup {e}
         /\ IsInjective(q) /\ e \notin ToSet(q) => IsInjective(Append(q, e))
<1>1. /\ Append(q, e) \in Seq(S) /\ Len(Append(q, e)) = Len(q) + 1 /\ Len(q) \in Nat
      /\ \A i \in 1..Len(q) : Append(q, e)[i] = q[i]
      /\ Append(q, e)[Len(q) + 1] = e
      /\ DOMAIN Append(q, e) = 1..Len(q) + 1 /\ DOMAIN q = 1..Len(q)
  BY AppendProperties, LenProperties
<1>2. ToSet(Append(q, e)) = ToSet(q) \cup {e}
  BY <1>1 DEF ToSet
<1>3. ASSUME IsInjective(q), e \notin ToSet(q)
      PROVE  IsInjective(Append(q, e))
  BY <1>1, <1>3 DEF IsInjective, ToSet
<1> QED
  BY <1>1, <1>2, <1>3

\* The tasks that run no program among the first n of a sequence, in their order.
Filtered(s, n, q) ==
  /\ q \in Seq(Task)
  /\ ToSet(q) = {s[j] : j \in {i \in 1..n : Kind[s[i]] # "process"}}
  /\ IsInjective(q)

Keeps(s, n, f) ==
  \A i \in 0..n : f[i] = IF i = 0 THEN <<>>
                         ELSE IF Kind[s[i]] # "process" THEN Append(f[i - 1], s[i])
                         ELSE f[i - 1]

LEMMA KeepStep ==
  ASSUME NEW s \in Seq(Task), IsInjective(s), NEW n \in 1..Len(s),
         NEW q, Filtered(s, n - 1, q)
  PROVE  Filtered(s, n, IF Kind[s[n]] # "process" THEN Append(q, s[n]) ELSE q)
<1>1. Len(s) \in Nat /\ DOMAIN s = 1..Len(s) /\ \A i \in 1..Len(s) : s[i] \in Task
  BY LenProperties
<1>2. CASE Kind[s[n]] # "process"
  <2>1. s[n] \notin ToSet(q)
    BY <1>1 DEF IsInjective, Filtered
  <2>2. /\ Append(q, s[n]) \in Seq(Task)
        /\ ToSet(Append(q, s[n])) = ToSet(q) \cup {s[n]}
        /\ IsInjective(Append(q, s[n]))
    BY <1>1, <2>1, AppendToSet DEF Filtered
  <2>3. {s[j] : j \in {i \in 1..n : Kind[s[i]] # "process"}}
          = {s[j] : j \in {i \in 1..(n - 1) : Kind[s[i]] # "process"}} \cup {s[n]}
    BY <1>1, <1>2
  <2> QED
    BY <1>2, <2>2, <2>3 DEF Filtered
<1>3. CASE Kind[s[n]] = "process"
  <2>1. {i \in 1..n : Kind[s[i]] # "process"} = {i \in 1..(n - 1) : Kind[s[i]] # "process"}
    BY <1>1, <1>3
  <2> QED
    BY <1>3, <2>1 DEF Filtered
<1> QED
  BY <1>2, <1>3

\* The recursive function of NoFd exists: a smallest length for which it does not
\* would be the successor of one for which it does.
LEMMA KeepExists ==
  ASSUME NEW s \in Seq(Task), NEW m \in 0..Len(s)
  PROVE  \E f : f = [i \in 0..m |-> f[i]] /\ Keeps(s, m, f)
<1>1. Len(s) \in Nat
  BY LenProperties
<1> DEFINE Bad == {n \in 0..Len(s) : ~\E f : f = [i \in 0..n |-> f[i]] /\ Keeps(s, n, f)}
<1>2. Bad \in SUBSET Nat
  BY <1>1
<1> SUFFICES ASSUME Bad # {} PROVE FALSE
  OBVIOUS
<1>3. PICK n \in Bad : \A k \in Bad : n <= k
  <2> HIDE DEF Bad
  <2> QED
    BY <1>2, Smallest
<1>4. n \in 0..Len(s) /\ ~\E f : f = [i \in 0..n |-> f[i]] /\ Keeps(s, n, f)
  OBVIOUS
<1>5. n # 0
  <2> DEFINE f == [i \in 0..0 |-> <<>>]
  <2>1. f = [i \in 0..0 |-> f[i]] /\ Keeps(s, 0, f)
    BY DEF Keeps
  <2> QED
    BY <1>4, <2>1
<1>6. n - 1 \in 0..Len(s) /\ n - 1 \notin Bad /\ n \in Nat
  <2> HIDE DEF Bad
  <2> QED
    BY <1>1, <1>3, <1>4, <1>5
<1>7. PICK g : g = [i \in 0..(n - 1) |-> g[i]] /\ Keeps(s, n - 1, g)
  BY <1>6
<1> HIDE DEF Bad
<1> DEFINE last == IF Kind[s[n]] # "process" THEN Append(g[n - 1], s[n]) ELSE g[n - 1]
           f == [i \in 0..n |-> IF i = n THEN last ELSE g[i]]
<1>8. f = [i \in 0..n |-> f[i]]
  <2> HIDE DEF last
  <2> QED
    OBVIOUS
<1>9. Keeps(s, n, f)
  <2> SUFFICES ASSUME NEW i \in 0..n
               PROVE  f[i] = IF i = 0 THEN <<>>
                             ELSE IF Kind[s[i]] # "process" THEN Append(f[i - 1], s[i])
                             ELSE f[i - 1]
    BY Zenon DEF Keeps
  <2>1. CASE i = n
    <3>1. f[i] = last /\ f[i - 1] = g[n - 1] /\ i # 0
      <4> HIDE DEF last
      <4> QED
        BY <1>6, <1>5, <2>1
    <3> HIDE DEF f
    <3> QED
      BY <3>1, <2>1
  <2>2. CASE i # n
    <3>1. i \in 0..(n - 1) /\ (i # 0 => i - 1 \in 0..n /\ i - 1 # n)
      BY <1>6, <2>2
    <3>2. f[i] = g[i] /\ (i # 0 => f[i - 1] = g[i - 1])
      <4> HIDE DEF last
      <4> QED
        BY <2>2, <3>1
    <3> HIDE DEF f
    <3> QED
      BY <1>7, <3>1, <3>2 DEF Keeps
  <2> QED
    BY <2>1, <2>2
<1> HIDE DEF f
<1> QED
  BY <1>4, <1>8, <1>9

\* The tasks of a list without repetitions that run no program.
LEMMA NoFdProperties ==
  ASSUME NEW s \in Seq(Task), IsInjective(s)
  PROVE  /\ NoFd(s) \in Seq(Task)
         /\ ToSet(NoFd(s)) = {t \in ToSet(s) : Kind[t] # "process"}
         /\ IsInjective(NoFd(s))
<1> DEFINE keep == CHOOSE f : f = [i \in 0..Len(s) |->
                     IF i = 0 THEN <<>>
                     ELSE IF Kind[s[i]] # "process" THEN Append(f[i - 1], s[i])
                     ELSE f[i - 1]]
<1>1. Len(s) \in Nat /\ DOMAIN s = 1..Len(s)
  BY LenProperties
<1>2. Keeps(s, Len(s), keep)
  <2>1. PICK f : f = [i \in 0..Len(s) |-> f[i]] /\ Keeps(s, Len(s), f)
    BY <1>1, KeepExists
  <2>2. f = [i \in 0..Len(s) |-> IF i = 0 THEN <<>>
                                 ELSE IF Kind[s[i]] # "process" THEN Append(f[i - 1], s[i])
                                 ELSE f[i - 1]]
    <3>1. [i \in 0..Len(s) |-> f[i]]
           = [i \in 0..Len(s) |-> IF i = 0 THEN <<>>
                                 ELSE IF Kind[s[i]] # "process" THEN Append(f[i - 1], s[i])
                                 ELSE f[i - 1]]
      BY <2>1 DEF Keeps
    <3> QED
      BY <2>1, <3>1, Zenon
  <2>3. keep = [i \in 0..Len(s) |-> IF i = 0 THEN <<>>
                                    ELSE IF Kind[s[i]] # "process" THEN Append(keep[i - 1], s[i])
                                    ELSE keep[i - 1]]
    BY <2>2, Zenon
  <2> HIDE DEF keep
  <2> QED
    BY <2>3 DEF Keeps
<1>3. NoFd(s) = keep[Len(s)]
  BY Zenon DEF NoFd
<1> HIDE DEF keep
<1> DEFINE Bad == {n \in 0..Len(s) : ~Filtered(s, n, keep[n])}
<1>4. Bad = {}
  <2> SUFFICES ASSUME Bad # {} PROVE FALSE
    OBVIOUS
  <2>1. Bad \in SUBSET Nat
    BY <1>1
  <2>2. PICK n \in Bad : \A k \in Bad : n <= k
    <3> HIDE DEF Bad
    <3> QED
      BY <2>1, Smallest
  <2>3. n \in 0..Len(s) /\ ~Filtered(s, n, keep[n])
    OBVIOUS
  <2>4. CASE n = 0
    <3>1. keep[0] = <<>>
      BY <1>1, <1>2 DEF Keeps
    <3>2. Filtered(s, 0, <<>>)
      BY DEF Filtered, ToSet, IsInjective
    <3> QED
      BY <2>3, <2>4, <3>1, <3>2
  <2>5. CASE n # 0
    <3>1. n \in 1..Len(s) /\ n - 1 \in 0..Len(s) /\ n - 1 \notin Bad
      <4> HIDE DEF Bad
      <4> QED
        BY <1>1, <2>2, <2>3, <2>5
    <3>2. Filtered(s, n - 1, keep[n - 1])
      BY <3>1
    <3>3. keep[n] = IF Kind[s[n]] # "process" THEN Append(keep[n - 1], s[n]) ELSE keep[n - 1]
      BY <1>1, <1>2, <2>3, <2>5 DEF Keeps
    <3> QED
      BY <2>3, <3>1, <3>2, <3>3, KeepStep
  <2> QED
    BY <2>4, <2>5
<1>5. Filtered(s, Len(s), NoFd(s))
  BY <1>1, <1>3, <1>4
<1>6. {s[j] : j \in {i \in 1..Len(s) : Kind[s[i]] # "process"}}
        = {t \in ToSet(s) : Kind[t] # "process"}
  BY <1>1 DEF ToSet
<1> QED
  BY <1>5, <1>6 DEF Filtered

-----------------------------------------------------------------------------
(* Lemmas about the tree *)

\* What a stop reaches contains the stopped tasks and is closed under kids.
LEMMA BelowClosed ==
  ASSUME NEW k \in [Task -> SUBSET Task], NEW S \in SUBSET Task
  PROVE  /\ Below(k, S) \in SUBSET Task
         /\ S \subseteq Below(k, S)
         /\ Closed(k, Below(k, S))
<1>1. Below(k, S) \in SUBSET Task /\ S \subseteq Below(k, S)
  BY DEF Below
<1>2. ASSUME NEW t \in Below(k, S), NEW x \in k[t]
      PROVE  x \in Below(k, S)
  <2>1. t \in Task /\ x \in Task
    BY <1>1
  <2>2. ASSUME NEW C \in SUBSET Task, S \subseteq C, Closed(k, C)
        PROVE  x \in C
    <3>1. t \in C
      BY <2>2 DEF Below
    <3> QED
      BY <2>2, <3>1 DEF Closed
  <2> QED
    BY <2>1, <2>2 DEF Below
<1> QED
  BY <1>1, <1>2 DEF Closed

\* Stopping more tasks together with all that is below them keeps the set of
\* stopped tasks closed.
LEMMA StopKeepsClosed ==
  ASSUME NEW k \in [Task -> SUBSET Task], NEW S \in SUBSET Task,
         NEW T \in SUBSET Task, Closed(k, T)
  PROVE  /\ Closed(k, T \cup Below(k, S))
         /\ T \cup Below(k, S) \in SUBSET Task
BY BelowClosed DEF Closed

\* finish() returns a result that is an outcome or a replacement.
LEMMA ReturnsType ==
  ASSUME TypeOK, NEW t \in Task, NEW r \in MayReturn(t)
  PROVE  r \in Outcomes \cup {"REPLACE_TASK"}
BY DEF TypeOK, MayReturn, Returns, Outcomes

-----------------------------------------------------------------------------
(* The step in which a task finishes *)

\* The tree and the outcomes keep their types, and the stopped tasks stay
\* closed: a replacement enters only below a task that is not stopped, since
\* the task it replaces is a child of that task and was not stopped.
LEMMA FinishStep ==
  ASSUME TypeOK, StopReachesSubtree,
         NEW t \in Task, NEW r \in Outcomes \cup {"REPLACE_TASK"},
         NEW n \in Task \cup {NoTask}, NEW a \in Outcomes,
         NEW next \in Phases, Finish(t, r, n, a, next)
  PROVE  /\ kids' \in [Task -> SUBSET Task]
         /\ outcome' \in [Task -> Outcomes]
         /\ parent' \in [Task -> Task \cup {NoTask}]
         /\ stopped' \in SUBSET Task
         /\ overdue' \in SUBSET Task
         /\ created' \in SUBSET Task
         /\ tasks' \in SUBSET Task
         /\ newTasks' \in Seq(Task)
         /\ pc' \in Phases
         /\ verdict' \in Outcomes
         /\ StopReachesSubtree'
<1> USE TaskAssumption, PlanAssumption
<1>1. n = NoTask \/ n \in Task
  OBVIOUS
<1>2. kids' \in [Task -> SUBSET Task]
  <2>1. Replaces(t, r) => n \in Task
    BY DEF Finish, Fresh
  <2> QED
    BY <2>1 DEF Finish, KidsAfter, TypeOK
<1>3. outcome' \in [Task -> Outcomes]
  BY DEF Finish, OutcomeAfter, TypeOK, Outcomes
<1>4. parent' \in [Task -> Task \cup {NoTask}]
  BY DEF Finish, TypeOK
<1>5. Closed(kids', stopped)
  <2>1. ASSUME NEW q \in stopped, NEW x \in kids'[q]
        PROVE  x \in kids[q]
    <3>1. q \in Task
      BY DEF TypeOK
    <3>2. CASE q = parent[t]
      <4>1. t \in kids[q]
        BY <3>1, <3>2 DEF Finish, Broken, TypeOK
      <4>2. t \in stopped
        BY <4>1 DEF StopReachesSubtree, Closed
      <4> QED
        BY <3>1, <3>2, <4>2 DEF Finish, KidsAfter, Replaces
    <3>3. CASE q # parent[t]
      BY <3>1, <3>3 DEF Finish, KidsAfter
    <3> QED
      BY <3>2, <3>3
  <2> QED
    BY <2>1 DEF StopReachesSubtree, Closed
<1>6. StoppedBy(t, r, a) \in SUBSET Task
  BY DEF StoppedBy, Asks, HasParent, TypeOK
<1>7. stopped' = stopped \cup Below(kids', StoppedBy(t, r, a))
  BY DEF Finish
<1>8. stopped' \in SUBSET Task /\ Closed(kids', stopped')
  BY <1>2, <1>5, <1>6, <1>7, StopKeepsClosed DEF TypeOK
<1>9. overdue' \in SUBSET Task /\ created' \in SUBSET Task /\ tasks' \in SUBSET Task
  BY <1>1 DEF Finish, TypeOK
<1>10. newTasks' \in Seq(Task)
  BY <1>1 DEF Finish, TypeOK
<1>11. pc' \in Phases /\ verdict' \in Outcomes
  BY DEF Finish, IsFinal, TypeOK, Phases, Outcomes
<1> QED
  BY <1>2, <1>3, <1>4, <1>8, <1>9, <1>10, <1>11 DEF StopReachesSubtree

-----------------------------------------------------------------------------
(* The invariants *)

Inductive == TypeOK /\ StopReachesSubtree

LEMMA InitInductive == Init => Inductive
<1> SUFFICES ASSUME Init PROVE Inductive
  OBVIOUS
<1> USE TaskAssumption, PlanAssumption
<1>1. TypeOK
  <2>1. newTasks \in Seq(Task) /\ batch \in Seq(Task) /\ noFd \in Seq(Task)
    BY DEF Init
  <2>2. kids \in [Task -> SUBSET Task]
    <3>1. ASSUME NEW t \in Task PROVE ToSet(Initial[t]) \in SUBSET Task
      BY DEF ToSet
    <3> QED
      BY <3>1 DEF Init
  <2> QED
    BY <2>1, <2>2 DEF Init, TypeOK, Phases, Outcomes
<1>2. StopReachesSubtree
  BY DEF Init, StopReachesSubtree, Closed
<1> QED
  BY <1>1, <1>2 DEF Inductive

\* An exception stops and kills every task of the workflow.
LEMMA CrashInductive ==
  ASSUME Inductive, NEW e \in {"stopped", "missing", "noresult"}, Crash(e)
  PROVE  Inductive'
<1> USE DEF Inductive
<1>1. /\ Closed(kids, stopped \cup Below(kids, tasks))
      /\ stopped \cup Below(kids, tasks) \in SUBSET Task
  BY StopKeepsClosed DEF TypeOK, StopReachesSubtree
<1>2. proc' \in [Task -> {"none", "running", "killed", "exited", "reaped"}]
  BY DEF TypeOK, Crash, Kill
<1>3. TypeOK'
  BY <1>1, <1>2 DEF TypeOK, Crash, Phases
<1>4. StopReachesSubtree'
  BY <1>1 DEF Crash, StopReachesSubtree
<1> QED
  BY <1>3, <1>4

LEMMA StartInProcessInductive ==
  ASSUME Inductive, StartInProcess
  PROVE  Inductive'
<1> USE TaskAssumption, PlanAssumption, OwnerAssumption DEF Inductive
<1> DEFINE t == Head(batch)
           subs == ToSet(Initial[t])
<1>1. t \in Task /\ Tail(batch) \in Seq(Task)
  BY HeadTailProperties DEF TypeOK, StartInProcess
<1>2. Initial[t] \in Seq(Task) /\ subs \in SUBSET Task
  BY <1>1 DEF ToSet
<1>3. /\ newTasks' \in Seq(Task)
      /\ noFd' \in Seq(Task)
  <2>1. newTasks \o Initial[t] \in Seq(Task)
    BY <1>2, ConcatProperties DEF TypeOK
  <2>2. noFd \o NoFd(Initial[t]) \in Seq(Task)
    BY <1>1, <1>2, NoFdProperties, ConcatProperties DEF TypeOK
  <2> QED
    BY <2>1, <2>2 DEF StartInProcess
<1>4. kids' = [kids EXCEPT ![t] = subs] /\ t \notin stopped
  BY DEF StartInProcess
<1>5. TypeOK'
  <2>1. kids' \in [Task -> SUBSET Task]
    BY <1>1, <1>2, <1>4 DEF TypeOK
  <2>2. parent' \in [Task -> Task \cup {NoTask}]
    BY <1>1 DEF TypeOK, StartInProcess
  <2>3. created' \in SUBSET Task /\ started' \in SUBSET Task /\ tasks' \in SUBSET Task
    BY <1>1, <1>2 DEF TypeOK, StartInProcess
  <2> QED
    BY <1>1, <1>3, <2>1, <2>2, <2>3 DEF TypeOK, StartInProcess
<1>6. StopReachesSubtree'
  BY <1>1, <1>4 DEF StopReachesSubtree, Closed, TypeOK, StartInProcess
<1> QED
  BY <1>5, <1>6

\* Appending a replacement to the list of tasks that run no program.
LEMMA ScanFinishInductive ==
  ASSUME Inductive, ScanFinish
  PROVE  Inductive'
<1> USE TaskAssumption DEF Inductive
<1> DEFINE t == noFd[idx]
<1>1. idx \in 1 .. Len(noFd) /\ t \in Task
  BY DEF TypeOK, ScanFinish
<1>2. PICK r \in MayReturn(t) \ {"none"}, n \in Fresh \cup {NoTask}, a \in Outcomes :
        /\ Finish(t, r, n, a, "nofd")
        /\ noFd' = RemoveAt(IF n # NoTask /\ Kind[n] # "process"
                            THEN Append(noFd, n) ELSE noFd, idx)
  BY DEF ScanFinish
<1>3. n \in Task \cup {NoTask} /\ r \in Outcomes \cup {"REPLACE_TASK"}
  BY <1>1, <1>2, ReturnsType DEF Fresh
<1> HIDE DEF t
<1>4. /\ kids' \in [Task -> SUBSET Task] /\ outcome' \in [Task -> Outcomes]
      /\ parent' \in [Task -> Task \cup {NoTask}] /\ stopped' \in SUBSET Task
      /\ overdue' \in SUBSET Task /\ created' \in SUBSET Task
      /\ tasks' \in SUBSET Task /\ newTasks' \in Seq(Task)
      /\ pc' \in Phases /\ verdict' \in Outcomes /\ StopReachesSubtree'
  <2>1. "nofd" \in Phases
    BY DEF Phases
  <2> QED
    BY <1>1, <1>2, <1>3, <2>1, FinishStep
<1>5. noFd' \in Seq(Task)
  <2>1. CASE n # NoTask /\ Kind[n] # "process"
    <3>1. Append(noFd, n) \in Seq(Task) /\ idx \in 1 .. Len(Append(noFd, n))
      BY <1>1, <1>3, <2>1, AppendProperties DEF TypeOK
    <3> QED
      BY <1>2, <2>1, <3>1, RemoveAtType
  <2>2. CASE ~(n # NoTask /\ Kind[n] # "process")
    BY <1>1, <1>2, <2>2, RemoveAtType DEF TypeOK
  <2> QED
    BY <2>1, <2>2
<1>6. idx' \in Nat \ {0} /\ UNCHANGED <<batch, started, expired, error, proc>>
  BY <1>2 DEF TypeOK, ScanFinish, Finish
<1> QED
  BY <1>4, <1>5, <1>6 DEF TypeOK

LEMMA PollFinishInductive ==
  ASSUME Inductive, PollFinish
  PROVE  Inductive'
<1> USE TaskAssumption DEF Inductive
<1>1. PICK t \in HungUp, n \in Fresh \cup {NoTask}, a \in Outcomes :
        \E r \in MayReturn(t) :
          /\ Finish(t, r, n, a, "timeout")
          /\ proc' = [proc EXCEPT ![t] = "reaped"]
          /\ noFd' = IF n # NoTask /\ Kind[n] # "process" THEN Append(noFd, n) ELSE noFd
  BY Zenon DEF PollFinish
<1>2. PICK r \in MayReturn(t) :
        /\ Finish(t, r, n, a, "timeout")
        /\ proc' = [proc EXCEPT ![t] = "reaped"]
        /\ noFd' = IF n # NoTask /\ Kind[n] # "process" THEN Append(noFd, n) ELSE noFd
  BY <1>1
<1>3. t \in Task /\ n \in Task \cup {NoTask}
  BY DEF HungUp, Fresh, TypeOK
<1>4. r \in Outcomes \cup {"REPLACE_TASK"}
  BY <1>3, ReturnsType
<1>5. /\ kids' \in [Task -> SUBSET Task] /\ outcome' \in [Task -> Outcomes]
      /\ parent' \in [Task -> Task \cup {NoTask}] /\ stopped' \in SUBSET Task
      /\ overdue' \in SUBSET Task /\ created' \in SUBSET Task
      /\ tasks' \in SUBSET Task /\ newTasks' \in Seq(Task)
      /\ pc' \in Phases /\ verdict' \in Outcomes /\ StopReachesSubtree'
  <2>1. "timeout" \in Phases
    BY DEF Phases
  <2> QED
    BY <1>2, <1>3, <1>4, <2>1, FinishStep
<1>6. noFd' \in Seq(Task)
  BY <1>2, <1>3, AppendProperties DEF TypeOK
<1>7. /\ UNCHANGED <<batch, started, expired, error, idx>>
      /\ proc' \in [Task -> {"none", "running", "killed", "exited", "reaped"}]
  <2>1. UNCHANGED idx
    BY DEF PollFinish
  <2>2. UNCHANGED <<batch, started, expired, error>>
    BY <1>2 DEF Finish
  <2> QED
    BY <1>2, <1>3, <2>1, <2>2 DEF TypeOK
<1> QED
  BY <1>5, <1>6, <1>7 DEF TypeOK

\* A timeout and a kill stop some tasks and everything below them.
LEMMA ChecksInductive ==
  ASSUME Inductive, CheckTimeouts \/ CheckStopped
  PROVE  Inductive'
<1> USE DEF Inductive
<1>1. CASE CheckTimeouts
  <2> DEFINE due == (tasks \cap expired) \ stopped
  <2>1. due \in SUBSET Task
    BY DEF TypeOK
  <2>2. stopped' = stopped \cup Below(kids, due) /\ kids' = kids
    BY <1>1 DEF CheckTimeouts
  <2>3. Closed(kids, stopped') /\ stopped' \in SUBSET Task
    BY <2>1, <2>2, StopKeepsClosed DEF TypeOK, StopReachesSubtree
  <2>4. TypeOK'
    BY <1>1, <2>3 DEF TypeOK, CheckTimeouts, Phases
  <2> QED
    BY <2>2, <2>3, <2>4 DEF StopReachesSubtree
<1>2. CASE CheckStopped
  <2> DEFINE late == tasks \cap stopped \cap overdue
  <2>1. late \in SUBSET Task
    BY DEF TypeOK
  <2>2. stopped' = stopped \cup Below(kids, late) /\ kids' = kids
    BY <1>2 DEF CheckStopped
  <2>3. Closed(kids, stopped') /\ stopped' \in SUBSET Task
    BY <2>1, <2>2, StopKeepsClosed DEF TypeOK, StopReachesSubtree
  <2>4. proc' \in [Task -> {"none", "running", "killed", "exited", "reaped"}]
    BY <1>2 DEF TypeOK, CheckStopped, Kill
  <2>5. TypeOK'
    BY <1>2, <2>3, <2>4 DEF TypeOK, CheckStopped, Phases
  <2> QED
    BY <2>2, <2>3, <2>5 DEF StopReachesSubtree
<1> QED
  BY <1>1, <1>2

LEMMA NextInductive == Inductive /\ [Next]_vars => Inductive'
<1> SUFFICES ASSUME Inductive, [Next]_vars PROVE Inductive'
  OBVIOUS
<1> USE TaskAssumption DEF Inductive
<1>1. CASE LoopTop
  BY <1>1 DEF LoopTop, TypeOK, StopReachesSubtree, Phases
<1>2. CASE StartFails
  BY <1>2, CrashInductive DEF StartFails
<1>3. CASE StartProcess
  <2>1. Head(batch) \in Task /\ Tail(batch) \in Seq(Task)
    BY <1>3, HeadTailProperties DEF StartProcess, TypeOK
  <2> QED
    BY <1>3, <2>1 DEF StartProcess, TypeOK, StopReachesSubtree
<1>4. CASE StartInProcess
  BY <1>4, StartInProcessInductive
<1>5. CASE StartDone \/ ScanSkip \/ ScanDone \/ PollIdle
  BY <1>5 DEF StartDone, ScanSkip, ScanDone, PollIdle, TypeOK, StopReachesSubtree, Phases
<1>6. CASE ScanFinish
  BY <1>6, ScanFinishInductive
<1>7. CASE ScanNoResult
  BY <1>7, CrashInductive DEF ScanNoResult
<1>8. CASE PollFinish
  BY <1>8, PollFinishInductive
<1>9. CASE CheckTimeouts \/ CheckStopped
  BY <1>9, ChecksInductive
<1>10. ASSUME NEW t \in Task, Expire(t) \/ StopTakesLong(t)
       PROVE  Inductive'
  BY <1>10 DEF Expire, StopTakesLong, TypeOK, StopReachesSubtree
<1>11. ASSUME NEW t \in Task, Exit(t)
       PROVE  Inductive'
  BY <1>11 DEF Exit, TypeOK, StopReachesSubtree
<1>12. CASE UNCHANGED vars
  BY <1>12 DEF vars, TypeOK, StopReachesSubtree
<1> QED
  BY <1>1, <1>2, <1>3, <1>4, <1>5, <1>6, <1>7, <1>8, <1>9, <1>10, <1>11, <1>12
     DEF Next, MainLoop, Stutter

-----------------------------------------------------------------------------
(* The tree of tasks *)

\* Where tasks are: a task is queued once, then started once, and it is on the
\* list of tasks without a process as long as it lives.
Queues ==
  /\ batch # <<>> => pc \in {"start", "crashed"}
  /\ IsInjective(newTasks) /\ IsInjective(batch) /\ IsInjective(noFd)
  /\ ToSet(newTasks) \cap ToSet(batch) = {}
  /\ (ToSet(newTasks) \cup ToSet(batch)) \cap started = {}
  /\ tasks \subseteq started
  /\ started \cup ToSet(newTasks) \cup ToSet(batch) \subseteq created
  /\ ToSet(noFd) = {t \in Live : Kind[t] # "process"}

\* Who a task belongs to: it was created by a task that was started, which is its
\* parent from then on.
Owners ==
  /\ \A t \in Task : \A s \in ToSet(Initial[t]) : s \in created => t \in started
  /\ \A t \in Task : parent[t] # NoTask => t \in created /\ parent[t] \in started
  /\ \A t \in started :
       /\ kids[t] \subseteq created /\ \A s \in kids[t] : parent[s] = t
       /\ Kind[t] \in {"process", "inline"} => kids[t] = {}
       /\ Kind[t] = "continuation" => \A x, y \in kids[t] : x = y
  /\ \A t \in Task \ started :
       /\ outcome[t] = "none"
       /\ kids[t] = IF Kind[t] = "continuation" THEN ToSet(Initial[t]) ELSE {}

\* A task that lives is known to its parent, which waits for it; an aggregate that
\* has its result has been stopped.
Children ==
  /\ \A t \in Live : parent[t] # NoTask =>
       /\ t \in kids[parent[t]]
       /\ parent[t] \in tasks
       /\ Kind[parent[t]] = "continuation" => outcome[parent[t]] = "none"
  /\ \A p \in Task : Kind[p] = "aggregate" /\ outcome[p] # "none" => p \in stopped

\* A continuation waits for a task that lives or was stopped.
Waiting ==
  \A t \in tasks : Kind[t] = "continuation" /\ outcome[t] = "none" =>
    kids[t] \subseteq Live \cup stopped

\* A process object exists only for a task that runs.
Processes ==
  \A t \in Task : proc[t] \in {"running", "killed", "exited"} => t \in tasks /\ Kind[t] = "process"

\* A watchdog without a result watches a task, or watched one that was stopped on
\* its own.
Watchdogs ==
  \A w \in tasks : Kind[w] = "aggregate" /\ Policy[w] = "eager" /\ outcome[w] = "none" =>
    kids[w] # {} \/ \E t \in (started \cap stopped) \ tasks : parent[t] = w

\* An exception leaves the loop.
ErrorAtEnd == error # "none" => pc = "crashed"

Tree ==
  Queues /\ Owners /\ Children /\ Waiting /\ Processes /\ Watchdogs /\ ErrorAtEnd /\ CleanEnd

\* Nothing of the tree is lost when nothing of it changes but that more tasks
\* are stopped.
LEMMA SameTree ==
  ASSUME Tree,
         UNCHANGED <<newTasks, batch, noFd, tasks, created, started, parent, kids, outcome>>,
         stopped \subseteq stopped', batch # <<>> => pc' \in {"start", "crashed"},
         \A t \in Task : proc'[t] \in {"running", "killed", "exited"}
                           => proc[t] \in {"running", "killed", "exited"}
  PROVE  Queues' /\ Owners' /\ Children' /\ Waiting' /\ Processes' /\ Watchdogs'
<1>1. Queues'
  BY DEF Tree, Queues, Live
<1>2. Owners'
  BY DEF Tree, Owners
<1>3. Children'
  BY DEF Tree, Children, Live
<1>4. Waiting'
  BY DEF Tree, Waiting, Live
<1>5. Processes'
  BY DEF Tree, Processes
<1>6. Watchdogs'
  BY DEF Tree, Watchdogs
<1> QED
  BY <1>1, <1>2, <1>3, <1>4, <1>5, <1>6

LEMMA InitTree == Init => Tree
<1> SUFFICES ASSUME Init PROVE Tree
  OBVIOUS
<1> USE TaskAssumption, PlanAssumption
<1>1. /\ ToSet(<<>>) = {} /\ ToSet(<<Root>>) = {Root}
      /\ IsInjective(<<>>) /\ IsInjective(<<Root>>)
  BY DEF ToSet, IsInjective
<1>2. Queues
  BY <1>1 DEF Init, Queues, Live
<1>3. Owners
  BY OwnerAssumption DEF Init, Owners
<1>4. Children /\ Waiting /\ Processes /\ Watchdogs
  BY DEF Init, Children, Waiting, Processes, Watchdogs, Live, ToSet
<1>5. ErrorAtEnd /\ CleanEnd
  BY DEF Init, ErrorAtEnd, CleanEnd
<1> QED
  BY <1>2, <1>3, <1>4, <1>5 DEF Tree

LEMMA LoopTopTree ==
  ASSUME Inductive, Tree, LoopTop
  PROVE  Tree'
<1>1. batch = <<>> /\ error = "none" /\ ToSet(<<>>) = {} /\ IsInjective(<<>>)
  BY DEF Tree, Queues, ErrorAtEnd, LoopTop, ToSet, IsInjective
<1>2. Live' = Live
  BY <1>1 DEF LoopTop, Live
<1>3. Queues'
  BY <1>1, <1>2 DEF Tree, Queues, LoopTop, HasWork
<1>4. Owners' /\ Waiting' /\ Processes' /\ Watchdogs' /\ ErrorAtEnd'
  BY <1>1, <1>2 DEF Tree, Owners, Waiting, Processes, Watchdogs, ErrorAtEnd, LoopTop
<1>5. Children'
  BY <1>2 DEF Tree, Children, LoopTop
<1>6. CleanEnd'
  BY <1>1 DEF Tree, CleanEnd, Processes, LoopTop, HasWork
<1> QED
  BY <1>3, <1>4, <1>5, <1>6 DEF Tree

\* The exception of an aggregate without a result: the watchdog's is raised only
\* when the task it watched was stopped.
LEMMA CrashTree ==
  ASSUME Inductive, Tree, NEW e \in {"stopped", "missing", "noresult"}, Crash(e),
         e = "noresult" /\ Policy[noFd[idx]] = "eager" =>
           \E t \in (started \cap stopped) \ tasks : parent[t] = noFd[idx]
  PROVE  Tree'
<1>1. /\ tasks \subseteq Below(kids, tasks)
      /\ stopped \subseteq stopped'
  BY BelowClosed DEF Inductive, TypeOK, Crash
<1>2. Queues' /\ Owners' /\ Children' /\ Waiting' /\ Processes' /\ Watchdogs'
  <2>1. \A t \in Task : proc'[t] \in {"running", "killed", "exited"}
                           => proc[t] \in {"running", "killed", "exited"}
    BY DEF Crash, Kill
  <2> QED
    BY <1>1, <2>1, SameTree DEF Crash
<1>3. ErrorAtEnd'
  BY DEF ErrorAtEnd, Crash
<1>4. \A t \in Task : proc'[t] # "running"
  <2>1. \A t \in Task : proc[t] = "running" => t \in Below(kids, tasks)
    BY <1>1 DEF Tree, Processes
  <2> QED
    BY <2>1 DEF Crash, Kill
<1>5. CleanEnd'
  BY <1>1, <1>4 DEF CleanEnd, Crash
<1> QED
  BY <1>2, <1>3, <1>5 DEF Tree

\* A listed task runs when it has what IsDone asks for.
LEMMA DoneRuns ==
  ASSUME Inductive, Tree, NEW t \in ToSet(noFd), IsDone(t)
  PROVE  /\ t \in tasks
         /\ Kind[t] # "process"
         /\ kids[t] = {} \/ (Kind[t] = "continuation" /\ outcome[t] # "none")
<1>1. t \in Live /\ Kind[t] # "process" /\ t \in Task
  BY ToSetType DEF Tree, Queues, Inductive, TypeOK
<1>2. t \in started
  BY <1>1 DEF IsDone, Tree, Owners
<1>3. t \in tasks
  BY <1>1, <1>2 DEF Live, Tree, Queues
<1>4. kids[t] = {} \/ (Kind[t] = "continuation" /\ outcome[t] # "none")
  BY <1>2 DEF IsDone, Tree, Owners
<1> QED
  BY <1>1, <1>3, <1>4

LEMMA ScanNoResultTree ==
  ASSUME Inductive, Tree, ScanNoResult
  PROVE  Tree'
<1> DEFINE t == noFd[idx]
<1>1. idx \in 1..Len(noFd) /\ t \in ToSet(noFd) /\ t \in Task
  BY LenProperties DEF Inductive, TypeOK, ScanNoResult, ToSet
<1>2. IsDone(t) /\ "none" \in Returns(t) /\ Crash("noresult")
  BY DEF ScanNoResult
<1>3. t \in tasks
  BY <1>1, <1>2, DoneRuns
<1>4. ASSUME Policy[t] = "eager"
      PROVE  \E x \in (started \cap stopped) \ tasks : parent[x] = t
  <2>1. Kind[t] = "aggregate" /\ outcome[t] = "none"
    BY <1>2 DEF Returns
  <2>2. kids[t] = {}
    BY <1>2, <2>1 DEF IsDone
  <2> QED
    BY <1>3, <1>4, <2>1, <2>2 DEF Tree, Watchdogs
<1> QED
  BY <1>2, <1>4, CrashTree

LEMMA StartProcessTree ==
  ASSUME Inductive, Tree, StartProcess
  PROVE  Tree'
<1> DEFINE t == Head(batch)
<1>1. /\ t \in Task /\ Tail(batch) \in Seq(Task) /\ IsInjective(Tail(batch))
      /\ ToSet(batch) = {t} \cup ToSet(Tail(batch)) /\ t \notin ToSet(Tail(batch))
  BY TailToSet DEF Inductive, TypeOK, Tree, Queues, StartProcess
<1>2. /\ pc = "start" /\ batch # <<>> /\ Kind[t] = "process" /\ batch' = Tail(batch)
      /\ started' = started \cup {t} /\ tasks' = tasks \cup {t}
      /\ proc' = [proc EXCEPT ![t] = "running"]
      /\ UNCHANGED <<pc, newTasks, noFd, idx, created, stopped, expired, overdue,
                     parent, kids, outcome, verdict, error>>
  BY DEF StartProcess
<1>3. t \notin started /\ t \in created /\ kids[t] = {}
  BY <1>1, <1>2 DEF Tree, Queues, Owners
<1> HIDE DEF t
<1>4. Live' = Live
  BY <1>1, <1>2 DEF Live
<1>5. Queues'
  BY <1>1, <1>2, <1>3, <1>4 DEF Tree, Queues
<1>6. Owners'
  BY <1>1, <1>2, <1>3 DEF Tree, Owners
<1>7. Children'
  BY <1>2, <1>4 DEF Tree, Children
<1>8. Waiting'
  BY <1>2, <1>4 DEF Tree, Waiting
<1>9. Processes'
  BY <1>1, <1>2 DEF Tree, Processes, Inductive, TypeOK
<1>10. Watchdogs'
  <2> SUFFICES ASSUME NEW w \in tasks', Kind[w] = "aggregate", Policy[w] = "eager",
                      outcome[w] = "none", kids[w] = {}
               PROVE  \E x \in (started' \cap stopped) \ tasks' : parent[x] = w
    BY <1>2 DEF Watchdogs
  <2>1. w \in tasks
    BY <1>2
  <2>2. PICK x \in (started \cap stopped) \ tasks : parent[x] = w
    BY <2>1 DEF Tree, Watchdogs
  <2> QED
    BY <1>2, <1>3, <2>2
<1>11. ErrorAtEnd' /\ CleanEnd'
  BY <1>2 DEF Tree, ErrorAtEnd, CleanEnd
<1> QED
  BY <1>5, <1>6, <1>7, <1>8, <1>9, <1>10, <1>11 DEF Tree


\* The tasks that a task hands to add_task when it starts are new, since whoever
\* created them starts only now.
LEMMA StartInProcessTree ==
  ASSUME Inductive, Tree, StartInProcess
  PROVE  Tree'
<1> DEFINE t == Head(batch)
           subs == ToSet(Initial[t])
<1>1. /\ t \in Task /\ Tail(batch) \in Seq(Task) /\ IsInjective(Tail(batch))
      /\ ToSet(batch) = {t} \cup ToSet(Tail(batch)) /\ t \notin ToSet(Tail(batch))
  BY TailToSet DEF Inductive, TypeOK, Tree, Queues, StartInProcess
<1>2. /\ pc = "start" /\ batch # <<>> /\ Kind[t] # "process" /\ batch' = Tail(batch)
      /\ started' = started \cup {t} /\ tasks' = tasks \cup {t}
      /\ kids' = [kids EXCEPT ![t] = subs]
      /\ parent' = [s \in Task |-> IF s \in subs THEN t ELSE parent[s]]
      /\ newTasks' = newTasks \o Initial[t]
      /\ noFd' = noFd \o NoFd(Initial[t])
      /\ created' = created \cup subs
      /\ UNCHANGED <<pc, idx, stopped, expired, overdue, outcome, proc, verdict, error>>
  BY DEF StartInProcess
<1>3. /\ Initial[t] \in Seq(Task) /\ IsInjective(Initial[t]) /\ subs \in SUBSET Task
      /\ \A x \in Task : x # t => ToSet(Initial[x]) \cap subs = {}
  BY <1>1, PlanAssumption, OwnerAssumption, ToSetType
<1>4. /\ t \notin started /\ t \in created /\ outcome[t] = "none"
      /\ subs \cap created = {} /\ t \notin subs
  BY <1>1, <1>2, <1>3 DEF Tree, Queues, Owners
<1>5. /\ newTasks \in Seq(Task) /\ noFd \in Seq(Task)
      /\ kids \in [Task -> SUBSET Task]
  BY DEF Inductive, TypeOK
<1>6. /\ ToSet(newTasks) \subseteq created /\ Live \subseteq created
      /\ tasks \subseteq started /\ started \subseteq created
      /\ ToSet(noFd) \subseteq Live
  BY DEF Tree, Queues, Live
<1>7. /\ ToSet(newTasks') = ToSet(newTasks) \cup subs
      /\ IsInjective(newTasks')
  BY <1>2, <1>3, <1>4, <1>5, <1>6, ConcatToSet DEF Tree, Queues
<1>8. /\ ToSet(noFd') = ToSet(noFd) \cup {s \in subs : Kind[s] # "process"}
      /\ IsInjective(noFd')
  <2>1. /\ NoFd(Initial[t]) \in Seq(Task) /\ IsInjective(NoFd(Initial[t]))
        /\ ToSet(NoFd(Initial[t])) = {s \in subs : Kind[s] # "process"}
    BY <1>3, NoFdProperties
  <2>2. ToSet(noFd) \cap ToSet(NoFd(Initial[t])) = {}
    BY <1>4, <1>6, <2>1
  <2> QED
    BY <1>2, <1>5, <2>1, <2>2, ConcatToSet DEF Tree, Queues
<1>9. subs = {} \/ Kind[t] \notin {"process", "inline"}
  BY <1>1, InnerAssumption DEF ToSet
<1>10. Kind[t] = "continuation" => \A x, y \in subs : x = y
  <2>1. Kind[t] = "continuation" => Len(Initial[t]) = 1
    BY <1>1, InnerAssumption
  <2> QED
    BY <1>3, <2>1, LenProperties DEF ToSet
<1> HIDE DEF t, subs
<1>11. Live' = Live \cup subs
  BY <1>1, <1>2, <1>7 DEF Live
<1>12. Queues'
  <2>1. /\ ToSet(newTasks') \cap ToSet(batch') = {}
        /\ (ToSet(newTasks') \cup ToSet(batch')) \cap started' = {}
        /\ tasks' \subseteq started'
        /\ started' \cup ToSet(newTasks') \cup ToSet(batch') \subseteq created'
    BY <1>1, <1>2, <1>4, <1>6, <1>7 DEF Tree, Queues
  <2>2. ToSet(noFd') = {s \in Live' : Kind[s] # "process"}
    BY <1>8, <1>11 DEF Tree, Queues
  <2> QED
    BY <1>1, <1>2, <1>7, <1>8, <2>1, <2>2 DEF Tree, Queues
<1>13. \A x \in Task : x \in created => parent'[x] = parent[x]
  BY <1>2, <1>4
<1>14. \A x \in Task : x # t => kids'[x] = kids[x]
  BY <1>2, <1>5
<1>15. kids'[t] = subs /\ \A x \in subs : parent'[x] = t
  BY <1>1, <1>2, <1>3, <1>5
<1>16. Owners'
  <2>1. \A x \in Task : \A s \in ToSet(Initial[x]) : s \in created' => x \in started'
    BY <1>2, <1>3 DEF Tree, Owners
  <2>2. \A x \in Task : parent'[x] # NoTask => x \in created' /\ parent'[x] \in started'
    BY <1>2 DEF Tree, Owners
  <2>3. ASSUME NEW x \in started'
        PROVE  /\ kids'[x] \subseteq created' /\ \A s \in kids'[x] : parent'[s] = x
               /\ Kind[x] \in {"process", "inline"} => kids'[x] = {}
               /\ Kind[x] = "continuation" => \A y, z \in kids'[x] : y = z
    <3>1. CASE x = t
      BY <1>2, <1>9, <1>10, <1>15, <3>1
    <3>2. CASE x # t
      <4>1. x \in started /\ x \in Task
        BY <1>2, <3>2 DEF Inductive, TypeOK
      <4>2. kids'[x] = kids[x] /\ kids[x] \subseteq created /\ kids[x] \in SUBSET Task
        BY <1>5, <1>14, <3>2, <4>1 DEF Tree, Owners
      <4> QED
        BY <1>2, <1>13, <4>1, <4>2 DEF Tree, Owners
    <3> QED
      BY <3>1, <3>2
  <2>4. \A x \in Task \ started' :
          /\ outcome'[x] = "none"
          /\ kids'[x] = IF Kind[x] = "continuation" THEN ToSet(Initial[x]) ELSE {}
    BY <1>2, <1>14 DEF Tree, Owners
  <2> QED
    BY <2>1, <2>2, <2>3, <2>4 DEF Owners
<1>17. Children'
  <2>1. ASSUME NEW x \in Live', parent'[x] # NoTask
        PROVE  /\ x \in kids'[parent'[x]]
               /\ parent'[x] \in tasks'
               /\ Kind[parent'[x]] = "continuation" => outcome'[parent'[x]] = "none"
    <3>1. CASE x \in subs
      BY <1>2, <1>4, <1>15, <3>1
    <3>2. CASE x \notin subs
      <4>1. x \in Live /\ x \in Task /\ x \in created
        BY <1>6, <1>11, <3>2 DEF Inductive, TypeOK
      <4>2. parent'[x] = parent[x] /\ parent[x] \in Task
        BY <1>13, <2>1, <4>1 DEF Inductive, TypeOK
      <4>3. parent[x] \in tasks /\ parent[x] # t
        BY <1>4, <1>6, <2>1, <4>1, <4>2 DEF Tree, Children
      <4> QED
        BY <1>2, <1>14, <2>1, <4>1, <4>2, <4>3 DEF Tree, Children
    <3> QED
      BY <3>1, <3>2
  <2> QED
    BY <1>2, <2>1 DEF Tree, Children
<1>18. Waiting'
  <2> SUFFICES ASSUME NEW x \in tasks', Kind[x] = "continuation", outcome'[x] = "none"
               PROVE  kids'[x] \subseteq Live' \cup stopped'
    BY DEF Waiting
  <2>1. CASE x = t
    BY <1>11, <1>15, <2>1
  <2>2. CASE x # t
    <3>1. x \in tasks /\ x \in Task
      BY <1>2, <2>2 DEF Inductive, TypeOK
    <3> QED
      BY <1>2, <1>11, <1>14, <2>2, <3>1 DEF Tree, Waiting
  <2> QED
    BY <2>1, <2>2
<1>19. Processes'
  BY <1>2 DEF Tree, Processes
<1>20. Watchdogs'
  <2> SUFFICES ASSUME NEW w \in tasks', Kind[w] = "aggregate", Policy[w] = "eager",
                      outcome'[w] = "none", kids'[w] = {}
               PROVE  \E x \in (started' \cap stopped') \ tasks' : parent'[x] = w
    BY DEF Watchdogs
  <2>1. w # t
    <3>1. Initial[t] # <<>> => subs # {}
      BY <1>3, TailToSet DEF subs
    <3> QED
      BY <1>1, <1>15, <3>1, WatchdogAssumption
  <2>2. w \in tasks /\ w \in Task
    BY <1>2, <2>1 DEF Inductive, TypeOK
  <2>3. PICK x \in (started \cap stopped) \ tasks : parent[x] = w
    BY <1>2, <1>14, <2>1, <2>2 DEF Tree, Watchdogs
  <2>4. parent'[x] = w /\ x # t
    BY <1>4, <1>6, <1>13, <2>3 DEF Inductive, TypeOK
  <2> QED
    BY <1>2, <2>3, <2>4
<1>21. ErrorAtEnd' /\ CleanEnd'
  BY <1>2 DEF Tree, ErrorAtEnd, CleanEnd
<1> QED
  BY <1>12, <1>16, <1>17, <1>18, <1>19, <1>20, <1>21 DEF Tree


-----------------------------------------------------------------------------
(* A task finishes and leaves the tree, a replacement takes its place *)

\* What is known of a task t when it finishes.
Finishes(t) ==
  /\ t \in tasks
  /\ batch = <<>> /\ error = "none"
  /\ kids[t] = {} \/ (Kind[t] = "continuation" /\ outcome[t] # "none")

\* What becomes of the list of tasks without a process, and of the process.
Leaves(t, n) ==
  /\ IsInjective(noFd')
  /\ ToSet(noFd') = (ToSet(noFd) \ {t}) \cup {x \in {n} \ {NoTask} : Kind[x] # "process"}
  /\ \A x \in Task : proc'[x] \in {"running", "killed", "exited"} =>
       x # t /\ proc[x] \in {"running", "killed", "exited"}
  /\ \A x \in Task : proc'[x] = "running" => proc[x] = "running"

\* The new tree: a task that finishes leaves no task that lives behind, its
\* parent P is an aggregate or a continuation that waits for it, and only P's
\* subtasks and outcome change.
Effect(t, r, n) ==
  /\ \A x \in Live : parent[x] # t
  /\ parent[t] # NoTask => /\ parent[t] \in tasks \ {t} /\ t \in kids[parent[t]]
                           /\ Kind[parent[t]] \in {"aggregate", "continuation"}
  /\ n # NoTask <=> Replaces(t, r)
  /\ n # NoTask => n \in Successors[t] /\ n \in Task \ created
  /\ \A x \in Task : parent'[x] = IF x = n THEN parent[t] ELSE parent[x]
  /\ \A x \in Task \ {t} : x # parent[t] => kids'[x] = kids[x] /\ outcome'[x] = outcome[x]
  /\ kids'[t] \subseteq kids[t]
  /\ parent[t] # NoTask =>
       /\ Kind[parent[t]] = "aggregate" =>
            kids'[parent[t]] = (kids[parent[t]] \ {t}) \cup ({n} \ {NoTask})
       /\ Kind[parent[t]] = "continuation" =>
            kids'[parent[t]] = IF n # NoTask THEN {n} ELSE kids[parent[t]]
  /\ Live' = (Live \ {t}) \cup ({n} \ {NoTask})
  /\ ToSet(newTasks') = ToSet(newTasks) \cup ({n} \ {NoTask}) /\ IsInjective(newTasks')
  /\ created' = created \cup ({n} \ {NoTask})
  /\ tasks' = tasks \ {t}
  /\ UNCHANGED <<batch, started, error>>
  /\ outcome'[t] = outcome[t]

LEMMA FinishEffect ==
  ASSUME Inductive, Tree, NEW t \in Task, NEW r \in {"DONE", "ERROR", "REPLACE_TASK"},
         NEW n \in Fresh \cup {NoTask}, NEW a \in Outcomes, NEW next,
         Finishes(t), Finish(t, r, n, a, next)
  PROVE  Effect(t, r, n)
<1> USE TaskAssumption, PlanAssumption
<1> DEFINE P == parent[t]
<1>1. /\ t \in tasks /\ t \in started /\ t \in Live /\ P \in Task \cup {NoTask}
      /\ newTasks \in Seq(Task) /\ created \in SUBSET Task /\ tasks \in SUBSET Task
      /\ parent \in [Task -> Task \cup {NoTask}]
      /\ kids \in [Task -> SUBSET Task] /\ outcome \in [Task -> Outcomes]
  BY DEF Inductive, TypeOK, Finishes, Tree, Queues, Live
<1>2. \A x \in Live : parent[x] # t
  <2>1. CASE kids[t] = {}
    BY <2>1 DEF Tree, Children
  <2>2. CASE Kind[t] = "continuation" /\ outcome[t] # "none"
    BY <2>2 DEF Tree, Children
  <2> QED
    BY <2>1, <2>2 DEF Finishes
<1>3. ASSUME P # NoTask
      PROVE  /\ P \in tasks \ {t} /\ t \in kids[P]
             /\ Kind[P] \in {"aggregate", "continuation"}
  <2>1. P \in tasks /\ t \in kids[P] /\ P # t
    BY <1>1, <1>2, <1>3 DEF Tree, Children
  <2>2. P \in started /\ P \in Task
    BY <1>1, <2>1 DEF Tree, Queues
  <2>3. Kind[P] \notin {"process", "inline"}
    BY <2>1, <2>2 DEF Tree, Owners
  <2> QED
    BY <2>1, <2>2, <2>3 DEF Kinds
<1>4. /\ n # NoTask <=> Replaces(t, r)
      /\ n # NoTask => n \in Successors[t] /\ n \in Task \ created
  BY DEF Finish, Fresh
<1>5. /\ \A x \in Task : parent'[x] = IF x = n THEN P ELSE parent[x]
      /\ created' = created \cup ({n} \ {NoTask})
      /\ tasks' = tasks \ {t}
      /\ UNCHANGED <<batch, started, error>>
  BY DEF Finish
<1>6. \A x \in Task \ {t} : x # P => kids'[x] = kids[x] /\ outcome'[x] = outcome[x]
  BY DEF Finish, KidsAfter, OutcomeAfter
<1>7. kids'[t] \subseteq kids[t] /\ outcome'[t] = outcome[t]
  <2>1. t # P
    BY <1>3
  <2> QED
    BY <2>1 DEF Finish, KidsAfter, OutcomeAfter
<1>8. ASSUME P # NoTask
      PROVE  /\ Kind[P] = "aggregate" => kids'[P] = (kids[P] \ {t}) \cup ({n} \ {NoTask})
             /\ Kind[P] = "continuation" => kids'[P] = IF n # NoTask THEN {n} ELSE kids[P]
  <2>1. P \in Task /\ P # t /\ kids' = KidsAfter(t, r, n)
    BY <1>1, <1>3, <1>8 DEF Finish
  <2>2. Kind[P] = "aggregate" => kids'[P] = (kids[P] \ {t}) \cup (IF Replaces(t, r) THEN {n} ELSE {})
    BY <2>1 DEF KidsAfter
  <2>3. Kind[P] = "continuation" => kids'[P] = IF Replaces(t, r) THEN {n} ELSE kids[P]
    BY <2>1 DEF KidsAfter
  <2> QED
    BY <1>4, <2>2, <2>3
<1>9. ToSet(newTasks') = ToSet(newTasks) \cup ({n} \ {NoTask}) /\ IsInjective(newTasks')
  <2>1. CASE n = NoTask
    BY <2>1 DEF Finish, Tree, Queues
  <2>2. CASE n # NoTask
    <3>1. n \in Task /\ n \notin ToSet(newTasks) /\ newTasks' = Append(newTasks, n)
      BY <1>4, <2>2 DEF Finish, Tree, Queues
    <3> QED
      BY <1>1, <2>2, <3>1, AppendToSet DEF Tree, Queues
  <2> QED
    BY <2>1, <2>2
<1>10. Live' = (Live \ {t}) \cup ({n} \ {NoTask})
  <2>1. t \notin ToSet(newTasks) /\ t \notin ToSet(batch) /\ n \notin {t}
    BY <1>1, <1>4 DEF Tree, Queues
  <2> QED
    BY <1>5, <1>9, <2>1 DEF Live
<1> HIDE DEF P
<1> QED
  BY <1>2, <1>3, <1>4, <1>5, <1>6, <1>7, <1>8, <1>9, <1>10 DEF P, Effect


LEMMA FinishTree ==
  ASSUME Inductive, Inductive', Tree, NEW t \in Task, NEW r \in {"DONE", "ERROR", "REPLACE_TASK"},
         NEW n \in Fresh \cup {NoTask}, NEW a \in Outcomes, NEW next \in Phases \ {"over", "crashed"},
         Finishes(t), Finish(t, r, n, a, next), Leaves(t, n)
  PROVE  Tree'
<1> USE TaskAssumption
<1> DEFINE P == parent[t]
           N == {n} \ {NoTask}
<1>1. /\ \A x \in Live : parent[x] # t
      /\ P # NoTask => /\ P \in tasks \ {t} /\ t \in kids[P]
                       /\ Kind[P] \in {"aggregate", "continuation"}
      /\ n # NoTask <=> Replaces(t, r)
      /\ n # NoTask => n \in Successors[t] /\ n \in Task \ created
      /\ \A x \in Task : parent'[x] = IF x = n THEN P ELSE parent[x]
      /\ \A x \in Task \ {t} : x # P => kids'[x] = kids[x] /\ outcome'[x] = outcome[x]
      /\ kids'[t] \subseteq kids[t]
      /\ P # NoTask =>
           /\ Kind[P] = "aggregate" => kids'[P] = (kids[P] \ {t}) \cup N
           /\ Kind[P] = "continuation" => kids'[P] = IF n # NoTask THEN {n} ELSE kids[P]
      /\ Live' = (Live \ {t}) \cup N
      /\ ToSet(newTasks') = ToSet(newTasks) \cup N /\ IsInjective(newTasks')
      /\ created' = created \cup N
      /\ tasks' = tasks \ {t}
      /\ UNCHANGED <<batch, started, error>>
      /\ outcome'[t] = outcome[t]
  <2>1. Effect(t, r, n)
    BY FinishEffect
  <2> QED
    BY <2>1, Zenon DEF Effect
<1>2. /\ t \in tasks /\ t \in started /\ t \in Live /\ batch = <<>> /\ P \in Task \cup {NoTask}
      /\ Live \subseteq created /\ started \subseteq created /\ tasks \subseteq started
      /\ tasks \subseteq Live
      /\ created \in SUBSET Task /\ tasks \in SUBSET Task /\ Live \in SUBSET Task
      /\ kids \in [Task -> SUBSET Task] /\ outcome \in [Task -> Outcomes]
      /\ kids' \in [Task -> SUBSET Task] /\ parent \in [Task -> Task \cup {NoTask}]
  BY DEF Inductive, TypeOK, Finishes, Tree, Queues, Live
<1>3. stopped \subseteq stopped'
  BY DEF Finish
<1>4. ASSUME P # NoTask, outcome'[P] # outcome[P]
      PROVE  r # "REPLACE_TASK" /\ (Kind[P] = "continuation" => outcome'[P] = r)
             /\ (Kind[P] = "aggregate" => Asks(t, r) /\ a \in Answers(P, t, r) /\ outcome'[P] = a)
  BY <1>1, <1>2, <1>4 DEF Finish, OutcomeAfter, HasParent
<1>5. \A x \in created : x \in Task /\ x # n /\ parent'[x] = parent[x]
  BY <1>1, <1>2
<1> HIDE DEF P, N
<1>6. Queues'
  <2>1. ToSet(newTasks') \cap ToSet(batch') = {} /\ IsInjective(batch')
    BY <1>1, <1>2 DEF ToSet, IsInjective
  <2>2. (ToSet(newTasks') \cup ToSet(batch')) \cap started' = {}
    BY <1>1, <1>2 DEF Tree, Queues, N
  <2>3. tasks' \subseteq started' /\ started' \cup ToSet(newTasks') \cup ToSet(batch') \subseteq created'
    BY <1>1, <1>2 DEF Tree, Queues
  <2>4. ToSet(noFd') = {x \in Live' : Kind[x] # "process"} /\ IsInjective(noFd')
    <3>1. ToSet(noFd') = (ToSet(noFd) \ {t}) \cup {x \in N : Kind[x] # "process"}
      BY DEF Leaves, N
    <3>2. ToSet(noFd) = {x \in Live : Kind[x] # "process"}
      BY DEF Tree, Queues
    <3> QED
      BY <1>1, <3>1, <3>2 DEF Leaves
  <2>5. batch' = <<>>
    BY <1>1, <1>2
  <2> QED
    BY <1>1, <2>1, <2>2, <2>3, <2>4, <2>5 DEF Queues
<1>7. Owners'
  <2>1. \A x \in Task : \A s \in ToSet(Initial[x]) : s \in created' => x \in started'
    <3>1. \A x \in Task : \A s \in ToSet(Initial[x]) : s \notin N
      BY <1>1, OwnerAssumption DEF N
    <3> QED
      BY <1>1, <3>1 DEF Tree, Owners
  <2>2. ASSUME NEW x \in Task, parent'[x] # NoTask
        PROVE  x \in created' /\ parent'[x] \in started'
    <3>1. CASE x = n
      BY <1>1, <1>2, <2>2, <3>1 DEF N
    <3>2. CASE x # n
      BY <1>1, <2>2, <3>2 DEF Tree, Owners
    <3> QED
      BY <3>1, <3>2
  <2>3. ASSUME NEW x \in started'
        PROVE  /\ kids'[x] \subseteq created' /\ \A s \in kids'[x] : parent'[s] = x
               /\ Kind[x] \in {"process", "inline"} => kids'[x] = {}
               /\ Kind[x] = "continuation" => \A y, z \in kids'[x] : y = z
    <3>1. x \in started /\ x \in Task /\ x \in created
      BY <1>1, <1>2
    <3>2. /\ kids[x] \subseteq created /\ \A s \in kids[x] : parent[s] = x
          /\ Kind[x] \in {"process", "inline"} => kids[x] = {}
          /\ Kind[x] = "continuation" => \A y, z \in kids[x] : y = z
      BY <3>1 DEF Tree, Owners
    <3>3. CASE x # P
      <4>1. kids'[x] \subseteq kids[x]
        BY <1>1, <3>1, <3>3
      <4> QED
        BY <1>1, <1>5, <3>2, <4>1
    <3>4. CASE x = P
      <4>1. P # NoTask
        BY <3>1, <3>4
      <4>2. \A s \in N : parent'[s] = P /\ s \in created'
        BY <1>1 DEF N
      <4>3. CASE Kind[P] = "aggregate"
        BY <1>1, <1>5, <3>2, <3>4, <4>1, <4>2, <4>3
      <4>4. CASE Kind[P] = "continuation"
        <5>1. CASE n = NoTask
          BY <1>1, <1>5, <3>2, <3>4, <4>1, <4>4, <5>1
        <5>2. CASE n # NoTask
          BY <1>1, <3>4, <4>1, <4>2, <4>4, <5>2 DEF N
        <5> QED
          BY <5>1, <5>2
      <4> QED
        BY <1>1, <4>1, <4>3, <4>4
    <3> QED
      BY <3>3, <3>4
  <2>4. ASSUME NEW x \in Task \ started'
        PROVE  /\ outcome'[x] = "none"
               /\ kids'[x] = IF Kind[x] = "continuation" THEN ToSet(Initial[x]) ELSE {}
    <3>1. x \notin started /\ x # t /\ x # P
      BY <1>1, <1>2, <2>4
    <3> QED
      BY <1>1, <3>1 DEF Tree, Owners
  <2> QED
    BY <2>1, <2>2, <2>3, <2>4 DEF Owners
<1>8. Children'
  <2>1. ASSUME NEW x \in Live', parent'[x] # NoTask
        PROVE  /\ x \in kids'[parent'[x]]
               /\ parent'[x] \in tasks'
               /\ Kind[parent'[x]] = "continuation" => outcome'[parent'[x]] = "none"
    <3>1. CASE x \in N
      <4>1. x = n /\ n # NoTask /\ r = "REPLACE_TASK" /\ parent'[x] = P /\ P # NoTask
        BY <1>1, <2>1, <3>1 DEF N, Replaces
      <4>2. P \in tasks' /\ x \in kids'[P]
        BY <1>1, <4>1, <3>1
      <4>3. outcome'[P] = outcome[P]
        BY <1>4, <4>1
      <4>4. Kind[P] = "continuation" => outcome[P] = "none"
        BY <1>2, <4>1 DEF Tree, Children, P
      <4> QED
        BY <4>1, <4>2, <4>3, <4>4
    <3>2. CASE x \notin N
      <4>1. x \in Live /\ x # t /\ x \in created
        BY <1>1, <1>2, <3>2
      <4>2. parent'[x] = parent[x] /\ x \in Task
        BY <1>5, <4>1
      <4>3. /\ x \in kids[parent[x]] /\ parent[x] \in tasks
            /\ Kind[parent[x]] = "continuation" => outcome[parent[x]] = "none"
        BY <2>1, <4>1, <4>2 DEF Tree, Children
      <4>4. parent[x] \in tasks \ {t} /\ parent[x] \in Task
        BY <1>1, <1>2, <4>1, <4>3
      <4>5. CASE parent[x] = P
        <5>1. P # NoTask /\ t \in kids[P] /\ P \in started
          BY <1>1, <1>2, <4>4, <4>5
        <5>2. Kind[P] # "continuation"
          BY <4>1, <4>3, <4>5, <5>1 DEF Tree, Owners
        <5> QED
          BY <1>1, <4>1, <4>2, <4>3, <4>4, <4>5, <5>1, <5>2
      <4>6. CASE parent[x] # P
        BY <1>1, <4>2, <4>3, <4>4, <4>6
      <4> QED
        BY <4>5, <4>6
    <3> QED
      BY <3>1, <3>2
  <2>2. ASSUME NEW p \in Task, Kind[p] = "aggregate", outcome'[p] # "none"
        PROVE  p \in stopped'
    <3>1. CASE outcome[p] # "none"
      BY <1>3, <2>2, <3>1 DEF Tree, Children
    <3>2. CASE outcome[p] = "none"
      <4>1. p = P /\ outcome'[P] # outcome[P]
        BY <1>1, <2>2, <3>2
      <4>2. P # NoTask /\ Asks(t, r) /\ a # "none"
        BY <1>4, <2>2, <4>1
      <4>3. P \in StoppedBy(t, r, a) /\ StoppedBy(t, r, a) = {P}
        BY <4>2 DEF StoppedBy, P
      <4>4. StoppedBy(t, r, a) \subseteq Below(kids', StoppedBy(t, r, a))
        BY <1>2, <4>1, <4>3, BelowClosed
      <4> QED
        BY <4>1, <4>3, <4>4 DEF Finish
    <3> QED
      BY <3>1, <3>2
  <2> QED
    BY <2>1, <2>2 DEF Children
<1>9. Waiting'
  <2> SUFFICES ASSUME NEW q \in tasks', Kind[q] = "continuation", outcome'[q] = "none"
               PROVE  kids'[q] \subseteq Live' \cup stopped'
    BY DEF Waiting
  <2>1. q \in tasks \ {t} /\ q \in Task /\ q \in started
    BY <1>1, <1>2
  <2>2. outcome[q] = "none" /\ (q = P => r = "REPLACE_TASK")
    <3>1. CASE q # P
      BY <1>1, <2>1, <3>1
    <3>2. CASE q = P
      <4>1. r = "REPLACE_TASK"
        <5>1. P # NoTask /\ P \in Task /\ outcome' = OutcomeAfter(t, r, a)
          BY <2>1, <3>2 DEF Finish
        <5> QED
          BY <3>2, <5>1 DEF OutcomeAfter, P
      <4>2. outcome'[P] = outcome[P]
        BY <1>4, <2>1, <3>2, <4>1
      <4> QED
        BY <3>2, <4>1, <4>2
    <3> QED
      BY <3>1, <3>2
  <2>3. kids[q] \subseteq Live \cup stopped
    BY <2>1, <2>2 DEF Tree, Waiting
  <2>4. CASE q # P
    <3>1. t \notin kids[q] /\ kids'[q] = kids[q]
      BY <1>1, <2>1, <2>4 DEF Tree, Owners, P
    <3> QED
      BY <1>1, <1>3, <2>3, <3>1
  <2>5. CASE q = P
    <3>1. CASE n # NoTask
      BY <1>1, <2>1, <2>5, <3>1 DEF N
    <3>2. CASE n = NoTask
      <4>1. t \in stopped
        BY <1>1, <2>2, <2>5, <3>2 DEF Replaces
      <4>2. kids'[q] = kids[q]
        BY <1>1, <2>1, <2>5, <3>2
      <4> QED
        BY <1>1, <1>3, <2>3, <4>1, <4>2
    <3> QED
      BY <3>1, <3>2
  <2> QED
    BY <2>4, <2>5
<1>10. Processes'
  BY <1>1 DEF Leaves, Tree, Processes
<1>11. Watchdogs'
  <2> SUFFICES ASSUME NEW w \in tasks', Kind[w] = "aggregate", Policy[w] = "eager",
                      outcome'[w] = "none", kids'[w] = {}
               PROVE  \E x \in (started' \cap stopped') \ tasks' : parent'[x] = w
    BY DEF Watchdogs
  <2>1. w \in tasks \ {t} /\ w \in Task
    BY <1>1, <1>2
  <2>2. ASSUME w # P \/ outcome'[w] = outcome[w],
               \E x \in (started \cap stopped) \ tasks : parent[x] = w
        PROVE  \E x \in (started' \cap stopped') \ tasks' : parent'[x] = w
    BY <1>1, <1>2, <1>3, <1>5, <2>2
  <2>3. CASE w # P
    <3>1. outcome[w] = "none" /\ kids[w] = {}
      BY <1>1, <2>1, <2>3
    <3> QED
      BY <2>1, <2>2, <2>3, <3>1 DEF Tree, Watchdogs
  <2>4. CASE w = P
    <3>1. P # NoTask
      BY <2>1, <2>4
    <3>2. outcome'[P] = outcome[P]
      <4> SUFFICES ASSUME outcome'[P] # outcome[P] PROVE FALSE
        OBVIOUS
      <4>1. a \in Answers(P, t, r) /\ outcome'[P] = a
        BY <1>4, <2>4, <3>1
      <4>2. a = r
        BY <2>4, <4>1 DEF Answers
      <4> QED
        BY <2>4, <4>1, <4>2
    <3>3. r = "REPLACE_TASK"
      <4>1. Asks(t, r) => outcome'[P] = a /\ a \in Answers(P, t, r)
        BY <1>2, <2>4, <3>1 DEF Finish, OutcomeAfter, Asks, P
      <4>2. Answers(P, t, r) = {r}
        BY <2>4 DEF Answers
      <4>3. ~Asks(t, r)
        BY <2>4, <4>1, <4>2
      <4> QED
        BY <2>4, <3>1, <3>2, <4>3 DEF Asks, HasParent, P
    <3>4. n = NoTask /\ t \in stopped
      BY <1>1, <2>4, <3>1, <3>3 DEF N, Replaces
    <3> QED
      BY <1>1, <1>2, <1>3, <1>5, <2>4, <3>4 DEF P
  <2> QED
    BY <2>3, <2>4
<1>12. ErrorAtEnd'
  BY <1>1 DEF Finishes, ErrorAtEnd
<1>13. CleanEnd'
  <2>1. error' = "none"
    BY <1>1 DEF Finishes
  <2>2. ASSUME pc' \in {"over", "crashed"}, NEW x \in Task, proc'[x] = "running"
        PROVE  x \in stopped' /\ pc' = "over"
    <3>1. IsFinal(t, r) /\ pc' = "over" /\ ~Asks(t, r)
      BY <2>2 DEF Finish, IsFinal, Asks, HasParent
    <3>2. StoppedBy(t, r, a) = tasks'
      BY <1>1, <3>1 DEF StoppedBy
    <3>3. x \in tasks'
      BY <1>10, <2>2 DEF Processes
    <3>4. tasks' \subseteq Below(kids', tasks')
      BY <1>1, <1>2, BelowClosed
    <3> QED
      BY <3>1, <3>2, <3>3, <3>4 DEF Finish
  <2> QED
    BY <2>1, <2>2 DEF CleanEnd
<1> QED
  BY <1>6, <1>7, <1>8, <1>9, <1>10, <1>11, <1>12, <1>13 DEF Tree


LEMMA ScanFinishTree ==
  ASSUME Inductive, Inductive', Tree, ScanFinish
  PROVE  Tree'
<1> USE TaskAssumption
<1> DEFINE t == noFd[idx]
<1>1. /\ noFd \in Seq(Task) /\ idx \in 1..Len(noFd) /\ t \in ToSet(noFd) /\ t \in Task
      /\ IsInjective(noFd)
  BY LenProperties DEF Inductive, TypeOK, ScanFinish, ToSet, Tree, Queues
<1>2. PICK r \in MayReturn(t) \ {"none"}, n \in Fresh \cup {NoTask}, a \in Outcomes :
        /\ Finish(t, r, n, a, "nofd")
        /\ noFd' = RemoveAt(IF n # NoTask /\ Kind[n] # "process"
                            THEN Append(noFd, n) ELSE noFd, idx)
  BY DEF ScanFinish
<1>3. r \in {"DONE", "ERROR", "REPLACE_TASK"}
  BY <1>1, <1>2, ReturnsType DEF Inductive, Outcomes
<1>4. IsDone(t) /\ pc = "nofd" /\ UNCHANGED proc
  BY DEF ScanFinish
<1>5. Finishes(t) /\ Kind[t] # "process"
  <2>1. /\ t \in tasks /\ Kind[t] # "process"
        /\ kids[t] = {} \/ (Kind[t] = "continuation" /\ outcome[t] # "none")
    BY <1>1, <1>4, DoneRuns
  <2>2. batch = <<>> /\ error = "none"
    BY <1>4 DEF Tree, Queues, ErrorAtEnd
  <2> QED
    BY <2>1, <2>2 DEF Finishes
<1> HIDE DEF t
<1>6. Leaves(t, n)
  <2>1. /\ ToSet(noFd') = (ToSet(noFd) \ {t}) \cup {x \in {n} \ {NoTask} : Kind[x] # "process"}
        /\ IsInjective(noFd')
    <3>1. CASE n # NoTask /\ Kind[n] # "process"
      <4>1. n \in Task /\ n \notin ToSet(noFd) /\ n # t
        BY <1>1, <3>1 DEF Fresh, Tree, Queues, Live
      <4>2. /\ Append(noFd, n) \in Seq(Task) /\ IsInjective(Append(noFd, n))
            /\ ToSet(Append(noFd, n)) = ToSet(noFd) \cup {n}
        BY <1>1, <4>1, AppendToSet
      <4>3. idx \in 1..Len(Append(noFd, n)) /\ Append(noFd, n)[idx] = t
        BY <1>1, <4>1, AppendProperties DEF t
      <4>4. noFd' = RemoveAt(Append(noFd, n), idx)
        BY <1>2, <3>1
      <4>5. ToSet(noFd') = ToSet(Append(noFd, n)) \ {t} /\ IsInjective(noFd')
        BY <4>2, <4>3, <4>4, RemoveAtToSet
      <4> QED
        BY <3>1, <4>1, <4>2, <4>5
    <3>2. CASE ~(n # NoTask /\ Kind[n] # "process")
      <4>1. noFd' = RemoveAt(noFd, idx)
        BY <1>2, <3>2
      <4>2. ToSet(noFd') = ToSet(noFd) \ {t} /\ IsInjective(noFd')
        BY <1>1, <4>1, RemoveAtToSet DEF t
      <4> QED
        BY <3>2, <4>2
    <3> QED
      BY <3>1, <3>2
  <2>2. \A x \in Task : proc'[x] \in {"running", "killed", "exited"} =>
          x # t /\ proc[x] \in {"running", "killed", "exited"}
    BY <1>4, <1>5 DEF Tree, Processes
  <2> QED
    BY <1>4, <2>1, <2>2 DEF Leaves
<1>7. "nofd" \in Phases \ {"over", "crashed"}
  BY DEF Phases
<1> QED
  BY <1>1, <1>2, <1>3, <1>5, <1>6, <1>7, FinishTree

LEMMA PollFinishTree ==
  ASSUME Inductive, Inductive', Tree, PollFinish
  PROVE  Tree'
<1> USE TaskAssumption
<1>1. PICK t \in HungUp, n \in Fresh \cup {NoTask}, a \in Outcomes :
        \E r \in MayReturn(t) :
          /\ Finish(t, r, n, a, "timeout")
          /\ proc' = [proc EXCEPT ![t] = "reaped"]
          /\ noFd' = IF n # NoTask /\ Kind[n] # "process" THEN Append(noFd, n) ELSE noFd
  BY Zenon DEF PollFinish
<1>2. PICK r \in MayReturn(t) :
        /\ Finish(t, r, n, a, "timeout")
        /\ proc' = [proc EXCEPT ![t] = "reaped"]
        /\ noFd' = IF n # NoTask /\ Kind[n] # "process" THEN Append(noFd, n) ELSE noFd
  BY <1>1
<1>3. /\ t \in Task /\ t \in tasks /\ proc[t] = "exited" /\ Kind[t] = "process" /\ t \in started
      /\ pc = "poll" /\ noFd \in Seq(Task)
      /\ proc \in [Task -> {"none", "running", "killed", "exited", "reaped"}]
  BY DEF HungUp, Inductive, TypeOK, Tree, Processes, Queues, PollFinish
<1>4. r \in {"DONE", "ERROR", "REPLACE_TASK"}
  BY <1>3, ReturnsType DEF Inductive, Outcomes, MayReturn, Returns
<1>5. Finishes(t)
  <2>1. kids[t] = {}
    BY <1>3 DEF Tree, Owners
  <2>2. batch = <<>> /\ error = "none"
    BY <1>3 DEF Tree, Queues, ErrorAtEnd
  <2> QED
    BY <1>3, <2>1, <2>2 DEF Finishes
<1>6. Leaves(t, n)
  <2>1. t \notin ToSet(noFd) /\ IsInjective(noFd)
    BY <1>3 DEF Tree, Queues
  <2>2. /\ ToSet(noFd') = (ToSet(noFd) \ {t}) \cup {x \in {n} \ {NoTask} : Kind[x] # "process"}
        /\ IsInjective(noFd')
    <3>1. CASE n # NoTask /\ Kind[n] # "process"
      <4>1. n \in Task /\ n \notin ToSet(noFd)
        BY <3>1 DEF Fresh, Tree, Queues, Live
      <4>2. ToSet(noFd') = ToSet(noFd) \cup {n} /\ IsInjective(noFd')
        BY <1>2, <1>3, <2>1, <3>1, <4>1, AppendToSet
      <4> QED
        BY <2>1, <3>1, <4>2
    <3>2. CASE ~(n # NoTask /\ Kind[n] # "process")
      BY <1>2, <2>1, <3>2
    <3> QED
      BY <3>1, <3>2
  <2>3. \A x \in Task : x # t => proc'[x] = proc[x]
    BY <1>2, <1>3
  <2>4. proc'[t] = "reaped"
    BY <1>2, <1>3
  <2> QED
    BY <2>2, <2>3, <2>4 DEF Leaves
<1>7. "timeout" \in Phases \ {"over", "crashed"}
  BY DEF Phases
<1> QED
  BY <1>2, <1>3, <1>4, <1>5, <1>6, <1>7, FinishTree

\* The other steps stop tasks, kill processes or change nothing of the tree.
LEMMA QuietTree ==
  ASSUME Inductive, Tree,
         \/ StartDone \/ ScanSkip \/ ScanDone \/ PollIdle \/ CheckTimeouts \/ CheckStopped
         \/ \E t \in Task : Expire(t) \/ StopTakesLong(t) \/ Exit(t)
  PROVE  Tree'
<1>1. /\ UNCHANGED <<newTasks, batch, noFd, tasks, created, started, parent, kids, outcome, error>>
      /\ stopped \subseteq stopped'
      /\ batch # <<>> => pc' \in {"start", "crashed"}
      /\ pc \notin {"over", "crashed"} /\ pc' \notin {"over", "crashed"}
  BY DEF StartDone, ScanSkip, ScanDone, PollIdle, CheckTimeouts, CheckStopped, Expire,
         StopTakesLong, Exit, Tree, Queues
<1>2. \A t \in Task : proc'[t] \in {"running", "killed", "exited"}
                        => proc[t] \in {"running", "killed", "exited"}
  <2>1. CASE StartDone \/ ScanSkip \/ ScanDone \/ PollIdle \/ CheckTimeouts
    BY <2>1 DEF StartDone, ScanSkip, ScanDone, PollIdle, CheckTimeouts
  <2>2. CASE CheckStopped
    BY <2>2 DEF CheckStopped, Kill
  <2>3. CASE \E t \in Task : Expire(t) \/ StopTakesLong(t)
    BY <2>3 DEF Expire, StopTakesLong
  <2>4. CASE \E t \in Task : Exit(t)
    BY <2>4 DEF Exit, Inductive, TypeOK
  <2> QED
    BY <2>1, <2>2, <2>3, <2>4
<1>3. ErrorAtEnd' /\ CleanEnd'
  BY <1>1 DEF Tree, ErrorAtEnd, CleanEnd
<1> QED
  BY <1>1, <1>2, <1>3, SameTree DEF Tree

LEMMA NextTree == Inductive /\ Inductive' /\ Tree /\ [Next]_vars => Tree'
<1> SUFFICES ASSUME Inductive, Inductive', Tree, [Next]_vars PROVE Tree'
  OBVIOUS
<1>1. CASE LoopTop
  BY <1>1, LoopTopTree
<1>2. CASE StartFails
  BY <1>2, CrashTree DEF StartFails
<1>3. CASE StartProcess
  BY <1>3, StartProcessTree
<1>4. CASE StartInProcess
  BY <1>4, StartInProcessTree
<1>5. CASE ScanFinish
  BY <1>5, ScanFinishTree
<1>6. CASE ScanNoResult
  BY <1>6, ScanNoResultTree
<1>7. CASE PollFinish
  BY <1>7, PollFinishTree
<1>8. CASE \/ StartDone \/ ScanSkip \/ ScanDone \/ PollIdle \/ CheckTimeouts \/ CheckStopped
           \/ \E t \in Task : Expire(t) \/ StopTakesLong(t) \/ Exit(t)
  BY <1>8, QuietTree
<1>9. CASE UNCHANGED vars
  <2>1. Queues' /\ Owners'
    BY <1>9 DEF vars, Tree, Queues, Owners, Live
  <2>2. Children' /\ Waiting' /\ Processes' /\ Watchdogs'
    BY <1>9 DEF vars, Tree, Children, Waiting, Processes, Watchdogs, Live
  <2>3. ErrorAtEnd' /\ CleanEnd'
    BY <1>9 DEF vars, Tree, ErrorAtEnd, CleanEnd
  <2> QED
    BY <2>1, <2>2, <2>3 DEF Tree
<1> QED
  BY <1>1, <1>2, <1>3, <1>4, <1>5, <1>6, <1>7, <1>8, <1>9 DEF Next, MainLoop, Stutter

\* The tree and the types together are inductive.
LEMMA TreeInvariant == Spec => [](Inductive /\ Tree)
BY InitInductive, NextInductive, InitTree, NextTree, PTL DEF Spec

-----------------------------------------------------------------------------
(* What follows from the tree *)

\* No assertion of the listeners fails for a task that finishes: were its parent
\* an aggregate that is decided, the parent had been stopped and the task with it,
\* and then nothing would replace the task.
LEMMA NotBroken ==
  ASSUME Inductive, Tree, NEW t \in tasks, NEW r
  PROVE  ~Broken(t, r)
<1>1. t \in Live /\ t \in Task /\ parent[t] \in Task \cup {NoTask}
  BY DEF Live, Inductive, TypeOK
<1>2. parent[t] # NoTask =>
        /\ t \in kids[parent[t]]
        /\ Kind[parent[t]] = "continuation" => outcome[parent[t]] = "none"
  BY <1>1 DEF Tree, Children
<1>3. ASSUME HasParent(t, "aggregate"), Replaces(t, r), outcome[parent[t]] # "none"
      PROVE  FALSE
  <2>1. parent[t] \in stopped
    BY <1>1, <1>3 DEF HasParent, Tree, Children
  <2>2. t \in stopped
    BY <1>2, <1>3, <2>1 DEF HasParent, Inductive, StopReachesSubtree, Closed
  <2> QED
    BY <1>3, <2>2 DEF Replaces
<1> QED
  BY <1>2, <1>3 DEF Broken, HasParent

LEMMA TreeGivesConsistent == Inductive /\ Tree => TreeConsistent
<1> SUFFICES ASSUME Inductive, Tree PROVE TreeConsistent
  OBVIOUS
<1>1. ASSUME NEW t \in Live, parent[t] # NoTask
      PROVE  /\ t \in kids[parent[t]]
             /\ parent[t] \in tasks
             /\ Kind[parent[t]] = "continuation" => outcome[parent[t]] = "none"
  BY <1>1 DEF Tree, Children
<1>2. ASSUME pc = "start", batch # <<>>, NEW s \in ToSet(Initial[Head(batch)])
      PROVE  parent[s] = NoTask
  <2>1. Head(batch) \in Task /\ Head(batch) \in ToSet(batch)
    BY <1>2, TailToSet DEF Inductive, TypeOK, Tree, Queues
  <2>2. Head(batch) \notin started
    BY <2>1 DEF Tree, Queues
  <2>3. s \in Task
    BY <2>1, PlanAssumption, ToSetType
  <2> QED
    BY <2>1, <2>2, <2>3 DEF Tree, Owners
<1>3. ASSUME pc = "nofd", idx <= Len(noFd), IsDone(noFd[idx])
      PROVE  /\ noFd[idx] \in tasks
             /\ \A r \in MayReturn(noFd[idx]) \ {"none"} : ~Broken(noFd[idx], r)
  <2>1. noFd[idx] \in ToSet(noFd)
    BY <1>3, LenProperties DEF Inductive, TypeOK, ToSet
  <2>2. noFd[idx] \in tasks
    BY <1>3, <2>1, DoneRuns
  <2> QED
    BY <2>2, NotBroken
<1>4. \A t \in HungUp : \A r \in MayReturn(t) : ~Broken(t, r)
  BY NotBroken DEF HungUp
<1> QED
  BY <1>1, <1>2, <1>3, <1>4 DEF TreeConsistent

LEMMA TreeGivesResults == Tree => OnlyStoppedResultsLost
BY DEF Tree, Waiting, OnlyStoppedResultsLost

\* A replacement enters below the parent of the task it replaces, which was not
\* stopped; a task that starts has not been stopped.
LEMMA NewWorkStep ==
  Inductive /\ Tree /\ [Next]_vars =>
    [\A n \in created' \ created : parent'[n] \notin stopped]_vars
<1> SUFFICES ASSUME Inductive, Tree, Next, NEW n \in created' \ created
             PROVE  parent'[n] \notin stopped
  BY DEF vars
<1> USE TaskAssumption
<1>1. CASE StartInProcess
  <2> DEFINE t == Head(batch)
  <2>1. t \in Task
    BY <1>1, TailToSet DEF StartInProcess, Inductive, TypeOK, Tree, Queues
  <2>2. n \in ToSet(Initial[t]) /\ t \notin stopped
    BY <1>1 DEF StartInProcess
  <2>3. n \in Task
    BY <2>1, <2>2, PlanAssumption, ToSetType
  <2> QED
    BY <1>1, <2>2, <2>3 DEF StartInProcess
<1>2. ASSUME NEW t \in tasks, NEW r, NEW m \in Fresh \cup {NoTask}, NEW a, NEW next,
             Finish(t, r, m, a, next)
      PROVE  parent'[n] \notin stopped
  <2>1. m # NoTask /\ n = m /\ Replaces(t, r)
    BY <1>2 DEF Finish
  <2>2. parent'[n] = parent[t] /\ t \in Task /\ t \in Live
    BY <1>2, <2>1 DEF Finish, Fresh, Inductive, TypeOK, Live
  <2>3. parent[t] \in stopped => t \in kids[parent[t]]
    BY <2>2 DEF Tree, Children, Inductive, TypeOK
  <2>4. parent[t] \in stopped => t \in stopped
    BY <2>3 DEF Inductive, StopReachesSubtree, Closed
  <2> QED
    BY <2>1, <2>2, <2>4 DEF Replaces
<1>3. CASE ScanFinish
  BY <1>2, <1>3 DEF ScanFinish
<1>4. CASE PollFinish
  BY <1>2, <1>4 DEF PollFinish, HungUp
<1>5. CASE UNCHANGED created
  BY <1>5
<1>6. StartInProcess \/ ScanFinish \/ PollFinish \/ UNCHANGED created
  BY DEF Next, MainLoop, LoopTop, StartFails, Crash, StartProcess, StartDone, ScanSkip,
         ScanNoResult, ScanDone, PollIdle, CheckTimeouts, CheckStopped, Expire, StopTakesLong,
         Exit, Stutter, vars
<1> QED
  BY <1>1, <1>3, <1>4, <1>5, <1>6

-----------------------------------------------------------------------------
(* The theorems *)

\* Every variable of the engine keeps its type, for every plan of tasks.
THEOREM TypeCorrect == Spec => []TypeOK
<1>1. Inductive => TypeOK
  BY DEF Inductive
<1> QED
  BY InitInductive, NextInductive, <1>1, PTL DEF Spec

\* A stop reaches everything below the stopped task and nothing unstopped is
\* ever put there later (Task.stop of aggregates and continuations, and the
\* test of was_stopped in Workflow._finish_task).
THEOREM StopsReachSubtrees == Spec => []StopReachesSubtree
<1>1. Inductive => StopReachesSubtree
  BY DEF Inductive
<1> QED
  BY InitInductive, NextInductive, <1>1, PTL DEF Spec

\* The tree of tasks stays consistent and no assertion of the engine about it
\* fails: those of set_parent, replace_subtask, the listeners, remove_task and
\* stop_task.
THEOREM TreeStaysConsistent == Spec => []TreeConsistent
BY TreeInvariant, TreeGivesConsistent, PTL

\* A continuation is left without the result of its task only when that task was
\* stopped (ContinuationTask's listener in bbk/task/continuation.py).
THEOREM ResultsReachContinuations == Spec => []OnlyStoppedResultsLost
BY TreeInvariant, TreeGivesResults, PTL

\* The loop is left with every process told to stop, killed when an exception
\* leaves it, and a watchdog raises only when the task it watches was stopped
\* (run_workflow, TimeoutWatchdog.finish).
THEOREM LoopEndsCleanly == Spec => []CleanEnd
<1>1. Tree => CleanEnd
  BY DEF Tree
<1> QED
  BY TreeInvariant, <1>1, PTL

\* No step puts a new task below a stopped one (Workflow._finish_task, add_task).
THEOREM StoppedGetNoWork == Spec => NoWorkForStopped
BY TreeInvariant, NewWorkStep, PTL DEF Spec, NoWorkForStopped
=============================================================================
