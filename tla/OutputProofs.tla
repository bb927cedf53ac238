---------------------------- MODULE OutputProofs ----------------------------
(***************************************************************************)
(* What holds of the reading of a tool's output for every set of tokens and *)
(* any length of the two streams: its types, that lines arrive in order and *)
(* completely, and what can go wrong.                                      *)
(***************************************************************************)
EXTENDS Output, SequenceTheorems, WellFoundedInduction, TLAPS

Line(s, k) == lines[s][k]

\* A line has a beginning and an end, before whatever is kept.
LinesTyped ==
  /\ lines \in [Stream -> Seq(Nat \X Nat)]
  /\ \A s \in Stream : \A k \in 1..Len(lines[s]) :
       /\ Line(s, k)[1] >= 1 /\ Line(s, k)[1] <= Line(s, k)[2]
       /\ Line(s, k)[2] + partial[s] <= taken[s]

Ordered ==
  \A s \in Stream : \A k \in 2..Len(lines[s]) : Line(s, k - 1)[2] < Line(s, k)[1]

\* Every newline that was read is the end of a line.
NewlinesEmitted ==
  pc # "crashed" =>
    \A s \in Stream : \A i \in 1..taken[s] :
      written[s][i] = "nl" => \E k \in 1..Len(lines[s]) : Line(s, k)[2] = i

\* finish_fd_task leaves a stream only when nothing is left.
Emptied ==
  /\ pc \in {"stdout", "stderr", "finished"} => exited
  /\ pc \in {"stderr", "finished"} => taken["stdout"] = Len(written["stdout"])
  /\ pc = "finished" => taken["stderr"] = Len(written["stderr"])

\* Tools write whole characters, but for the last one.
WholeCharacters ==
  \A s \in Stream : \A k \in 1..Len(written[s]) :
    written[s][k] = "trail" => k > 1 /\ written[s][k - 1] = "lead"

\* A line of the stream has been put together from parts.
PutTogether(q) == \E k \in 1..Len(lines[q]) : Line(q, k)[1] < Line(q, k)[2]

\* A stream from which nothing is lost: its lines, then what is kept.
Contiguous(s) ==
  /\ \A k \in 1..Len(lines[s]) : ~Gap(s, k)
  /\ pc # "crashed" =>
       taken[s] = partial[s] + IF lines[s] = <<>> THEN 0 ELSE Line(s, Len(lines[s]))[2]

LossNeedsOther ==
  \A s \in Stream : Contiguous(s) \/ \E q \in Stream \ {s} : PutTogether(q)

OddBytes == \E s \in Stream : \E k \in 1..Len(written[s]) : written[s][k] \in {"lead", "cr"}

CrashNeedsOddBytes == pc = "crashed" => OddBytes

Inductive ==
  /\ TypeOK /\ LinesTyped /\ Ordered /\ NewlinesEmitted /\ Emptied
  /\ WholeCharacters /\ LossNeedsOther /\ CrashNeedsOddBytes

-----------------------------------------------------------------------------
(* Arithmetic, minimum and maximum *)

\* A line that ends before what is kept still does when less is kept or more read,
LEMMA KeptLess ==
  \A a \in Nat, b \in Nat, c \in Nat, d \in Nat, e \in Nat :
    a + b <= c /\ d <= b /\ c <= e => a + d <= e
OBVIOUS

\* or when as much is kept in addition as is read.
LEMMA KeptMore ==
  \A a \in Nat, b \in Nat, c \in Nat, d \in Nat, e \in Nat :
    c - b = e - d => ((a + b <= c => a + d <= e) /\ (c = b + a => e = d + a))
OBVIOUS

\* It ends before a line that begins with what is kept.
LEMMA KeptNext ==
  \A a \in Nat, b \in Nat, c \in Nat, d \in Nat : a + b <= c /\ d > c - b => a < d
OBVIOUS

\* A set of natural numbers has a minimum.
LEMMA MinProperty ==
  ASSUME NEW S \in SUBSET Nat, S # {}
  PROVE  Min(S) \in S /\ \A y \in S : Min(S) <= y
<1>1. \E x \in S : \A y \in S : ~(<<y, x>> \in OpToRel(<, Nat))
  BY NatLessThanWellFounded, WFMin
<1>2. \A x \in Nat, y \in Nat : ~(<<y, x>> \in OpToRel(<, Nat)) => x <= y
  BY DEF OpToRel
<1>3. \E x \in S : \A y \in S : x <= y
  BY <1>1, <1>2
<1> QED
  BY <1>3 DEF Min

\* A bounded one has a maximum, too.
LEMMA MaxProperty ==
  ASSUME NEW j \in Nat, NEW S \in SUBSET (0..j), S # {}
  PROVE  Max(S) \in S /\ \A y \in S : Max(S) >= y
<1> DEFINE T == {k \in Nat : j - k \in S}
<1>1. \A y \in S : y \in Nat /\ j - y \in Nat /\ j - (j - y) = y
  OBVIOUS
<1>2. T \in SUBSET Nat /\ T # {}
  BY <1>1
<1>3. PICK m \in T : \A y \in T : m <= y
  BY <1>2, MinProperty
<1>4. j - m \in S /\ \A y \in S : j - m >= y
  <2>1. ASSUME NEW y \in S PROVE j - m >= y
    <3>1. j - y \in T
      BY <1>1
    <3>2. m <= j - y
      BY <3>1, <1>3
    <3> QED
      BY <3>2, <1>1, <1>3
  <2> QED
    BY <2>1, <1>3
<1> QED
  BY <1>4 DEF Max

-----------------------------------------------------------------------------
(* One read *)

\* A read ends with the first newline, or with all there is.
LEMMA LineEndProperty ==
  ASSUME TypeOK, NEW s \in Stream, taken[s] < Len(written[s])
  PROVE  /\ taken[s] \in Nat /\ LineEnd(s) \in Nat /\ Len(written[s]) \in Nat
         /\ taken[s] < LineEnd(s) /\ LineEnd(s) <= Len(written[s])
         /\ \A k \in taken[s] + 1 .. LineEnd(s) : written[s][k] = "nl" => k = LineEnd(s)
         /\ LineEnd(s) = Len(written[s]) \/ written[s][LineEnd(s)] = "nl"
<1> DEFINE newlines == {i \in taken[s] + 1 .. Len(written[s]) : written[s][i] = "nl"}
<1>1. taken[s] \in Nat /\ Len(written[s]) \in Nat
  BY DEF TypeOK
<1>2. LineEnd(s) = IF newlines = {} THEN Len(written[s]) ELSE Min(newlines)
  BY DEF LineEnd
<1>3. CASE newlines = {}
  <2>1. \A k \in taken[s] + 1 .. Len(written[s]) : written[s][k] # "nl"
    BY <1>3
  <2> QED
    BY <1>1, <1>2, <1>3, <2>1
<1>4. CASE newlines # {}
  <2>1. newlines \in SUBSET Nat
    BY <1>1
  <2>2. LineEnd(s) \in newlines /\ \A y \in newlines : LineEnd(s) <= y
    BY <1>2, <1>4, <2>1, MinProperty
  <2>3. ASSUME NEW k \in taken[s] + 1 .. LineEnd(s), written[s][k] = "nl"
        PROVE  k = LineEnd(s)
    <3>1. k \in newlines
      BY <1>1, <2>2, <2>3
    <3> QED
      BY <1>1, <2>2, <3>1
  <2> QED
    BY <1>1, <2>2, <2>3
<1> QED
  BY <1>3, <1>4

\* A newline makes a line; without one it takes a carriage return; and what
\* cannot be decoded has half a character in it.
LEMMA IsLineProperty ==
  ASSUME NEW s \in Stream, NEW i \in Nat, NEW j \in Nat, 1 <= i, i <= j,
         written[s] \in Seq(Token), j <= Len(written[s]),
         \A k \in i..j : written[s][k] = "nl" => k = j
  PROVE  /\ written[s][j] = "nl" => IsLine(s, i, j) /\ Decoded(s, i, j) # {}
         /\ IsLine(s, i, j) /\ Decoded(s, i, j) # {} /\ written[s][j] # "nl" =>
              \E k \in i..j : written[s][k] = "cr"
         /\ Decoded(s, i, j) = {} => \E k \in i..j : written[s][k] \in {"lead", "trail"}
<1> DEFINE D == Decoded(s, i, j)
<1>1. D \in SUBSET (0..j) /\ \A k \in D : k \in i..j
  BY DEF Decoded
<1>2. ASSUME D # {} PROVE Max(D) \in D /\ \A y \in D : Max(D) >= y
  BY <1>1, <1>2, MaxProperty
<1>3. ASSUME written[s][j] = "nl" PROVE IsLine(s, i, j) /\ D # {}
  <2>1. j \in D
    BY <1>3 DEF Decoded
  <2>2. Max(D) = j
    BY <1>1, <1>2, <2>1
  <2> QED
    BY <1>3, <2>1, <2>2 DEF IsLine
<1>4. ASSUME IsLine(s, i, j), D # {}, written[s][j] # "nl"
      PROVE  \E k \in i..j : written[s][k] = "cr"
  <2>1. Max(D) \in i..j
    BY <1>1, <1>2, <1>4
  <2>2. written[s][Max(D)] \in {"nl", "cr"}
    BY <1>4 DEF IsLine
  <2> QED
    BY <1>4, <2>1, <2>2
<1>5. ASSUME D = {} PROVE \E k \in i..j : written[s][k] \in {"lead", "trail"}
  <2>1. written[s][i] \in Tokens /\ i \in i..j
    BY TokenAssumption
  <2> QED
    BY <1>5, <2>1 DEF Decoded, Tokens
<1> QED
  BY <1>3, <1>4, <1>5

\* The three outcomes of a read.
Read(s, i, j) ==
  /\ i = taken[s] + 1 /\ i <= j /\ j <= Len(written[s])
  /\ taken' = [taken EXCEPT ![s] = j]
  /\ \E n \in j..Len(written[s]) : read' = [read EXCEPT ![s] = n]
  /\ \A k \in i..j : written[s][k] = "nl" => k = j
  /\ UNCHANGED <<written, exited>>

Raised == pc' = "crashed" /\ OddBytes /\ UNCHANGED <<partial, lines>>

Kept(s, i, j, next) ==
  /\ j = Len(written[s]) /\ written[s][j] # "nl"
  /\ partial' = [partial EXCEPT ![s] = @ + (j - i + 1)]
  /\ pc' = next
  /\ UNCHANGED lines

LineRead(s, i, j) ==
  /\ partial' = [q \in Stream |-> IF partial[s] > 0 THEN 0 ELSE partial[q]]
  /\ lines' = [lines EXCEPT ![s] = Append(@, <<i - partial[s], j>>)]
  /\ UNCHANGED pc

LEMMA RaisesOdd ==
  ASSUME TypeOK, WholeCharacters, NEW s \in Stream, NEW i \in Nat, NEW j \in Nat,
         i = taken[s] + 1, i <= j, j <= Len(written[s]),
         \A k \in i..j : written[s][k] = "nl" => k = j,
         Raises(s, i, j)
  PROVE  OddBytes
<1>1. /\ written[s] \in Seq(Token) /\ taken[s] \in Nat /\ partial[s] \in Nat
      /\ partial[s] <= taken[s]
  BY DEF TypeOK
<1>2. \A k \in 1..Len(written[s]) : written[s][k] \in {"lead", "trail", "cr"} => OddBytes
  <2>1. ASSUME NEW k \in 1..Len(written[s]), written[s][k] = "trail" PROVE OddBytes
    <3>1. k - 1 \in 1..Len(written[s]) /\ written[s][k - 1] = "lead"
      BY <1>1, <2>1 DEF WholeCharacters
    <3> QED
      BY <3>1 DEF OddBytes
  <2> QED
    BY <2>1 DEF OddBytes
<1>3. \A k \in i..j : k \in 1..Len(written[s])
  BY <1>1
<1>a. /\ IsLine(s, i, j) /\ Decoded(s, i, j) # {} /\ written[s][j] # "nl" =>
           \E k \in i..j : written[s][k] = "cr"
      /\ Decoded(s, i, j) = {} => \E k \in i..j : written[s][k] \in {"lead", "trail"}
  <2>1. 1 <= i
    BY <1>1
  <2> QED
    BY <1>1, <2>1, IsLineProperty
<1>4. CASE Decoded(s, i, j) = {}
  BY <1>2, <1>3, <1>4, <1>a
<1>5. CASE Decoded(s, i, j) # {} /\ IsLine(s, i, j) /\ written[s][j] # "nl"
  BY <1>2, <1>3, <1>5, <1>a
<1>6. CASE partial[s] > 0 /\ written[s][i - partial[s]] = "trail"
  <2>1. i - partial[s] \in 1..Len(written[s])
    BY <1>1, <1>6
  <2> QED
    BY <1>2, <1>6, <2>1
<1> QED
  BY <1>4, <1>5, <1>6 DEF Raises

LEMMA ReadOutcomes ==
  ASSUME TypeOK, LinesTyped, WholeCharacters, NEW s \in Stream, NEW next, ReadFd(s, next)
  PROVE  \E i \in Nat, j \in Nat :
           Read(s, i, j) /\ (Raised \/ Kept(s, i, j, next) \/ LineRead(s, i, j))
<1> DEFINE i == taken[s] + 1
           j == LineEnd(s)
<1>1. taken[s] < Len(written[s])
  BY DEF ReadFd
<1>2. /\ taken[s] \in Nat /\ j \in Nat /\ Len(written[s]) \in Nat
      /\ taken[s] < j /\ j <= Len(written[s])
      /\ \A k \in i..j : written[s][k] = "nl" => k = j
      /\ j = Len(written[s]) \/ written[s][j] = "nl"
  BY <1>1, LineEndProperty
<1>3. written[s] \in Seq(Token) /\ partial \in [Stream -> Nat] /\ i \in Nat /\ 1 <= i /\ i <= j
  BY <1>2 DEF TypeOK
<1>4. Read(s, i, j)
  <2>1. \E n \in j..Len(written[s]) : read' = [read EXCEPT ![s] = n]
    <3>1. CASE j <= read[s] /\ written[s][j] = "nl"
      <4>1. read[s] \in j..Len(written[s]) /\ read = [read EXCEPT ![s] = read[s]]
        BY <1>2, <3>1 DEF TypeOK
      <4> QED
        BY <3>1, <4>1 DEF ReadFd
    <3> QED
      BY <3>1 DEF ReadFd
  <2> QED
    BY <1>2, <1>3, <2>1 DEF ReadFd, Read
<1>5. CASE Raises(s, i, j)
  <2>1. OddBytes
    BY <1>2, <1>3, <1>5, RaisesOdd
  <2>2. Raised
    BY <1>5, <2>1 DEF ReadFd, Raised
  <2> QED
    BY <1>3, <1>2, <1>4, <2>2
<1>6. CASE ~Raises(s, i, j) /\ ~IsLine(s, i, j)
  <2>1. written[s][j] # "nl"
    BY <1>2, <1>3, <1>6, IsLineProperty
  <2>2. partial' = PartialAfter(s, i, j) /\ lines' = [lines EXCEPT ![s] = Emitted(s, i, j)] /\ pc' = next
    BY <1>6 DEF ReadFd
  <2>3. partial' = [partial EXCEPT ![s] = @ + (j - i + 1)]
    BY <1>3, <1>6, <2>2 DEF PartialAfter
  <2>4. lines' = lines
    BY <1>6, <2>2 DEF Emitted, LinesTyped
  <2> QED
    BY <1>2, <1>3, <1>4, <2>1, <2>2, <2>3, <2>4 DEF Kept
<1>7. CASE ~Raises(s, i, j) /\ IsLine(s, i, j)
  <2>1. LineRead(s, i, j)
    BY <1>7 DEF ReadFd, LineRead, PartialAfter, Emitted
  <2> QED
    BY <1>2, <1>3, <1>4, <2>1
<1> QED
  BY <1>5, <1>6, <1>7

-----------------------------------------------------------------------------
(* Steps *)

\* Lines that are typed are between the beginning and what was taken.
LEMMA LinesInRange ==
  ASSUME NEW ls \in [Stream -> Seq(Nat \X Nat)], NEW tk \in [Stream -> Nat],
         NEW pt \in [Stream -> Nat],
         \A s \in Stream : \A k \in 1..Len(ls[s]) :
           ls[s][k][1] >= 1 /\ ls[s][k][1] <= ls[s][k][2] /\ ls[s][k][2] + pt[s] <= tk[s]
  PROVE  \A s \in Stream : \A l \in ToSet(ls[s]) : l[1] \in 1..l[2] /\ l[2] <= tk[s]
<1> SUFFICES ASSUME NEW s \in Stream, NEW k \in DOMAIN ls[s]
             PROVE  ls[s][k][1] \in 1..ls[s][k][2] /\ ls[s][k][2] <= tk[s]
  BY DEF ToSet
<1>1. k \in 1..Len(ls[s]) /\ ls[s][k] \in Nat \X Nat
  OBVIOUS
<1>2. ls[s][k][1] \in Nat /\ ls[s][k][2] \in Nat
  BY <1>1
<1> QED
  BY <1>1, <1>2

LEMMA InitInductive == Init => Inductive
<1> SUFFICES ASSUME Init PROVE Inductive
  OBVIOUS
<1>1. LinesTyped
  BY DEF Init, LinesTyped
<1>2. TypeOK
  <2>1. <<>> \in Seq(Token) /\ Len(<<>>) = 0
    OBVIOUS
  <2>2. ToSet(<<>>) = {}
    BY DEF ToSet
  <2>3. \A s \in Stream : /\ written[s] = <<>> /\ read[s] = 0 /\ taken[s] = 0
                         /\ partial[s] = 0 /\ ToSet(lines[s]) = {}
    BY <2>2 DEF Init
  <2> QED
    <3>1. /\ written \in [Stream -> Seq(Token)]
          /\ read \in [Stream -> Nat] /\ taken \in [Stream -> Nat] /\ partial \in [Stream -> Nat]
      BY <2>1 DEF Init
    <3>2. exited \in BOOLEAN /\ pc \in Stream \cup {"poll", "finished", "crashed"}
      BY DEF Init
    <3>3. \A s \in Stream :
            partial[s] <= taken[s] /\ taken[s] <= read[s] /\ read[s] <= Len(written[s])
      BY <2>1, <2>3
    <3>4. \A s \in Stream : \A l \in ToSet(lines[s]) : l[1] \in 1..l[2] /\ l[2] <= taken[s]
      BY <2>3
    <3> QED
      BY <3>1, <3>2, <3>3, <3>4 DEF TypeOK
<1>3. Ordered /\ NewlinesEmitted /\ Emptied /\ WholeCharacters /\ LossNeedsOther /\ CrashNeedsOddBytes
  BY DEF Init, Ordered, NewlinesEmitted, Emptied, WholeCharacters, LossNeedsOther,
         CrashNeedsOddBytes, Contiguous, Stream
<1> QED
  BY <1>1, <1>2, <1>3 DEF Inductive

LEMMA WriteInductive ==
  ASSUME Inductive, NEW s \in Stream, Write(s)
  PROVE  Inductive'
<1> USE DEF Inductive
<1>1. PICK x \in Token :
        /\ (x = "trail") = Halfway(s)
        /\ written' = [written EXCEPT ![s] = Append(@, x)]
  BY DEF Write
<1> DEFINE n == Len(written[s])
<1>2. /\ written[s] \in Seq(Token) /\ n \in Nat /\ written \in [Stream -> Seq(Token)]
      /\ written'[s] = Append(written[s], x)
      /\ \A q \in Stream \ {s} : written'[q] = written[q]
  BY <1>1 DEF TypeOK
<1>3. /\ written'[s] \in Seq(Token) /\ Len(written'[s]) = n + 1
      /\ \A k \in 1..n : written'[s][k] = written[s][k]
      /\ written'[s][n + 1] = x
  BY <1>2, AppendProperties
<1>4. UNCHANGED <<read, taken, partial, lines, exited, pc>> /\ ~exited
  BY DEF Write
<1>5. \A q \in Stream : /\ Len(written[q]) <= Len(written'[q])
                        /\ \A k \in 1..Len(written[q]) : written'[q][k] = written[q][k]
                        /\ Len(written[q]) \in Nat /\ Len(written'[q]) \in Nat
  <2>1. \A q \in Stream : Len(written[q]) \in Nat
    BY <1>2
  <2> QED
    BY <1>2, <1>3, <2>1
<1> HIDE DEF n
<1>6. TypeOK'
  <2>1. written' \in [Stream -> Seq(Token)]
    BY <1>1, <1>2, <1>3
  <2>2. \A q \in Stream : read[q] <= Len(written'[q])
    BY <1>5 DEF TypeOK
  <2> QED
    BY <1>4, <2>1, <2>2 DEF TypeOK
<1>7. LinesTyped' /\ Ordered'
  BY <1>4 DEF LinesTyped, Ordered, Line
<1>8. NewlinesEmitted'
  <2>1. \A q \in Stream : \A i \in 1..taken[q] : i \in 1..Len(written[q])
    BY <1>5 DEF TypeOK
  <2> QED
    <3> SUFFICES ASSUME pc # "crashed", NEW q \in Stream, NEW i \in 1..taken[q],
                        written'[q][i] = "nl"
                 PROVE  \E k \in 1..Len(lines[q]) : Line(q, k)[2] = i
      BY <1>4 DEF NewlinesEmitted, Line
    <3>1. written[q][i] = "nl"
      BY <1>5, <2>1
    <3> QED
      BY <3>1 DEF NewlinesEmitted
<1>9. Emptied'
  BY <1>4 DEF Emptied
<1>10. WholeCharacters'
  <2>1. ASSUME NEW q \in Stream, NEW k \in 1..Len(written'[q]), written'[q][k] = "trail"
        PROVE  k > 1 /\ written'[q][k - 1] = "lead"
    <3>1. CASE k \in 1..Len(written[q])
      <4>1. k > 1 /\ written[q][k - 1] = "lead"
        BY <1>5, <2>1, <3>1 DEF WholeCharacters
      <4>2. k - 1 \in 1..Len(written[q])
        BY <1>5, <3>1, <4>1
      <4> QED
        BY <1>5, <4>1, <4>2
    <3>2. CASE k \notin 1..Len(written[q])
      <4>1. q = s /\ k = n + 1
        BY <1>2, <1>3, <2>1, <3>2 DEF n
      <4>2. Halfway(s)
        BY <1>1, <1>3, <2>1, <4>1
      <4>3. n \in 1..n /\ written[s][n] = "lead"
        BY <1>2, <4>2 DEF Halfway, n
      <4> QED
        BY <1>3, <1>2, <4>1, <4>3
    <3> QED
      BY <3>1, <3>2
  <2> QED
    BY <2>1 DEF WholeCharacters
<1>11. LossNeedsOther'
  BY <1>4 DEF LossNeedsOther, Contiguous, PutTogether, Gap, Line
<1>12. CrashNeedsOddBytes'
  <2>1. \A q \in Stream : \A k \in 1..Len(written[q]) : k \in 1..Len(written'[q])
    BY <1>5
  <2> QED
    BY <1>4, <1>5, <2>1 DEF CrashNeedsOddBytes, OddBytes
<1> QED
  BY <1>6, <1>7, <1>8, <1>9, <1>10, <1>11, <1>12

\* What every read leaves as it was or moves on.
LEMMA ReadTyped ==
  ASSUME Inductive, NEW s \in Stream, NEW i \in Nat, NEW j \in Nat, Read(s, i, j)
  PROVE  /\ written' = written /\ exited' = exited
         /\ taken' \in [Stream -> Nat] /\ read' \in [Stream -> Nat]
         /\ taken'[s] = j /\ taken[s] < j
         /\ \A q \in Stream \ {s} : taken'[q] = taken[q] /\ read'[q] = read[q]
         /\ \A q \in Stream : /\ taken[q] <= taken'[q] /\ taken'[q] <= read'[q]
                              /\ read'[q] <= Len(written[q])
         /\ WholeCharacters'
<1> USE DEF Inductive
<1>1. PICK n \in j..Len(written[s]) : read' = [read EXCEPT ![s] = n]
  BY DEF Read
<1>2. \A q \in Stream : Len(written[q]) \in Nat
  BY DEF TypeOK
<1>3. n \in Nat /\ taken' = [taken EXCEPT ![s] = j] /\ i = taken[s] + 1 /\ i <= j
  BY <1>1, <1>2 DEF Read
<1>4. written' = written /\ exited' = exited
  BY DEF Read
<1>5. WholeCharacters'
  BY <1>4 DEF WholeCharacters
<1>6. /\ taken' \in [Stream -> Nat] /\ taken'[s] = j
      /\ \A q \in Stream \ {s} : taken'[q] = taken[q]
      /\ read' \in [Stream -> Nat] /\ read'[s] = n
      /\ \A q \in Stream \ {s} : read'[q] = read[q]
  BY <1>1, <1>3 DEF TypeOK
<1>7. taken[s] < j /\ j <= n /\ n <= Len(written[s])
  BY <1>1, <1>2, <1>3 DEF TypeOK
<1>8. ASSUME NEW q \in Stream
      PROVE  taken[q] <= taken'[q] /\ taken'[q] <= read'[q] /\ read'[q] <= Len(written[q])
  <2>1. CASE q = s
    <3>1. taken[s] \in Nat
      BY DEF TypeOK
    <3> QED
      BY <1>6, <1>7, <2>1, <3>1
  <2>2. CASE q # s
    BY <1>6, <2>2 DEF TypeOK
  <2> QED
    BY <2>1, <2>2
<1> QED
  BY <1>4, <1>5, <1>6, <1>7, <1>8

LEMMA RaisedInductive ==
  ASSUME Inductive, NEW s \in Stream, NEW i \in Nat, NEW j \in Nat, Read(s, i, j), Raised
  PROVE  Inductive'
<1> USE DEF Inductive
<1>1. /\ written' = written /\ exited' = exited
      /\ taken' \in [Stream -> Nat] /\ read' \in [Stream -> Nat]
      /\ \A q \in Stream : /\ taken[q] <= taken'[q] /\ taken'[q] <= read'[q]
                           /\ read'[q] <= Len(written[q])
      /\ WholeCharacters'
  BY ReadTyped
<1>2. pc' = "crashed" /\ OddBytes /\ partial' = partial /\ lines' = lines
  BY DEF Raised
<1>3. LinesTyped'
  <2>1. ASSUME NEW q \in Stream, NEW k \in 1..Len(lines[q])
        PROVE  Line(q, k)[2] + partial[q] <= taken'[q]
    <3>1. Line(q, k) \in Nat \X Nat /\ Line(q, k)[2] + partial[q] <= taken[q]
      BY DEF LinesTyped, Line
    <3>2. Line(q, k)[2] \in Nat /\ partial[q] \in Nat /\ taken[q] \in Nat /\ taken'[q] \in Nat
      BY <1>1, <3>1 DEF TypeOK
    <3> QED
      BY <1>1, <3>1, <3>2, KeptLess
  <2> QED
    BY <1>2, <2>1 DEF LinesTyped, Line
<1>4. TypeOK'
  <2>1. partial' \in [Stream -> Nat]
    BY <1>2 DEF TypeOK
  <2>2. \A q \in Stream : \A l \in ToSet(lines'[q]) : l[1] \in 1..l[2] /\ l[2] <= taken'[q]
    BY <1>1, <1>3, <2>1, LinesInRange DEF LinesTyped, Line
  <2>3. \A q \in Stream : partial'[q] <= taken'[q]
    BY <1>1, <1>2 DEF TypeOK
  <2>4. written' \in [Stream -> Seq(Token)] /\ exited' \in BOOLEAN
    BY <1>1 DEF TypeOK
  <2> QED
    BY <1>1, <1>2, <2>1, <2>2, <2>3, <2>4 DEF TypeOK
<1>5. Ordered' /\ NewlinesEmitted' /\ Emptied' /\ CrashNeedsOddBytes'
  BY <1>1, <1>2 DEF Ordered, NewlinesEmitted, Emptied, CrashNeedsOddBytes, OddBytes, Line
<1>6. LossNeedsOther'
  BY <1>2 DEF LossNeedsOther, Contiguous, PutTogether, Gap, Line
<1> QED
  BY <1>1, <1>3, <1>4, <1>5, <1>6

\* Where a read goes on that has no line.
Onward(s, next) == (pc = "poll" /\ next = "poll") \/ (pc = s /\ next = After(s))

\* Without a newline in what was read, all there was has been read.
LEMMA KeptInductive ==
  ASSUME Inductive, NEW s \in Stream, NEW next, NEW i \in Nat, NEW j \in Nat,
         Read(s, i, j), Kept(s, i, j, next),
         Onward(s, next)
  PROVE  Inductive'
<1> USE DEF Inductive
<1>1. /\ written' = written /\ exited' = exited
      /\ taken' \in [Stream -> Nat] /\ read' \in [Stream -> Nat]
      /\ taken'[s] = j /\ taken[s] < j
      /\ \A q \in Stream \ {s} : taken'[q] = taken[q] /\ read'[q] = read[q]
      /\ \A q \in Stream : /\ taken[q] <= taken'[q] /\ taken'[q] <= read'[q]
                           /\ read'[q] <= Len(written[q])
      /\ WholeCharacters'
  BY ReadTyped
<1>2. /\ j = Len(written[s]) /\ written[s][j] # "nl" /\ pc' = next /\ lines' = lines
      /\ partial' = [partial EXCEPT ![s] = @ + (j - i + 1)]
      /\ i = taken[s] + 1 /\ i <= j
  BY DEF Kept, Read
<1>c. /\ pc # "crashed" /\ pc' \in Stream \cup {"poll", "finished"}
      /\ pc = "poll" => pc' = "poll"
      /\ pc = "stdout" => pc' = "stderr" /\ s = "stdout"
      /\ pc = "stderr" => pc' = "finished" /\ s = "stderr"
      /\ pc = "poll" \/ pc = "stdout" \/ pc = "stderr"
  BY <1>2 DEF Onward, After, Stream
<1>3. /\ partial' \in [Stream -> Nat] /\ partial'[s] = partial[s] + (j - taken[s])
      /\ \A q \in Stream \ {s} : partial'[q] = partial[q]
      /\ \A q \in Stream : taken[q] - partial[q] = taken'[q] - partial'[q]
      /\ \A q \in Stream : taken[q] \in Nat /\ partial[q] \in Nat /\ Len(written[q]) \in Nat
  <2>1. partial \in [Stream -> Nat] /\ taken[s] \in Nat /\ j - i + 1 \in Nat
    <3>1. i <= j
      BY <1>2
    <3> QED
      BY <3>1 DEF TypeOK
  <2>2. /\ partial' \in [Stream -> Nat] /\ partial'[s] = partial[s] + (j - taken[s])
        /\ \A q \in Stream \ {s} : partial'[q] = partial[q]
    <3>0. i = taken[s] + 1
      BY <1>2
    <3>1. j - i + 1 = j - taken[s]
      BY <2>1, <3>0
    <3>2. partial[s] + (j - i + 1) \in Nat
      BY <2>1
    <3> QED
      BY <1>2, <2>1, <3>1, <3>2
  <2>3. \A q \in Stream : taken[q] \in Nat /\ partial[q] \in Nat /\ Len(written[q]) \in Nat
    BY DEF TypeOK
  <2>4. taken[s] - partial[s] = taken'[s] - partial'[s]
    BY <1>1, <2>2, <2>3
  <2> QED
    BY <1>1, <2>2, <2>3, <2>4
<1>4. LinesTyped'
  <2>1. ASSUME NEW q \in Stream, NEW k \in 1..Len(lines[q])
        PROVE  Line(q, k)[2] + partial'[q] <= taken'[q]
    <3>1. Line(q, k) \in Nat \X Nat /\ Line(q, k)[2] + partial[q] <= taken[q]
      BY DEF LinesTyped, Line
    <3>2. Line(q, k)[2] \in Nat /\ partial'[q] \in Nat /\ taken'[q] \in Nat
      BY <1>1, <1>3, <3>1
    <3>3. /\ taken[q] \in Nat /\ partial[q] \in Nat /\ taken'[q] \in Nat /\ partial'[q] \in Nat
          /\ taken[q] - partial[q] = taken'[q] - partial'[q]
      BY <1>1, <1>3
    <3> DEFINE end == Line(q, k)[2]
    <3>4. end \in Nat /\ end + partial[q] <= taken[q]
      BY <3>1, <3>2
    <3> HIDE DEF end
    <3>5. end + partial'[q] <= taken'[q]
      BY <3>3, <3>4, KeptMore
    <3> QED
      BY <3>5 DEF end
  <2> QED
    BY <1>2, <2>1 DEF LinesTyped, Line
<1>5. TypeOK'
  <2>1. \A q \in Stream : \A l \in ToSet(lines'[q]) : l[1] \in 1..l[2] /\ l[2] <= taken'[q]
    BY <1>1, <1>3, <1>4, LinesInRange DEF LinesTyped, Line
  <2>2. \A q \in Stream : partial'[q] <= taken'[q]
    BY <1>1, <1>3 DEF TypeOK
  <2>3. pc' \in Stream \cup {"poll", "finished", "crashed"}
    BY <1>c
  <2> QED
    BY <1>1, <1>2, <1>3, <2>1, <2>2, <2>3 DEF TypeOK
<1>6. Ordered' /\ CrashNeedsOddBytes'
  <2>1. pc' # "crashed"
    BY <1>c DEF Stream
  <2> QED
    BY <1>2, <2>1 DEF Ordered, CrashNeedsOddBytes, Line
<1>7. NewlinesEmitted'
  <2>1. pc # "crashed"
    BY <1>c
  <2>2. ASSUME NEW q \in Stream, NEW m \in 1..taken'[q], written[q][m] = "nl"
        PROVE  \E k \in 1..Len(lines[q]) : Line(q, k)[2] = m
    <3>1. m <= taken[q]
      <4>1. CASE q # s
        BY <1>1, <4>1
      <4>2. CASE q = s
        <5>1. \A k \in i..j : written[s][k] # "nl"
          BY <1>2 DEF Read
        <5> QED
          <6>1. m \in 1..j /\ written[s][m] = "nl" /\ m \notin i..j
            BY <1>1, <2>2, <4>2, <5>1
          <6> QED
            BY <1>2, <1>3, <4>2, <6>1
      <4> QED
        BY <4>1, <4>2
    <3>2. m \in 1..taken[q]
      BY <1>1, <1>3, <3>1
    <3> QED
      BY <2>1, <2>2, <3>2 DEF NewlinesEmitted
  <2> QED
    BY <1>1, <1>2, <2>2 DEF NewlinesEmitted, Line
<1>8. Emptied'
  BY <1>1, <1>2, <1>c DEF Emptied, Stream
<1>9. LossNeedsOther'
  <2>1. \A q \in Stream : PutTogether(q)' = PutTogether(q)
    BY <1>2 DEF PutTogether, Line
  <2>2. ASSUME NEW q \in Stream, Contiguous(q) PROVE Contiguous(q)'
    <3>1. pc # "crashed"
      BY <1>c
    <3>2. \A k \in 1..Len(lines[q]) : ~Gap(q, k)'
      BY <1>2, <2>2 DEF Contiguous, Gap
    <3>3. taken[q] = partial[q] + IF lines[q] = <<>> THEN 0 ELSE Line(q, Len(lines[q]))[2]
      BY <2>2, <3>1 DEF Contiguous
    <3>4. (IF lines[q] = <<>> THEN 0 ELSE Line(q, Len(lines[q]))[2]) \in Nat
      <4>1. lines[q] \in Seq(Nat \X Nat)
        BY DEF LinesTyped
      <4>2. lines[q] # <<>> => Line(q, Len(lines[q])) \in Nat \X Nat
        BY <4>1 DEF Line
      <4> QED
        BY <4>2
    <3>5. taken'[q] = partial'[q] + IF lines[q] = <<>> THEN 0 ELSE Line(q, Len(lines[q]))[2]
      <4> DEFINE end == IF lines[q] = <<>> THEN 0 ELSE Line(q, Len(lines[q]))[2]
      <4>1. end \in Nat /\ taken[q] = partial[q] + end
        BY <3>3, <3>4
      <4> HIDE DEF end
      <4>2. /\ taken[q] \in Nat /\ partial[q] \in Nat /\ taken'[q] \in Nat /\ partial'[q] \in Nat
            /\ taken[q] - partial[q] = taken'[q] - partial'[q]
        BY <1>1, <1>3
      <4>3. taken'[q] = partial'[q] + end
        BY <4>1, <4>2, KeptMore
      <4> QED
        BY <4>3 DEF end
    <3> QED
      BY <1>2, <3>2, <3>5 DEF Contiguous, Line
  <2> QED
    BY <2>1, <2>2 DEF LossNeedsOther
<1> QED
  BY <1>1, <1>4, <1>5, <1>6, <1>7, <1>8, <1>9

\* A line is emitted with what was kept for it; what was kept of the other stream
\* may be dropped, and then this line has been put together.
LEMMA LineInductive ==
  ASSUME Inductive, NEW s \in Stream, NEW i \in Nat, NEW j \in Nat,
         Read(s, i, j), LineRead(s, i, j), pc = "poll" \/ pc = s
  PROVE  Inductive'
<1> USE DEF Inductive
<1>1. /\ written' = written /\ exited' = exited
      /\ taken' \in [Stream -> Nat] /\ read' \in [Stream -> Nat]
      /\ taken'[s] = j /\ taken[s] < j
      /\ \A q \in Stream \ {s} : taken'[q] = taken[q] /\ read'[q] = read[q]
      /\ \A q \in Stream : /\ taken[q] <= taken'[q] /\ taken'[q] <= read'[q]
                           /\ read'[q] <= Len(written[q])
      /\ WholeCharacters'
  BY ReadTyped
<1>2. \A q \in Stream : /\ taken[q] \in Nat /\ partial[q] \in Nat /\ taken'[q] \in Nat
                        /\ partial[q] <= taken[q] /\ lines[q] \in Seq(Nat \X Nat)
                        /\ Len(lines[q]) \in Nat
  BY <1>1 DEF TypeOK, LinesTyped
<1> DEFINE line == <<i - partial[s], j>>
           n == Len(lines[s])
<1>3. i = taken[s] + 1 /\ i <= j /\ j <= Len(written[s]) /\ pc' = pc /\ pc # "crashed"
  BY DEF Read, LineRead, Stream
<1>4. /\ line \in Nat \X Nat /\ line[1] \in Nat /\ line[2] = j /\ line[1] = i - partial[s]
      /\ 1 <= line[1] /\ line[1] <= line[2] /\ line[1] > taken[s] - partial[s]
      /\ line[1] = taken[s] - partial[s] + 1
      /\ partial[s] > 0 => line[1] < line[2]
  BY <1>2, <1>3
<1>5. /\ lines' = [lines EXCEPT ![s] = Append(lines[s], line)]
      /\ partial' = [q \in Stream |-> IF partial[s] > 0 THEN 0 ELSE partial[q]]
  BY DEF LineRead
<1> HIDE DEF line
<1>6. /\ lines'[s] = Append(lines[s], line) /\ lines'[s] \in Seq(Nat \X Nat)
      /\ Len(lines'[s]) = n + 1 /\ lines'[s][n + 1] = line
      /\ \A k \in 1..n : lines'[s][k] = lines[s][k]
      /\ \A q \in Stream \ {s} : lines'[q] = lines[q]
  <2>1. lines'[s] = Append(lines[s], line) /\ \A q \in Stream \ {s} : lines'[q] = lines[q]
    BY <1>5 DEF LinesTyped
  <2> QED
    BY <1>2, <1>4, <2>1, AppendProperties
<1> HIDE DEF n
<1>7. /\ partial' \in [Stream -> Nat] /\ \A q \in Stream : partial'[q] <= partial[q]
      /\ partial'[s] = 0
  BY <1>2, <1>5
<1>8. n \in Nat /\ n = Len(lines[s])
  BY <1>2 DEF n
<1>a. ASSUME NEW q \in Stream, NEW k \in 1..Len(lines'[q]), ~(q = s /\ k = n + 1)
      PROVE  k \in 1..Len(lines[q]) /\ lines'[q][k] = lines[q][k]
  <2>1. CASE q = s
    <3>1. k \in 1..n
      BY <1>6, <1>8, <1>a, <2>1
    <3> QED
      BY <1>6, <1>8, <2>1, <3>1
  <2>2. CASE q # s
    BY <1>6, <1>a, <2>2
  <2> QED
    BY <2>1, <2>2
<1>b. \A q \in Stream : \A k \in 1..Len(lines[q]) :
        k \in 1..Len(lines'[q]) /\ lines'[q][k] = lines[q][k]
  <2>1. ASSUME NEW k \in 1..n PROVE k \in 1..Len(lines'[s]) /\ lines'[s][k] = lines[s][k]
    BY <1>6, <1>8
  <2> QED
    BY <1>6, <1>8, <2>1
<1>9. LinesTyped'
  <2>1. lines' \in [Stream -> Seq(Nat \X Nat)]
    BY <1>5, <1>6 DEF LinesTyped
  <2>2. ASSUME NEW q \in Stream, NEW k \in 1..Len(lines'[q])
        PROVE  /\ lines'[q][k][1] >= 1 /\ lines'[q][k][1] <= lines'[q][k][2]
               /\ lines'[q][k][2] + partial'[q] <= taken'[q]
    <3>1. CASE q = s /\ k = n + 1
      BY <1>1, <1>3, <1>4, <1>6, <1>7, <3>1
    <3>2. CASE ~(q = s /\ k = n + 1)
      <4>1. k \in 1..Len(lines[q]) /\ lines'[q][k] = lines[q][k]
        BY <1>a, <2>2, <3>2
      <4>2. /\ lines[q][k] \in Nat \X Nat
            /\ lines[q][k][1] >= 1 /\ lines[q][k][1] <= lines[q][k][2]
            /\ lines[q][k][2] + partial[q] <= taken[q]
        BY <1>2, <4>1 DEF LinesTyped, Line
      <4>3. lines[q][k][2] \in Nat /\ partial'[q] \in Nat
        BY <1>7, <4>2
      <4> QED
        <5>1. partial'[q] <= partial[q] /\ taken[q] <= taken'[q]
          BY <1>1, <1>7
        <5>2. partial[q] \in Nat /\ taken[q] \in Nat /\ taken'[q] \in Nat
          BY <1>2
        <5> QED
          BY <4>1, <4>2, <4>3, <5>1, <5>2, KeptLess
    <3> QED
      BY <3>1, <3>2
  <2> QED
    BY <2>1, <2>2 DEF LinesTyped, Line
<1>10. TypeOK'
  <2>1. \A q \in Stream : \A l \in ToSet(lines'[q]) : l[1] \in 1..l[2] /\ l[2] <= taken'[q]
    BY <1>1, <1>7, <1>9, LinesInRange DEF LinesTyped, Line
  <2>2. \A q \in Stream : partial'[q] <= taken'[q]
    BY <1>1, <1>2, <1>7
  <2> QED
    BY <1>1, <1>3, <1>7, <2>1, <2>2 DEF TypeOK
<1>11. Ordered'
  <2>1. ASSUME NEW q \in Stream, NEW k \in 2..Len(lines'[q])
        PROVE  lines'[q][k - 1][2] < lines'[q][k][1]
    <3>1. CASE q = s /\ k = n + 1
      <4>1. n \in 1..n /\ k - 1 = n /\ lines'[q][k - 1] = lines[s][n]
        <5>1. k - 1 = n /\ n \in 1..n
          BY <1>8, <2>1, <3>1
        <5> QED
          BY <1>6, <3>1, <5>1
      <4>2. lines[s][n] \in Nat \X Nat /\ lines[s][n][2] + partial[s] <= taken[s]
        <5>1. n \in 1..Len(lines[s]) /\ n \in DOMAIN lines[s]
          BY <1>2, <1>8, <4>1
        <5> QED
          BY <1>2, <5>1 DEF LinesTyped, Line
      <4>3. lines[s][n][2] \in Nat
        BY <4>2
      <4>4. lines'[q][k] = line /\ line[1] > taken[s] - partial[s] /\ line[1] \in Nat
        BY <1>4, <1>6, <3>1
      <4>5. taken[s] \in Nat /\ partial[s] \in Nat
        BY <1>2
      <4> QED
        BY <4>1, <4>2, <4>3, <4>4, <4>5, KeptNext
    <3>2. CASE ~(q = s /\ k = n + 1)
      <4>1. /\ k \in 2..Len(lines[q]) /\ lines'[q][k] = lines[q][k]
            /\ lines'[q][k - 1] = lines[q][k - 1]
        <5>1. k \in 1..Len(lines'[q]) /\ k - 1 \in 1..Len(lines'[q]) /\ k >= 2 /\ k \in Nat
          BY <1>6, <1>2, <1>8, <2>1
        <5>2. ~(q = s /\ k - 1 = n + 1)
          BY <1>6, <1>8, <5>1
        <5>3. k \in 1..Len(lines[q]) /\ lines'[q][k] = lines[q][k]
          BY <1>a, <3>2, <5>1
        <5>4. lines'[q][k - 1] = lines[q][k - 1]
          BY <1>a, <5>1, <5>2
        <5> QED
          BY <1>2, <5>1, <5>3, <5>4
      <4> QED
        BY <4>1 DEF Ordered, Line
    <3> QED
      BY <3>1, <3>2
  <2> QED
    BY <2>1 DEF Ordered, Line
<1>12. NewlinesEmitted'
  <2>1. ASSUME NEW q \in Stream, NEW m \in 1..taken'[q], written[q][m] = "nl"
        PROVE  \E k \in 1..Len(lines'[q]) : lines'[q][k][2] = m
    <3>1. CASE m \in 1..taken[q]
      <4>1. PICK k \in 1..Len(lines[q]) : lines[q][k][2] = m
        BY <1>3, <2>1, <3>1 DEF NewlinesEmitted, Line
      <4>2. k \in 1..Len(lines'[q]) /\ lines'[q][k] = lines[q][k]
        BY <1>b, <4>1
      <4> QED
        BY <4>1, <4>2
    <3>2. CASE m \notin 1..taken[q]
      <4>1. q = s
        BY <1>1, <1>2, <2>1, <3>2
      <4>2. m \in i..j
        BY <1>1, <1>2, <1>3, <2>1, <3>2, <4>1
      <4>3. m = j
        BY <2>1, <4>1, <4>2 DEF Read
      <4>4. n + 1 \in 1..Len(lines'[s])
        BY <1>6, <1>8
      <4> QED
        BY <1>4, <1>6, <4>1, <4>3, <4>4
    <3> QED
      BY <3>1, <3>2
  <2> QED
    BY <1>1, <2>1 DEF NewlinesEmitted, Line
<1>13. Emptied' /\ CrashNeedsOddBytes'
  BY <1>1, <1>3 DEF Emptied, CrashNeedsOddBytes, OddBytes, Stream
<1>14. LossNeedsOther'
  <2>1. \A q \in Stream : PutTogether(q) => PutTogether(q)'
    BY <1>b DEF PutTogether, Line
  <2>2. partial[s] > 0 => PutTogether(s)'
    <3>1. n + 1 \in 1..Len(lines'[s])
      BY <1>6, <1>8
    <3> QED
      BY <1>4, <1>6, <3>1 DEF PutTogether, Line
  <2>3. ASSUME Contiguous(s) PROVE Contiguous(s)'
    <3> DEFINE Joined(k) ==
                 lines'[s][k][1] = IF k = 1 THEN 1 ELSE lines'[s][k - 1][2] + 1
    <3>1. taken[s] = partial[s] + IF lines[s] = <<>> THEN 0 ELSE lines[s][n][2]
      BY <1>3, <2>3 DEF Contiguous, Line, n
    <3>2. lines[s] = <<>> <=> n = 0
      BY <1>2 DEF n
    <3>3. n # 0 => lines[s][n] \in Nat \X Nat /\ lines[s][n][2] \in Nat
      BY <1>2, <1>8 DEF n
    <3>4. line[1] = 1 + IF n = 0 THEN 0 ELSE lines[s][n][2]
      <4>1. line[1] = taken[s] - partial[s] + 1 /\ taken[s] \in Nat /\ partial[s] \in Nat
        BY <1>2, <1>4
      <4>2. CASE n = 0
        BY <3>1, <3>2, <4>1, <4>2
      <4>3. CASE n # 0
        <5>1. taken[s] = partial[s] + lines[s][n][2] /\ lines[s][n][2] \in Nat
          BY <3>1, <3>2, <3>3, <4>3
        <5>2. line[1] = lines[s][n][2] + 1
          BY <4>1, <5>1
        <5> QED
          BY <4>3, <5>1, <5>2
      <4> QED
        BY <4>2, <4>3
    <3>5. Joined(n + 1)
      <4>1. CASE n = 0
        BY <1>6, <3>4, <4>1
      <4>2. CASE n # 0
        <5>1. n \in 1..n /\ (n + 1) - 1 = n /\ n + 1 # 1
          BY <1>8, <4>2
        <5>2. lines'[s][(n + 1) - 1] = lines[s][n]
          BY <1>6, <5>1
        <5>3. lines'[s][n + 1][1] = lines[s][n][2] + 1
          BY <1>6, <3>3, <3>4, <4>2
        <5> QED
          BY <5>1, <5>2, <5>3
      <4> QED
        BY <4>1, <4>2
    <3>6. ASSUME NEW k \in 1..n PROVE Joined(k)
      <4>1. k # 1 => k - 1 \in 1..n
        BY <1>8
      <4>2. lines'[s][k] = lines[s][k] /\ (k # 1 => lines'[s][k - 1] = lines[s][k - 1])
        BY <1>6, <4>1
      <4>3. ~Gap(s, k)
        BY <1>8, <2>3 DEF Contiguous
      <4> QED
        BY <4>2, <4>3 DEF Gap
    <3>7. taken'[s] = partial'[s] + IF lines'[s] = <<>> THEN 0 ELSE lines'[s][Len(lines'[s])][2]
      <4>1. lines'[s] # <<>>
        <5>1. Len(lines'[s]) # 0
          BY <1>6, <1>8
        <5> QED
          BY <5>1
      <4> QED
        <5>1. lines'[s][Len(lines'[s])] = line /\ line[2] = j
          BY <1>4, <1>6
        <5>2. taken'[s] = j /\ partial'[s] = 0 /\ j \in Nat
          BY <1>1, <1>7
        <5> QED
          BY <4>1, <5>1, <5>2
    <3>8. \A k \in 1..Len(lines'[s]) : k \in 1..n \/ k = n + 1
      BY <1>6, <1>8
    <3> QED
      <4>1. \A k \in 1..Len(lines'[s]) : Joined(k)
        BY <3>5, <3>6, <3>8
      <4>2. \A k \in 1..Len(lines'[s]) : ~Gap(s, k)'
        BY <4>1 DEF Gap
      <4> QED
        BY <3>7, <4>2 DEF Contiguous, Line
  <2>4. ASSUME NEW q \in Stream \ {s}, Contiguous(q), partial[s] = 0 PROVE Contiguous(q)'
    <3>1. lines'[q] = lines[q] /\ taken'[q] = taken[q] /\ partial'[q] = partial[q]
      BY <1>1, <1>5, <1>6, <2>4
    <3> QED
      BY <1>3, <2>4, <3>1 DEF Contiguous, Gap, Line
  <2>5. partial[s] > 0 \/ partial[s] = 0
    BY <1>2
  <2> QED
    BY <2>1, <2>2, <2>3, <2>4, <2>5 DEF LossNeedsOther
<1> QED
  BY <1>1, <1>9, <1>10, <1>11, <1>12, <1>13, <1>14

LEMMA ReadInductive ==
  ASSUME Inductive, NEW s \in Stream, NEW next, ReadFd(s, next),
         Onward(s, next)
  PROVE  Inductive'
<1>1. PICK i \in Nat, j \in Nat :
        Read(s, i, j) /\ (Raised \/ Kept(s, i, j, next) \/ LineRead(s, i, j))
  BY ReadOutcomes DEF Inductive
<1> QED
  BY <1>1, RaisedInductive, KeptInductive, LineInductive DEF Onward

\* Nothing but the place in the loop changes.
LEMMA MoveInductive ==
  ASSUME Inductive, UNCHANGED <<written, read, taken, partial, lines>>,
         exited' \in BOOLEAN, exited => exited',
         pc' \in Stream \cup {"poll", "finished", "crashed"},
         pc' = "crashed" <=> pc = "crashed",
         Emptied'
  PROVE  Inductive'
<1> USE DEF Inductive
<1>1. TypeOK' /\ LinesTyped' /\ Ordered' /\ NewlinesEmitted' /\ WholeCharacters'
  BY DEF TypeOK, LinesTyped, Ordered, NewlinesEmitted, WholeCharacters, Line
<1>2. LossNeedsOther' /\ CrashNeedsOddBytes'
  BY DEF LossNeedsOther, Contiguous, PutTogether, Gap, Line, CrashNeedsOddBytes, OddBytes
<1> QED
  BY <1>1, <1>2

LEMMA NextInductive == Inductive /\ [Next]_vars => Inductive'
<1> SUFFICES ASSUME Inductive, [Next]_vars PROVE Inductive'
  OBVIOUS
<1>1. TypeOK /\ Emptied
  BY DEF Inductive
<1>2. CASE PollHup
  <2>1. /\ UNCHANGED <<written, read, taken, partial, lines, exited>>
        /\ pc = "poll" /\ pc' = "stdout" /\ exited
    BY <1>2 DEF PollHup
  <2> QED
    BY <1>1, <2>1, MoveInductive DEF Emptied, TypeOK, Stream
<1>3. ASSUME NEW s \in Stream, PollIn(s) PROVE Inductive'
  <2>1. ReadFd(s, "poll") /\ pc = "poll"
    BY <1>3, Zenon DEF PollIn
  <2>2. Onward(s, "poll")
    BY <2>1, Zenon DEF Onward
  <2> QED
    BY <2>1, <2>2, ReadInductive, Zenon
<1>4. ASSUME NEW s \in Stream, Drain(s) PROVE Inductive'
  BY <1>4, ReadInductive DEF Drain, Onward
<1>5. ASSUME NEW s \in Stream, Drained(s) PROVE Inductive'
  <2>1. /\ UNCHANGED <<written, read, taken, partial, lines, exited>>
        /\ pc = s /\ pc' = After(s) /\ taken[s] = Len(written[s])
    BY <1>5 DEF Drained
  <2>2. Emptied' /\ pc # "crashed" /\ pc' \in {"stderr", "finished"}
    BY <1>1, <2>1 DEF Emptied, After, Stream
  <2> QED
    BY <1>1, <2>1, <2>2, MoveInductive DEF TypeOK, Stream
<1>6. CASE Exit
  BY <1>1, <1>6, MoveInductive DEF Exit, Emptied, TypeOK
<1>7. ASSUME NEW s \in Stream, Write(s) PROVE Inductive'
  BY <1>7, WriteInductive
<1>8. CASE UNCHANGED vars
  BY <1>1, <1>8, MoveInductive DEF vars, Emptied, TypeOK
<1> QED
  BY <1>2, <1>3, <1>4, <1>5, <1>6, <1>7, <1>8 DEF Next, Loop, Stutter

-----------------------------------------------------------------------------
(* Theorems *)

LEMMA SpecInductive == Spec => []Inductive
BY InitInductive, NextInductive, PTL DEF Spec

\* The variables of the reading of output have their types, for every set of
\* tokens and any length of the streams.
THEOREM OutputTyped == Spec => []TypeOK
<1>1. Inductive => TypeOK
  BY DEF Inductive
<1> QED
  BY <1>1, SpecInductive, PTL

\* Lines reach the parser in order and without an overlap, and when a tool has
\* finished, all of them have.  The beginning of a line is lost only to a line of
\* the other stream that was put together from parts, and the loop raises only on
\* odd bytes.
THEOREM AllLinesArrive == Spec => []LinesArrive
<1>1. ASSUME Inductive PROVE LinesArrive
  <2>1. ASSUME NEW s \in Stream, pc = "finished" PROVE Newlines(s) \subseteq Ends(s)
    <3>1. taken[s] = Len(written[s]) /\ pc # "crashed"
      BY <1>1, <2>1 DEF Inductive, Emptied, Stream
    <3>2. \A k \in 1..Len(lines[s]) : k \in DOMAIN lines[s]
      BY <1>1 DEF Inductive, LinesTyped
    <3>3. \A i \in Newlines(s) : \E k \in 1..Len(lines[s]) : lines[s][k][2] = i
      BY <1>1, <3>1 DEF Inductive, NewlinesEmitted, Newlines, Line
    <3> QED
      BY <3>2, <3>3 DEF Ends, ToSet
  <2>2. \A s \in Stream : \A k \in 2..Len(lines[s]) : lines[s][k - 1][2] < lines[s][k][1]
    BY <1>1 DEF Inductive, Ordered, Line
  <2>3. \A q \in Stream : PutTogether(q) => \E l \in ToSet(lines[q]) : l[1] < l[2]
    <3>1. \A q \in Stream : \A k \in 1..Len(lines[q]) : lines[q][k] \in ToSet(lines[q])
      BY <1>1 DEF Inductive, LinesTyped, ToSet
    <3> QED
      BY <3>1 DEF PutTogether, Line
  <2>4. \A s \in Stream : (\E k \in 1..Len(lines[s]) : Gap(s, k)) =>
          \E q \in Stream \ {s} : \E l \in ToSet(lines[q]) : l[1] < l[2]
    BY <1>1, <2>3 DEF Inductive, LossNeedsOther, Contiguous
  <2>5. pc = "crashed" => \E s \in Stream : ToSet(written[s]) \cap {"lead", "cr"} # {}
    <3>1. \A s \in Stream : \A k \in 1..Len(written[s]) : written[s][k] \in ToSet(written[s])
      BY <1>1 DEF Inductive, TypeOK, ToSet
    <3> QED
      BY <1>1, <3>1 DEF Inductive, CrashNeedsOddBytes, OddBytes
  <2> QED
    BY <2>1, <2>2, <2>4, <2>5 DEF LinesArrive
<1> QED
  BY <1>1, SpecInductive, PTL
=============================================================================
