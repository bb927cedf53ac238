------------------------------- MODULE Output -------------------------------
(***************************************************************************)
(* How the lines that a tool prints reach its parser: read_fd and          *)
(* finish_fd_task of bbk/workflow.py over the two pipes of one process.    *)
(*                                                                         *)
(* A stream is a sequence of tokens.  A character of two bytes is the      *)
(* tokens "lead" and "trail", so that a read can fall between them.  What  *)
(* the tool has written waits in the pipe, then in the buffer of Python's  *)
(* reader, then, while its line is not complete, in _partial_output; a     *)
(* complete line is emitted to the parser as the pair of the positions of  *)
(* its first and its last token.                                           *)
(***************************************************************************)
EXTENDS Naturals, Sequences, FiniteSetsExt, SequencesExt

CONSTANTS
  Token,      \* the tokens a tool may write
  MaxOutput   \* bound: the number of tokens on one stream

Stream == {"stdout", "stderr"}
Tokens == {"text", "lead", "trail", "nl", "cr"}

ASSUME TokenAssumption == Token \subseteq Tokens
ASSUME BoundAssumption == MaxOutput \in Nat

VARIABLES
  written,  \* [Stream -> Seq(Token)]: everything the tool has written
  read,     \* how many of them have left the pipe
  taken,    \* how many of them readline() has returned
  partial,  \* how many of the last of those are in _partial_output[stream]
  lines,    \* [Stream -> Seq(Nat \X Nat)]: the lines emitted, first and last token
  exited,   \* the process has ended
  pc        \* "poll", the stream finish_fd_task empties, "finished" or "crashed"

vars == <<written, read, taken, partial, lines, exited, pc>>

TypeOK ==
  /\ written \in [Stream -> Seq(Token)]
  /\ read \in [Stream -> Nat] /\ taken \in [Stream -> Nat] /\ partial \in [Stream -> Nat]
  /\ \A s \in Stream : partial[s] <= taken[s] /\ taken[s] <= read[s] /\ read[s] <= Len(written[s])
  /\ \A s \in Stream : \A l \in ToSet(lines[s]) : l[1] \in 1..l[2] /\ l[2] <= taken[s]
  /\ exited \in BOOLEAN
  /\ pc \in Stream \cup {"poll", "finished", "crashed"}

Init ==
  /\ written = [s \in Stream |-> <<>>]
  /\ read = [s \in Stream |-> 0]
  /\ taken = [s \in Stream |-> 0]
  /\ partial = [s \in Stream |-> 0]
  /\ lines = [s \in Stream |-> <<>>]
  /\ exited = FALSE
  /\ pc = "poll"

-----------------------------------------------------------------------------
(* The tool *)

\* The tool has written half a character.
Halfway(s) == Len(written[s]) \in {k \in DOMAIN written[s] : written[s][k] = "lead"}

Write(s) ==
  /\ ~exited
  /\ Len(written[s]) < MaxOutput
  /\ \E x \in Token :
       /\ (x = "trail") = Halfway(s)
       /\ written' = [written EXCEPT ![s] = Append(@, x)]
  /\ UNCHANGED <<read, taken, partial, lines, exited, pc>>

\* The tool ends or is killed, perhaps in the middle of a character.
Exit ==
  /\ ~exited
  /\ exited' = TRUE
  /\ UNCHANGED <<written, read, taken, partial, lines, pc>>

-----------------------------------------------------------------------------
(* read_fd *)

\* The bytes readline() returns end with the first newline or, in a pipe that
\* does not block, with whatever there is.
LineEnd(s) ==
  LET newlines == {i \in taken[s] + 1 .. Len(written[s]) : written[s][i] = "nl"}
  IN  IF newlines = {} THEN Len(written[s]) ELSE Min(newlines)

\* The positions in i..j that decode("utf-8", "ignore") keeps: half a character
\* at either end of the bytes is dropped.
Decoded(s, i, j) ==
  {k \in i..j : \/ written[s][k] \in {"text", "nl", "cr"}
                \/ written[s][k] = "lead" /\ k < j
                \/ written[s][k] = "trail" /\ k > i}

\* ln[-1] in ("\n", "\r")
IsLine(s, i, j) == written[s][Max(Decoded(s, i, j))] \in {"nl", "cr"}

\* The exceptions of read_fd: ln[-1] of an empty string, the assertion that
\* kept output is followed by a newline, decode("utf-8") of a line from which
\* the beginning is missing.
Raises(s, i, j) ==
  \/ Decoded(s, i, j) = {}
  \/ /\ IsLine(s, i, j)
     /\ partial[s] > 0
     /\ \/ written[s][j] # "nl"
        \/ written[s][i - partial[s]] = "trail"

\* A mutation: output that has been emitted is still kept.
PartialNotReset(s, i, j) ==
  [q \in Stream |-> IF ~IsLine(s, i, j) /\ q = s THEN partial[q] + (j - i + 1) ELSE partial[q]]

\* An incomplete line is kept.  A line that completes kept output resets
\* task._partial_output, which holds the output of both streams.
PartialAfter(s, i, j) ==
  [q \in Stream |->
     IF ~IsLine(s, i, j) THEN IF q = s THEN partial[q] + (j - i + 1) ELSE partial[q]
     ELSE IF partial[s] > 0 THEN 0 ELSE partial[q]]

\* A mutation: the line is emitted with the token before it.
EmittedWithPrevious(s, i, j) ==
  IF IsLine(s, i, j) THEN Append(lines[s], <<i - partial[s] - 1, j>>) ELSE lines[s]

Emitted(s, i, j) ==
  IF IsLine(s, i, j) THEN Append(lines[s], <<i - partial[s], j>>) ELSE lines[s]

\* One call of read_fd with something to read.  readline() fills its buffer
\* from the pipe only when it finds no newline in it, and then takes more than
\* it returns.  next is where the caller goes on when no line was returned.
ReadFd(s, next) ==
  /\ taken[s] < Len(written[s])
  /\ LET i == taken[s] + 1
         j == LineEnd(s)
     IN
       /\ taken' = [taken EXCEPT ![s] = j]
       /\ IF j <= read[s] /\ written[s][j] = "nl"
          THEN UNCHANGED read
          ELSE \E n \in j..Len(written[s]) : read' = [read EXCEPT ![s] = n]
       /\ IF Raises(s, i, j)
          THEN pc' = "crashed" /\ UNCHANGED <<partial, lines>>
          ELSE /\ partial' = PartialAfter(s, i, j)
               /\ lines' = [lines EXCEPT ![s] = Emitted(s, i, j)]
               /\ pc' = IF IsLine(s, i, j) THEN pc ELSE next
  /\ UNCHANGED <<written, exited>>

-----------------------------------------------------------------------------
(* The loop *)

\* POLLIN is reported while there is something in the pipe; what waits in the
\* buffer of the reader is not seen.
PollIn(s) ==
  /\ pc = "poll"
  /\ read[s] < Len(written[s])
  /\ ReadFd(s, "poll")

\* A mutation: the other stream of the process is not emptied.
PollHupOneStream ==
  /\ pc = "poll"
  /\ exited
  /\ \E s \in Stream : read[s] = Len(written[s]) /\ pc' = s
  /\ UNCHANGED <<written, read, taken, partial, lines, exited>>

\* One of the pipes has nothing left and nobody to write to it: finish_fd_task
\* reads the rest of both, the standard output first.
PollHup ==
  /\ pc = "poll"
  /\ exited
  /\ \E s \in Stream : read[s] = Len(written[s])
  /\ pc' = "stdout"
  /\ UNCHANGED <<written, read, taken, partial, lines, exited>>

After(s) == IF s = "stdout" THEN "stderr" ELSE "finished"

Drain(s) ==
  /\ pc = s
  /\ ReadFd(s, After(s))

Drained(s) ==
  /\ pc = s
  /\ taken[s] = Len(written[s])
  /\ pc' = After(s)
  /\ UNCHANGED <<written, read, taken, partial, lines, exited>>

Stutter == pc \in {"finished", "crashed"} /\ UNCHANGED vars

Loop == PollHup \/ \E s \in Stream : PollIn(s) \/ Drain(s) \/ Drained(s)

Next ==
  \/ Loop
  \/ Exit
  \/ \E s \in Stream : Write(s)
  \/ Stutter

Spec == Init /\ [][Next]_vars

\* The loop goes on, and the tool ends by itself or by a timeout.
FairSpec == Spec /\ WF_vars(Loop) /\ WF_vars(Exit)

-----------------------------------------------------------------------------
(* Properties *)

Newlines(s) == {i \in 1..Len(written[s]) : written[s][i] = "nl"}

\* Where the emitted lines end.
Ends(s) == {l[2] : l \in ToSet(lines[s])}

\* The output is lost between two lines, or before the first one.
Gap(s, k) == lines[s][k][1] # (IF k = 1 THEN 1 ELSE lines[s][k - 1][2] + 1)

\* The lines of a stream are emitted in order and no token is in two of them, also
\* of a tool that runs or whose output made the loop crash.  When a tool has
\* finished, every line that it ended has been emitted, although the event that
\* ends it comes for one of its pipes only.  Two streams and odd bytes are what
\* it takes to go wrong: the beginning of a line is lost only when a line of the
\* other stream has been put together from parts, and output of plain characters
\* and newlines cannot make the loop raise.
LinesArrive ==
  /\ \A s \in Stream :
       /\ \A k \in 2..Len(lines[s]) : lines[s][k - 1][2] < lines[s][k][1]
       /\ pc = "finished" => Newlines(s) \subseteq Ends(s)
       /\ (\E k \in 1..Len(lines[s]) : Gap(s, k)) =>
            \E q \in Stream \ {s} : \E l \in ToSet(lines[q]) : l[1] < l[2]
  /\ pc = "crashed" => \E s \in Stream : ToSet(written[s]) \cap {"lead", "cr"} # {}

\* Every line that a tool ends reaches the parser, even if it waits in the
\* buffer of the reader until the tool ends.
Delivered ==
  <>[](pc = "crashed" \/ \A s \in Stream : Newlines(s) \subseteq Ends(s))

=============================================================================
