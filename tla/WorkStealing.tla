---------------------------- MODULE WorkStealing ----------------------------
(***************************************************************************)
(* Several verifiers share a list of inputs (WorkStealingAlgorithm in       *)
(* workflows/flows/workstealing.py).  Every verifier gets an input that     *)
(* nobody works on, or else one that no verifier of its name works on.      *)
(* The first answer about an input counts, and the others are stopped as    *)
(* far as the algorithm still knows them.                                   *)
(*                                                                         *)
(* A job is the task of one verifier for one input: it waits for the loop   *)
(* to start it, is set up (a compilation, the download of a tool) and then  *)
(* runs the tool.  Actions are the events of a job with what aggregate()    *)
(* and execute() do about them.                                            *)
(***************************************************************************)
EXTENDS Naturals, Sequences, SequencesExt, FiniteSets, FiniteSetsExt

CONSTANTS
  Verifiers, \* how many; they are known by their number
  Inputs,    \* how many
  Names,     \* [1..Verifiers -> names]: two of one name are interchangeable
  Replaced   \* the verifiers whose task is replaced by the tool once set up

ASSUME CountAssumption == Verifiers \in Nat \ {0} /\ Inputs \in Nat \ {0}
ASSUME NameAssumption == DOMAIN Names = 1..Verifiers /\ Replaced \subseteq 1..Verifiers

Verifier == 1..Verifiers
Input == 1..Inputs

VARIABLES
  tracked,  \* _running_verifiers: the input of each, 0 for None
  alloc,    \* _running_alloc: who works on an input, {} for None
  results,  \* _results, "none" for None
  job,      \* [Verifier -> [Input -> phase]]
  stopped,  \* jobs whose task has been stopped
  failed,   \* history: jobs that failed by themselves
  ended     \* "no", or the result: "DONE", "bug", "ERROR", or an "exception"

vars == <<tracked, alloc, results, job, stopped, failed, ended>>

Job == Verifier \X Input

TypeOK ==
  /\ tracked \in [Verifier -> 0..Inputs]
  /\ alloc \in [Input -> SUBSET Verifier]
  /\ results \in [Input -> {"none", "CORRECT", "UNKNOWN"}]
  /\ job \in [Verifier -> [Input -> {"none", "queued", "setup", "tool", "over"}]]
  /\ stopped \subseteq Job /\ failed \subseteq Job
  /\ ended \in {"no", "DONE", "bug", "ERROR", "exception"}

-----------------------------------------------------------------------------
(* Giving out inputs: a state of the algorithm is a record s *)

OpenInputs(s) == {i \in Input : s.alloc[i] = {} /\ s.results[i] = "none"}

\* A mutation: a verifier may help another one of its name.
StealingPointsAnyName(s, v) ==
  {i \in Input : s.results[i] = "none" /\ v \notin s.alloc[i]}

StealingPoints(s, v) ==
  {i \in Input : s.results[i] = "none" /\ \A w \in s.alloc[i] : Names[w] # Names[v]}

\* _next_task_for, _alloc_task and add_subtask for one verifier, busy or not.
Give(s, v) ==
  LET candidates == IF OpenInputs(s) # {} THEN OpenInputs(s) ELSE StealingPoints(s, v) IN
    IF candidates = {} THEN s
    ELSE [s EXCEPT !.tracked[v] = Min(candidates),
                   !.alloc[Min(candidates)] = @ \cup {v},
                   !.job[v][Min(candidates)] = "queued"]

\* All verifiers in turn.
Execute(s) ==
  LET given[v \in 0..Verifiers] == IF v = 0 THEN s ELSE Give(given[v - 1], v)
  IN  given[Verifiers]

Become(s) == tracked' = s.tracked /\ alloc' = s.alloc /\ results' = s.results /\ job' = s.job

Init ==
  LET s == Execute([tracked |-> [v \in Verifier |-> 0],
                    alloc |-> [i \in Input |-> {}],
                    results |-> [i \in Input |-> "none"],
                    job |-> [v \in Verifier |-> [i \in Input |-> "none"]]])
  IN
    /\ tracked = s.tracked /\ alloc = s.alloc /\ results = s.results /\ job = s.job
    /\ stopped = {} /\ failed = {} /\ ended = "no"

-----------------------------------------------------------------------------
(* The life of a job *)

SetJob(v, i, phase) == job' = [job EXCEPT ![v][i] = phase]

Unchanged == UNCHANGED <<tracked, alloc, results, stopped>>

\* The loop starts a new task; one that has been stopped meanwhile raises.
StartJob(v, i) ==
  /\ ended = "no" /\ job[v][i] = "queued"
  /\ IF <<v, i>> \in stopped
     THEN ended' = "exception" /\ SetJob(v, i, "over")
     ELSE SetJob(v, i, "setup") /\ UNCHANGED ended
  /\ Unchanged /\ UNCHANGED failed

ToolStarts(v, i) ==
  /\ ended = "no" /\ job[v][i] = "setup" /\ <<v, i>> \notin stopped
  /\ SetJob(v, i, "tool")
  /\ Unchanged /\ UNCHANGED <<failed, ended>>

\* The set-up fails or was stopped: an ERROR, and aggregate() returns it.
SetupFails(v, i) ==
  /\ ended = "no" /\ job[v][i] = "setup"
  /\ SetJob(v, i, "over")
  /\ ended' = "ERROR"
  /\ failed' = IF <<v, i>> \in stopped THEN failed ELSE failed \cup {<<v, i>>}
  /\ Unchanged

\* The compiler may have found one already.
FindsBug(v, i) ==
  /\ ended = "no"
  /\ \/ job[v][i] = "tool"
     \/ job[v][i] = "setup" /\ v \in Replaced /\ <<v, i>> \notin stopped
  /\ SetJob(v, i, "over")
  /\ ended' = "bug"
  /\ Unchanged /\ UNCHANGED failed

\* Mutations: the record of a verifier is reset before its task is stopped; what
\* is stopped does not depend on the input.
StoppedReset(i) == {<<v, 0>> : v \in {w \in Verifier : tracked[w] = i}}
StoppedAll(i) == {<<v, tracked[v]>> : v \in {w \in Verifier : tracked[w] # 0}}

\* The tasks that _stop_all_running_tasks stops: of a verifier that has been
\* given another input meanwhile it knows only that one; and the task of one that
\* is Replaced has finished when its tool runs, so that stopping it is in vain.
StoppedFor(i) ==
  {<<v, i>> : v \in {w \in Verifier : tracked[w] = i /\ job[w][i] # "over" /\
                                      ~(w \in Replaced /\ job[w][i] = "tool")}}

\* A mutation: aggregate() forgets to ask for new inputs.
RescheduleNothing(s) == s

\* Reschedule the remaining tasks.
Reschedule(s) == Execute(s)

\* Whatever was the result of the input before, the answer replaces it.
Record(i, kind) == [results EXCEPT ![i] = kind]

\* A tool that was stopped answers, too.  Its input is found again by its name, as
\* the last one whose base name begins that of the file the tool ran on: assumed
\* of the inputs is that no base name begins another one.
Answers(v, i) ==
  /\ ended = "no" /\ job[v][i] = "tool"
  /\ \E kind \in {"CORRECT", "UNKNOWN"} :
       LET s == [tracked |-> [w \in Verifier |-> IF tracked[w] = i THEN 0 ELSE tracked[w]],
                 alloc |-> [alloc EXCEPT ![i] = {}],
                 results |-> Record(i, kind),
                 job |-> [job EXCEPT ![v][i] = "over"]]
       IN  IF \A j \in Input : s.results[j] # "none"
           THEN Become(s) /\ ended' = "DONE"
           ELSE Become(Reschedule(s)) /\ UNCHANGED ended
  /\ stopped' = stopped \cup (StoppedFor(i) \ {<<v, i>>})
  /\ UNCHANGED failed

Works ==
  \E v \in Verifier, i \in Input :
    StartJob(v, i) \/ ToolStarts(v, i) \/ SetupFails(v, i) \/ FindsBug(v, i) \/ Answers(v, i)

Over == ended # "no" /\ UNCHANGED vars

Next == Works \/ Over

Spec == Init /\ [][Next]_vars

-----------------------------------------------------------------------------
(* Properties *)

Live(v, i) == job[v][i] \in {"queued", "setup", "tool"}

\* An input without a result that has been given out is worked on by somebody
\* who has not been stopped, so the algorithm never runs dry: the result "No
\* config got a result" does not occur.
InputsCovered ==
  ended = "no" =>
    /\ \E i \in Input : results[i] = "none"
    /\ \A i \in Input : results[i] = "none" =>
         \/ alloc[i] = {} /\ \A v \in Verifier : job[v][i] = "none"
         \/ \E v \in alloc[i] : Live(v, i) /\ <<v, i>> \notin stopped
    /\ \E v \in Verifier, i \in Input : results[i] = "none" /\ Live(v, i)

\* Although verifiers are handed inputs again after every answer, the busy ones
\* too, nobody starts on an input twice, or where one of its name has started.
OncePerName ==
  [][\A v \in Verifier, i \in Input :
       job[v][i] # "queued" /\ job'[v][i] = "queued" =>
         /\ job[v][i] = "none"
         /\ \A w \in Verifier \ {v} : Names[w] = Names[v] => job'[w][i] = "none"]_vars

\* The result is an ERROR, or an exception ends the workflow, only if a set-up
\* failed or somebody was stopped who worked on an input that was solved.
ErrorReasons ==
  ended \in {"ERROR", "exception"} =>
    failed # {} \/ \E p \in stopped : job[p[1]][p[2]] = "over" /\ results[p[2]] # "none"

=============================================================================
