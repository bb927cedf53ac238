----------------------------- MODULE SvcompTools -----------------------------
(***************************************************************************)
(* Getting a tool of SV-COMP (GetSVCompTool in bbk/tools/svcomptool.py).    *)
(* The file of the property and an archive are downloaded into a cache, the *)
(* archive is unzipped, the archive in it too, and what is in that is moved *)
(* to the directory of the tool.  Every verification task of a run has a    *)
(* getter of its own, all of them share the cache, and the cache is still   *)
(* there in the next run of Bubaak.                                         *)
(*                                                                         *)
(* Actions are what happens to one process of a getter, with the callbacks  *)
(* that run then: aggregate(), finish_cb, unzip_cb and move_unzipped_file.  *)
(***************************************************************************)
EXTENDS Naturals, FiniteSets

CONSTANTS
  Getter, \* the getters of a run, for one tool and one property
  MaxRuns \* bound: runs of Bubaak

ASSUME RunsAssumption == MaxRuns \in Nat \ {0}

VARIABLES
  \* The cache: what a file is, and who opened it last.
  prp, zip,   \* "none", "broken", "whole"
  prpWriter, zipWriter,
  dir,        \* the directory of the tool: "none", "tool", "nested" when the
              \* tool has been moved there once more
  \* This run.
  state,      \* of a getter: "new", "running", "DONE", "ERROR"
  prpJob,     \* its download of the property: "none", "queued", "running",
              \* and "writing" from its first data on
  zipJob,     \* its way to the tool: "none", "queued", "download", "writing",
              \* "unzip", "inner", or "stopped" before its next process starts
  aggregated, \* the getters with an _aggregated_result
  stopped,    \* the getters that a timeout has stopped
  over,       \* has the run ended?
  raised,     \* by which exception: "none", "assertion", "other"
  run,        \* the number of the run
  \* History: never read by the code.
  trouble,    \* what went wrong: a "failure", a "crash", an "overlap"
  innerFailed \* getters whose second archive was not unzipped

cache == <<prp, zip, prpWriter, zipWriter, dir>>
jobs == <<state, prpJob, zipJob, aggregated, stopped>>
ends == <<over, raised, run>>
history == <<trouble, innerFailed>>
vars == <<cache, jobs, ends, history>>

Contents == {"none", "broken", "whole"}
Nobody == {}

TypeOK ==
  /\ prp \in Contents /\ zip \in Contents
  /\ prpWriter \in SUBSET Getter /\ zipWriter \in SUBSET Getter
  /\ Cardinality(prpWriter) <= 1 /\ Cardinality(zipWriter) <= 1
  /\ dir \in {"none", "tool", "nested"}
  /\ state \in [Getter -> {"new", "running", "DONE", "ERROR"}]
  /\ prpJob \in [Getter -> {"none", "queued", "running", "writing"}]
  /\ zipJob \in [Getter -> {"none", "queued", "download", "writing", "unzip", "inner",
                           "stopped"}]
  /\ aggregated \subseteq Getter /\ stopped \subseteq Getter
  /\ over \in BOOLEAN /\ raised \in {"none", "assertion", "other"} /\ run \in 1..MaxRuns
  /\ trouble \subseteq {"failure", "crash", "overlap"} /\ innerFailed \subseteq Getter

NewRun ==
  /\ state' = [g \in Getter |-> "new"]
  /\ prpJob' = [g \in Getter |-> "none"] /\ zipJob' = [g \in Getter |-> "none"]
  /\ aggregated' = {} /\ stopped' = {} /\ over' = FALSE /\ raised' = "none"
  /\ innerFailed' = {}

Init ==
  /\ prp = "none" /\ zip = "none" /\ prpWriter = Nobody /\ zipWriter = Nobody /\ dir = "none"
  /\ state = [g \in Getter |-> "new"]
  /\ prpJob = [g \in Getter |-> "none"] /\ zipJob = [g \in Getter |-> "none"]
  /\ aggregated = {} /\ stopped = {} /\ over = FALSE /\ raised = "none"
  /\ run = 1 /\ trouble = {} /\ innerFailed = {}

-----------------------------------------------------------------------------
(* Starting *)

Busy(g) == prpJob[g] # "none" \/ zipJob[g] # "none"

Raise(what) == over' = TRUE /\ raised' = what /\ UNCHANGED run

Failure == trouble' = trouble \cup {"failure"}

Exists(file) == file # "none"

\* A mutation: the archive is downloaded again.
ExecuteDownloads(g) ==
  /\ ~over /\ state[g] = "new"
  /\ state' = [state EXCEPT ![g] = "running"]
  /\ prpJob' = [prpJob EXCEPT ![g] = IF Exists(prp) THEN "none" ELSE "queued"]
  /\ zipJob' = [zipJob EXCEPT ![g] = IF dir # "none" THEN "none" ELSE "queued"]
  /\ trouble' = trouble \cup IF \E h \in Getter \ {g} : Busy(h) THEN {"overlap"} ELSE {}
  /\ UNCHANGED <<cache, aggregated, stopped, ends, innerFailed>>

\* execute(): what is in the cache by name is not got again.
Execute(g) ==
  /\ ~over /\ state[g] = "new"
  /\ state' = [state EXCEPT ![g] = "running"]
  /\ prpJob' = [prpJob EXCEPT ![g] = IF Exists(prp) THEN "none" ELSE "queued"]
  /\ zipJob' = [zipJob EXCEPT ![g] = CASE dir # "none" -> "none"
                                       [] dir = "none" /\ Exists(zip) -> "unzip"
                                       [] OTHER -> "queued"]
  /\ trouble' = trouble \cup IF \E h \in Getter \ {g} : Busy(h) THEN {"overlap"} ELSE {}
  /\ UNCHANGED <<cache, aggregated, stopped, ends, innerFailed>>

\* Asking for the address of the archive, inside execute().
ExecuteRaises(g) ==
  /\ ~over /\ state[g] = "new" /\ dir = "none" /\ ~Exists(zip)
  /\ Raise("other") /\ Failure
  /\ UNCHANGED <<cache, jobs, innerFailed>>

\* The downloads begin.  A task that has been stopped in the queue raises.
PrpStarts(g) ==
  /\ ~over /\ prpJob[g] = "queued"
  /\ IF g \in stopped \cup aggregated
     THEN Raise("other") /\ UNCHANGED prpJob
     ELSE prpJob' = [prpJob EXCEPT ![g] = "running"] /\ UNCHANGED ends
  /\ UNCHANGED <<cache, state, zipJob, aggregated, stopped, history>>

ZipStarts(g) ==
  /\ ~over /\ zipJob[g] = "queued"
  /\ IF g \in stopped \cup aggregated
     THEN Raise("other") /\ UNCHANGED zipJob
     ELSE zipJob' = [zipJob EXCEPT ![g] = "download"] /\ UNCHANGED ends
  /\ UNCHANGED <<cache, state, prpJob, aggregated, stopped, history>>

\* With its first data the program creates or truncates the file.
PrpOpens(g) ==
  /\ ~over /\ prpJob[g] = "running"
  /\ prpJob' = [prpJob EXCEPT ![g] = "writing"]
  /\ prp' = "broken" /\ prpWriter' = {g}
  /\ UNCHANGED <<zip, zipWriter, dir, state, zipJob, aggregated, stopped, ends, history>>

ZipOpens(g) ==
  /\ ~over /\ zipJob[g] = "download"
  /\ zipJob' = [zipJob EXCEPT ![g] = "writing"]
  /\ zip' = "broken" /\ zipWriter' = {g}
  /\ UNCHANGED <<prp, prpWriter, dir, state, prpJob, aggregated, stopped, ends, history>>

-----------------------------------------------------------------------------
(* The processes end *)

\* Who opened the file last has written all of it when it is done.
PrpDone(g) ==
  /\ ~over /\ prpJob[g] = "writing"
  /\ prpJob' = [prpJob EXCEPT ![g] = "none"]
  /\ prp' = IF prpWriter = {g} THEN "whole" ELSE prp
  /\ UNCHANGED <<zip, prpWriter, zipWriter, dir, state, zipJob, aggregated, stopped, ends,
                 history>>

\* aggregate() has its result, and stops the other process.  A download that fails
\* before its first data leaves no file.
PrpFails(g) ==
  /\ ~over /\ prpJob[g] \in {"running", "writing"}
  /\ prpJob' = [prpJob EXCEPT ![g] = "none"]
  /\ aggregated' = aggregated \cup {g}
  /\ Failure
  /\ UNCHANGED <<cache, state, zipJob, stopped, ends, innerFailed>>

\* add_subtask(): an assertion that there is no result yet.
AddSubtask(g, job) ==
  IF g \in aggregated
  THEN Raise("assertion") /\ UNCHANGED zipJob
  ELSE zipJob' = [zipJob EXCEPT ![g] = job] /\ UNCHANGED ends

\* finish_cb: the archive is unzipped next.
ZipDone(g) ==
  /\ ~over /\ zipJob[g] = "writing"
  /\ zip' = IF zipWriter = {g} THEN "whole" ELSE zip
  /\ AddSubtask(g, "unzip")
  /\ UNCHANGED <<prp, prpWriter, zipWriter, dir, state, prpJob, aggregated, stopped, history>>

\* aggregate() has its result, then finish_cb adds a subtask all the same.
ZipFails(g) ==
  /\ ~over /\ zipJob[g] \in {"download", "writing"}
  /\ aggregated' = aggregated \cup {g}
  /\ Raise("assertion") /\ Failure
  /\ UNCHANGED <<cache, state, prpJob, zipJob, stopped, innerFailed>>

\* unzip_cb: the archive in the archive is unzipped next.
UnzipDone(g) ==
  /\ ~over /\ zipJob[g] = "unzip" /\ zip = "whole"
  /\ AddSubtask(g, "inner")
  /\ UNCHANGED <<cache, state, prpJob, aggregated, stopped, history>>

\* Without an output unzip_cb looks for an archive in the working directory.  If
\* there is none it complains about the structure of what was downloaded.  If there
\* is one it adds a subtask; the result comes after that (this listener is older
\* than that of the aggregate) and stops the subtask before it starts.
UnzipFails(g) ==
  /\ ~over /\ zipJob[g] = "unzip"
  /\ trouble' = IF zip = "whole" THEN trouble \cup {"failure"} ELSE trouble
  /\ \/ Raise("other") /\ UNCHANGED <<zipJob, aggregated>>
     \/ AddSubtask(g, "stopped") /\ aggregated' = aggregated \cup {g}
  /\ UNCHANGED <<cache, state, prpJob, stopped, innerFailed>>

\* A mutation: the directory of the tool is made before something is moved to it.
MovedInto == "nested"

\* Moving to a directory that exists moves into it; there the second tool of the
\* same name is one too many.
Moved == IF dir = "none" THEN "tool" ELSE "nested"

InnerDone(g) ==
  /\ ~over /\ zipJob[g] = "inner" /\ g \notin stopped \cup aggregated
  /\ IF dir = "nested"
     THEN Raise("other") /\ UNCHANGED <<zipJob, dir>>
     ELSE zipJob' = [zipJob EXCEPT ![g] = "none"] /\ dir' = Moved /\ UNCHANGED ends
  /\ UNCHANGED <<prp, zip, prpWriter, zipWriter, state, prpJob, aggregated, stopped, history>>

InnerFails(g) ==
  /\ ~over /\ zipJob[g] = "inner"
  /\ zipJob' = [zipJob EXCEPT ![g] = "none"]
  /\ aggregated' = aggregated \cup {g}
  /\ innerFailed' = innerFailed \cup {g}
  /\ Failure
  /\ UNCHANGED <<cache, state, prpJob, stopped, ends>>

\* A way to the tool that was stopped in the queue, before its first process ran.
StoppedInQueue(g) ==
  /\ ~over
  /\ \/ zipJob[g] = "stopped"
     \/ zipJob[g] \in {"unzip", "inner"} /\ g \in stopped \cup aggregated
  /\ Raise("other")
  /\ UNCHANGED <<cache, jobs, history>>

-----------------------------------------------------------------------------
(* Results *)

\* A mutation: finish() without a return when there is no tool.
FinishNothing(g) ==
  /\ ~over /\ state[g] = "running" /\ ~Busy(g)
  /\ state' = [state EXCEPT ![g] = IF dir = "none" THEN "none"
                                   ELSE IF g \in stopped THEN "ERROR" ELSE "DONE"]
  /\ UNCHANGED <<cache, prpJob, zipJob, aggregated, stopped, ends, history>>

\* finish(), and the tool is started: it asserts that there is a file of the
\* property.  A continuation that was stopped starts nothing.
Finish(g) ==
  /\ ~over /\ state[g] = "running" /\ ~Busy(g)
  /\ IF dir # "none" /\ g \notin stopped /\ ~Exists(prp)
     THEN Raise("assertion") /\ UNCHANGED state
     ELSE /\ state' = [state EXCEPT ![g] = IF dir = "none" \/ g \in stopped THEN "ERROR"
                                           ELSE "DONE"]
          /\ UNCHANGED ends
  /\ UNCHANGED <<cache, prpJob, zipJob, aggregated, stopped, history>>

\* The watchdog of the verifier: processes are stopped and fail.
Timeout(g) ==
  /\ ~over /\ state[g] = "running" /\ g \notin stopped
  /\ stopped' = stopped \cup {g}
  /\ Failure
  /\ UNCHANGED <<cache, state, prpJob, zipJob, aggregated, ends, innerFailed>>

\* Every verification has its tool or an error.
RunEnds ==
  /\ ~over /\ \A g \in Getter : state[g] \in {"DONE", "ERROR"}
  /\ over' = TRUE
  /\ UNCHANGED <<cache, jobs, raised, run, history>>

\* Bubaak is killed, or another getter or tool ends the run.  Assumed of the
\* environment: its processes end with it.
Killed ==
  /\ ~over
  /\ over' = TRUE
  /\ trouble' = trouble \cup {"crash"}
  /\ UNCHANGED <<cache, jobs, raised, run, innerFailed>>

\* The next run: the cache is as it was left.
Restart ==
  /\ over /\ run < MaxRuns
  /\ NewRun
  /\ run' = run + 1
  /\ prpWriter' = Nobody /\ zipWriter' = Nobody
  /\ UNCHANGED <<prp, zip, dir, trouble>>

Works ==
  \/ \E g \in Getter :
       \/ Execute(g) \/ ExecuteRaises(g) \/ PrpStarts(g) \/ ZipStarts(g)
       \/ PrpOpens(g) \/ ZipOpens(g)
       \/ PrpDone(g) \/ PrpFails(g) \/ ZipDone(g) \/ ZipFails(g)
       \/ UnzipDone(g) \/ UnzipFails(g) \/ InnerDone(g) \/ InnerFails(g)
       \/ StoppedInQueue(g) \/ Finish(g)
  \/ RunEnds

Next ==
  \/ Works \/ Killed \/ Restart \/ \E g \in Getter : Timeout(g)
  \/ over /\ run = MaxRuns /\ UNCHANGED vars

Spec == Init /\ [][Next]_vars

-----------------------------------------------------------------------------
(* Properties *)

\* Without an exception, a getter fails only if it was stopped or if it could
\* not unzip the second archive: no other failure leads to the result ERROR.
ErrorReasons ==
  \A g \in Getter : state[g] = "ERROR" => g \in innerFailed \cup stopped

\* A getter that is done has the tool and the whole file of the property, none
\* has an error and there is no exception, except after a failure, a timeout
\* or a crash, in this or in an earlier run, or when getters overlap.  The tool
\* is moved into itself only when getters overlapped, whatever fails or crashes;
\* and of the failures only few are the result ERROR that the code provides.
TroubleHasReasons ==
  /\ trouble = {} =>
       /\ raised = "none"
       /\ \A g \in Getter : state[g] \in {"DONE", "ERROR"} =>
            state[g] = "DONE" /\ dir = "tool" /\ prp = "whole"
  /\ dir = "nested" => "overlap" \in trouble
  /\ ErrorReasons

\* When a run leaves a broken archive and no tool behind, no later run ever has
\* the tool: the archive is there by name, so it is not downloaded again.
BrokenCacheIsFinal ==
  [](over /\ zip = "broken" /\ dir = "none" => [](dir = "none"))

=============================================================================
