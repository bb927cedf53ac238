------------------------------ MODULE Workflow ------------------------------
(***************************************************************************)
(* The engine of Bubaak: the main loop of bbk/workflow.py over a tree of   *)
(* tasks (bbk/task/*.py).  A task is a process (an external verifier or    *)
(* compiler), an inline task (its work is done when execute() returns, as  *)
(* SplitTask and IdentityTask do), an aggregate (several subtasks, one     *)
(* result) or a continuation (one inner task whose result decides what     *)
(* comes next).                                                            *)
(* A task may finish with REPLACE_TASK: its place in the tree is then      *)
(* taken by a task that did not exist before.                              *)
(*                                                                         *)
(* The loop is single-threaded.  What interleaves with it is the outside   *)
(* world: processes exit whenever they like, timeouts pass, and a stopped  *)
(* task may take too long to stop.                                         *)
(***************************************************************************)
EXTENDS Naturals, Sequences, SequencesExt

CONSTANTS
  Task,        \* every task object a run may create
  NoTask,      \* Python's None where a task is expected
  Root,        \* the task given to Workflow([...])
  Kind,        \* [Task -> Kinds]
  Policy,      \* what the aggregate()/finish() of an aggregate do, see Answers
  Initial,     \* [Task -> Seq(Task)]: _initial_tasks, or the inner task
  Successors,  \* [Task -> SUBSET Task]: what finish() may replace a task by
  HasTimeout,  \* the tasks constructed with timeout=...
  Missing      \* the processes whose program may turn out not to be installed

Kinds == {"process", "inline", "aggregate", "continuation"}
Policies == {"eager", "compose", "lenient", "partial", "compiler"}

\* The tasks of a sequence that run no program: what add_task puts on
\* _no_fd_tasks.
NoFd(s) ==
  LET keep[i \in 0..Len(s)] ==
        IF i = 0 THEN <<>>
        ELSE IF Kind[s[i]] # "process" THEN Append(keep[i - 1], s[i])
        ELSE keep[i - 1]
  IN  keep[Len(s)]

ASSUME TaskAssumption == NoTask \notin Task /\ Root \in Task
ASSUME PlanAssumption ==
  /\ Kind \in [Task -> Kinds]
  /\ Policy \in [Task -> Policies]
  /\ Initial \in [Task -> Seq(Task)]
  /\ Successors \in [Task -> SUBSET Task]
  /\ HasTimeout \subseteq Task
  /\ Missing \subseteq Task
\* A continuation wraps exactly one task, a process or an inline task none.
ASSUME InnerAssumption ==
  \A t \in Task : /\ Kind[t] = "continuation" => Len(Initial[t]) = 1
                  /\ Kind[t] \in {"process", "inline"} => Initial[t] = <<>>
\* A task object is handed to one constructor only, and once: nobody's initial
\* subtask is anybody else's, the root or a replacement.
ASSUME OwnerAssumption ==
  /\ \A t \in Task : IsInjective(Initial[t])
  /\ \A t, u \in Task : t # u => ToSet(Initial[t]) \cap ToSet(Initial[u]) = {}
  /\ \A t, u \in Task : ToSet(Initial[t]) \cap Successors[u] = {}
  /\ \A t \in Task : Root \notin ToSet(Initial[t]) \cup Successors[t]
\* A TimeoutWatchdog watches a task.
ASSUME WatchdogAssumption ==
  \A t \in Task : Kind[t] = "aggregate" /\ Policy[t] = "eager" => Initial[t] # <<>>

VARIABLES
  pc,        \* where the main loop is
  newTasks,  \* Workflow._new_tasks
  batch,     \* the local new_tasks the loop is starting
  noFd,      \* Workflow._no_fd_tasks
  idx,       \* the position of the iterator over _no_fd_tasks
  tasks,     \* Workflow._tasks
  created,   \* the tasks that were ever given to add_task
  started,   \* the tasks with a _start_time
  stopped,   \* the tasks with a _stopped_time
  expired,   \* the tasks whose timeout has passed
  overdue,   \* the tasks stopped more than 10 seconds ago
  parent,    \* Task._parent
  kids,      \* AggregateTask._subtasks, {ContinuationTask._task}
  outcome,   \* AggregateTask._aggregated_result, ContinuationTask._task_result
  proc,      \* ProcessTask._proc
  verdict,   \* what _main_loop returns
  error      \* the exception that left _main_loop

vars == <<pc, newTasks, batch, noFd, idx, tasks, created, started, stopped,
          expired, overdue, parent, kids, outcome, proc, verdict, error>>

Phases == {"top", "start", "nofd", "poll", "timeout", "kill", "over", "crashed"}
Outcomes == {"none", "DONE", "ERROR"}

TypeOK ==
  /\ pc \in Phases
  /\ newTasks \in Seq(Task)
  /\ batch \in Seq(Task)
  /\ noFd \in Seq(Task)
  /\ idx \in Nat \ {0}
  /\ tasks \in SUBSET Task
  /\ created \in SUBSET Task
  /\ started \in SUBSET Task
  /\ stopped \in SUBSET Task
  /\ expired \in SUBSET Task
  /\ overdue \in SUBSET Task
  /\ parent \in [Task -> Task \cup {NoTask}]
  /\ kids \in [Task -> SUBSET Task]
  /\ outcome \in [Task -> Outcomes]
  /\ proc \in [Task -> {"none", "running", "killed", "exited", "reaped"}]
  /\ verdict \in Outcomes
  /\ error \in {"none", "stopped", "missing", "noresult"}

Init ==
  /\ pc = "top"
  /\ newTasks = <<Root>>
  /\ batch = <<>>
  /\ noFd = IF Kind[Root] = "process" THEN <<>> ELSE <<Root>>
  /\ idx = 1
  /\ tasks = {}
  /\ created = {Root}
  /\ started = {} /\ stopped = {} /\ expired = {} /\ overdue = {}
  /\ parent = [t \in Task |-> NoTask]
  /\ kids = [t \in Task |-> IF Kind[t] = "continuation" THEN ToSet(Initial[t]) ELSE {}]
  /\ outcome = [t \in Task |-> "none"]
  /\ proc = [t \in Task |-> "none"]
  /\ verdict = "none"
  /\ error = "none"

-----------------------------------------------------------------------------
(* The tree *)

Closed(k, S) == \A t \in S : k[t] \subseteq S

\* The tasks that a call of stop() or kill() on the tasks of S reaches: S and
\* everything below it, the least set that holds S and is closed under kids.
Below(k, S) ==
  {u \in Task : \A C \in SUBSET Task : S \subseteq C /\ Closed(k, C) => u \in C}

\* Workflow.kill_task on the tasks of S.
Kill(k, S) ==
  [t \in Task |-> IF t \in Below(k, S) /\ proc[t] = "running" THEN "killed" ELSE proc[t]]

IsDone(t) ==
  \/ Kind[t] = "inline" /\ t \in started
  \/ Kind[t] = "aggregate" /\ kids[t] = {} /\ t \in started
  \/ Kind[t] = "continuation" /\ outcome[t] # "none"

\* The tasks that wait to be started or run.
Live == tasks \cup ToSet(newTasks) \cup ToSet(batch)

-----------------------------------------------------------------------------
(* Exceptions: bubaak's run_workflow stops and kills every task and raises. *)

\* A mutation: the exception stops the tasks but does not kill them.
CrashOnlyStops(e) ==
  /\ pc' = "crashed"
  /\ error' = e
  /\ stopped' = stopped \cup Below(kids, tasks)
  /\ overdue' = overdue \ Below(kids, tasks)
  /\ UNCHANGED <<newTasks, batch, noFd, idx, tasks, created, started, expired,
                 parent, kids, outcome, proc, verdict>>

Crash(e) ==
  /\ pc' = "crashed"
  /\ error' = e
  /\ stopped' = stopped \cup Below(kids, tasks)
  /\ overdue' = overdue \ Below(kids, tasks)
  /\ proc' = Kill(kids, tasks)
  /\ UNCHANGED <<newTasks, batch, noFd, idx, tasks, created, started, expired,
                 parent, kids, outcome, verdict>>

-----------------------------------------------------------------------------
(* while has_work(): start the new tasks *)

HasWork == tasks # {} \/ newTasks # <<>>

\* Without work left the loop returns None, None.
LoopTop ==
  /\ pc = "top"
  /\ pc' = IF HasWork THEN "start" ELSE "over"
  /\ batch' = newTasks
  /\ newTasks' = <<>>
  /\ UNCHANGED <<noFd, idx, tasks, created, started, stopped, expired, overdue,
                 parent, kids, outcome, proc, verdict, error>>

\* execute() of a task that was stopped while it was queued returns at once,
\* and a program that cannot be found leaves no process: the task is then
\* neither running nor done and _start_task raises.
StartFails ==
  /\ pc = "start" /\ batch # <<>>
  /\ \/ Head(batch) \in stopped /\ Crash("stopped")
     \/ Head(batch) \in Missing \ stopped /\ Crash("missing")

StartProcess ==
  /\ pc = "start" /\ batch # <<>>
  /\ LET t == Head(batch) IN
       /\ Kind[t] = "process"
       /\ t \notin stopped
       /\ batch' = Tail(batch)
       /\ started' = started \cup {t}
       /\ tasks' = tasks \cup {t}
       /\ proc' = [proc EXCEPT ![t] = "running"]
  /\ UNCHANGED <<pc, newTasks, noFd, idx, created, stopped, expired, overdue,
                 parent, kids, outcome, verdict, error>>

\* An aggregate adds its initial subtasks, a continuation its inner task, an
\* inline task nothing: the task becomes their parent and hands them to
\* add_task.
StartInProcess ==
  /\ pc = "start" /\ batch # <<>>
  /\ LET t    == Head(batch)
         subs == ToSet(Initial[t])
     IN
       /\ Kind[t] # "process"
       /\ t \notin stopped
       /\ batch' = Tail(batch)
       /\ started' = started \cup {t}
       /\ tasks' = tasks \cup {t}
       /\ kids' = [kids EXCEPT ![t] = subs]
       /\ parent' = [s \in Task |-> IF s \in subs THEN t ELSE parent[s]]
       /\ newTasks' = newTasks \o Initial[t]
       /\ noFd' = noFd \o NoFd(Initial[t])
       /\ created' = created \cup subs
  /\ UNCHANGED <<pc, idx, stopped, expired, overdue, outcome, proc, verdict, error>>

StartDone ==
  /\ pc = "start"
  /\ batch = <<>>
  /\ pc' = "nofd"
  /\ UNCHANGED <<newTasks, batch, noFd, idx, tasks, created, started, stopped, expired,
                 overdue, parent, kids, outcome, proc, verdict, error>>

-----------------------------------------------------------------------------
(* A task finishes: Task.finish, its listeners, Workflow._finish_task *)

Fresh == Task \ created

\* What finish() of task t may return.  "eager" is TimeoutWatchdog, "compose"
\* ParallelCompose and ComposeResults, "partial" any aggregate whose finish()
\* is the inherited one, which raises when there is no result, "lenient" one
\* whose finish() fills in a result, "compiler" CompilerTask, whose finish()
\* never looks at the aggregated result.
Returns(t) ==
  CASE Kind[t] = "continuation" /\ t \in stopped -> {"ERROR"}
    [] Kind[t] = "aggregate" /\ Policy[t] = "lenient" /\ outcome[t] = "none" -> {"DONE"}
    [] Kind[t] = "aggregate" /\ Policy[t] # "compiler" -> {outcome[t]}
    [] OTHER -> {"DONE", "ERROR", "REPLACE_TASK"}

\* What aggregate() of task p may answer to the result r of its subtask t.
Answers(p, t, r) ==
  CASE Policy[p] = "eager" -> {r}
    [] Policy[p] = "compose" ->
         IF r = "DONE" /\ kids[p] # {t} THEN {"none", r} ELSE {r}
    [] Policy[p] = "compiler" -> IF r = "DONE" THEN {"none"} ELSE {r}
    [] OTHER -> IF r = "DONE" THEN {"none", r} ELSE {"none"}

HasParent(t, k) == parent[t] # NoTask /\ Kind[parent[t]] = k

\* _subtask_finished asks aggregate() only while the parent is undecided.
Asks(t, r) ==
  HasParent(t, "aggregate") /\ outcome[parent[t]] = "none" /\ r # "REPLACE_TASK"

\* A mutation: a stopped task is replaced like any other.
ReplacesStopped(t, r) == r = "REPLACE_TASK"

\* The replacement is dropped when the finished task had been stopped.
Replaces(t, r) == r = "REPLACE_TASK" /\ t \notin stopped

IsFinal(t, r) == parent[t] = NoTask /\ r # "REPLACE_TASK"

\* An assertion of the listeners, of replace_subtask or of add_subtask fails,
\* or _subtasks.remove raises.
Broken(t, r) ==
  \/ parent[t] # NoTask /\ t \notin kids[parent[t]]
  \/ HasParent(t, "continuation") /\ outcome[parent[t]] # "none"
  \/ HasParent(t, "aggregate") /\ Replaces(t, r) /\ outcome[parent[t]] # "none"

\* A mutation: the replacement is queued, but its parent is not told.
KidsForgotten(t, r, n) ==
  [q \in Task |->
     IF q = t /\ Kind[t] = "continuation" /\ t \notin stopped THEN {}
     ELSE IF q # parent[t] THEN kids[q]
     ELSE IF Kind[q] = "aggregate" THEN kids[q] \ {t} ELSE kids[q]]

\* The tree after t finished with r: an aggregate forgets t, a replacement n
\* takes its place, and a continuation that was not stopped drops its task.
KidsAfter(t, r, n) ==
  [q \in Task |->
     IF q = t /\ Kind[t] = "continuation" /\ t \notin stopped THEN {}
     ELSE IF q # parent[t] THEN kids[q]
     ELSE IF Kind[q] = "aggregate"
          THEN (kids[q] \ {t}) \cup (IF Replaces(t, r) THEN {n} ELSE {})
          ELSE IF Replaces(t, r) THEN {n} ELSE kids[q]]

\* Mutations: a continuation takes REPLACE_TASK for a result; it listens only
\* to tasks that finish without an error.
OutcomeOfReplaced(t, r, a) ==
  [q \in Task |->
     IF q # parent[t] THEN outcome[q]
     ELSE IF Kind[q] = "continuation" THEN r
     ELSE IF Asks(t, r) THEN a ELSE outcome[q]]
OutcomeIfDone(t, r, a) ==
  [q \in Task |->
     IF q # parent[t] \/ r = "REPLACE_TASK" THEN outcome[q]
     ELSE IF Kind[q] = "continuation" THEN (IF r = "DONE" THEN r ELSE "none")
     ELSE IF Asks(t, r) THEN a ELSE outcome[q]]

\* The answers of the listeners: a is what aggregate() returned.
OutcomeAfter(t, r, a) ==
  [q \in Task |->
     IF q # parent[t] \/ r = "REPLACE_TASK" THEN outcome[q]
     ELSE IF Kind[q] = "continuation" THEN r
     ELSE IF Asks(t, r) THEN a ELSE outcome[q]]

\* Who is stopped: an aggregate that has just got its result stops itself with
\* the subtasks it has left; a final result stops the whole workflow.
StoppedBy(t, r, a) ==
  IF Asks(t, r) /\ a # "none" THEN {parent[t]}
  ELSE IF IsFinal(t, r) THEN tasks \ {t}
  ELSE {}

Finish(t, r, n, a, next) ==
  /\ ~Broken(t, r)
  /\ IF Replaces(t, r) THEN n \in Successors[t] \cap Fresh ELSE n = NoTask
  /\ IF Asks(t, r) THEN a \in Answers(parent[t], t, r) ELSE a = "none"
  /\ kids' = KidsAfter(t, r, n)
  /\ outcome' = OutcomeAfter(t, r, a)
  /\ LET hit == Below(kids', StoppedBy(t, r, a)) IN
       /\ stopped' = stopped \cup hit
       /\ overdue' = overdue \ hit
  /\ parent' = [s \in Task |-> IF s = n THEN parent[t] ELSE parent[s]]
  /\ created' = IF n = NoTask THEN created ELSE created \cup {n}
  /\ newTasks' = IF n = NoTask THEN newTasks ELSE Append(newTasks, n)
  /\ tasks' = tasks \ {t}
  /\ pc' = IF IsFinal(t, r) THEN "over" ELSE next
  /\ verdict' = IF IsFinal(t, r) THEN r ELSE verdict
  /\ UNCHANGED <<batch, started, expired, error>>

\* A task without replacements left never asks for one.
MayReturn(t) ==
  IF Successors[t] \cap Fresh = {} THEN Returns(t) \ {"REPLACE_TASK"} ELSE Returns(t)

-----------------------------------------------------------------------------
(* for task in self._no_fd_tasks *)

ScanSkip ==
  /\ pc = "nofd"
  /\ idx <= Len(noFd)
  /\ ~IsDone(noFd[idx])
  /\ idx' = idx + 1
  /\ UNCHANGED <<pc, newTasks, batch, noFd, tasks, created, started, stopped, expired,
                 overdue, parent, kids, outcome, proc, verdict, error>>

\* The finished task is taken out of the list that is being iterated over, so
\* the iterator jumps over the task after it.  A replacement that runs no
\* program is appended to the same list.
ScanFinish ==
  /\ pc = "nofd"
  /\ idx <= Len(noFd)
  /\ LET t == noFd[idx] IN
       /\ IsDone(t)
       /\ t \in tasks
       /\ \E r \in MayReturn(t) \ {"none"}, n \in Fresh \cup {NoTask}, a \in Outcomes :
            /\ Finish(t, r, n, a, "nofd")
            /\ noFd' = RemoveAt(IF n # NoTask /\ Kind[n] # "process"
                                THEN Append(noFd, n) ELSE noFd, idx)
  /\ idx' = idx + 1
  /\ UNCHANGED proc

\* finish() of an aggregate that never got a result.
ScanNoResult ==
  /\ pc = "nofd"
  /\ idx <= Len(noFd)
  /\ IsDone(noFd[idx])
  /\ "none" \in Returns(noFd[idx])
  /\ Crash("noresult")

ScanDone ==
  /\ pc = "nofd"
  /\ idx > Len(noFd)
  /\ pc' = "poll"
  /\ idx' = 1
  /\ UNCHANGED <<newTasks, batch, noFd, tasks, created, started, stopped, expired,
                 overdue, parent, kids, outcome, proc, verdict, error>>

-----------------------------------------------------------------------------
(* poller.poll: one hung-up process is finished per turn of the loop *)

HungUp == {t \in tasks : proc[t] = "exited"}

PollIdle ==
  /\ pc = "poll"
  /\ HungUp = {}
  /\ pc' = "timeout"
  /\ UNCHANGED <<newTasks, batch, noFd, idx, tasks, created, started, stopped, expired,
                 overdue, parent, kids, outcome, proc, verdict, error>>

PollFinish ==
  /\ pc = "poll"
  /\ \E t \in HungUp, n \in Fresh \cup {NoTask}, a \in Outcomes :
       \E r \in MayReturn(t) :
         /\ Finish(t, r, n, a, "timeout")
         /\ proc' = [proc EXCEPT ![t] = "reaped"]
         /\ noFd' = IF n # NoTask /\ Kind[n] # "process" THEN Append(noFd, n) ELSE noFd
  /\ UNCHANGED idx

-----------------------------------------------------------------------------
(* Timeouts and tasks that take too long to stop *)

\* A mutation: stop() is not passed on to the subtasks.
CheckTimeoutsShallow ==
  /\ pc = "timeout"
  /\ stopped' = stopped \cup (tasks \cap expired)
  /\ pc' = "kill"
  /\ UNCHANGED <<newTasks, batch, noFd, idx, tasks, created, started, expired, overdue,
                 parent, kids, outcome, proc, verdict, error>>

\* The faked result TIMEOUT reaches neither the task's listeners nor the
\* caller of the loop: the task and everything below it is stopped, no more.
CheckTimeouts ==
  /\ pc = "timeout"
  /\ LET hit == Below(kids, (tasks \cap expired) \ stopped) IN
       /\ stopped' = stopped \cup hit
       /\ overdue' = overdue \ hit
  /\ pc' = "kill"
  /\ UNCHANGED <<newTasks, batch, noFd, idx, tasks, created, started, expired,
                 parent, kids, outcome, proc, verdict, error>>

\* A mutation: a task that takes too long to stop is only stopped again.
CheckStoppedNoKill ==
  /\ pc = "kill"
  /\ LET late == tasks \cap stopped \cap overdue IN
       /\ stopped' = stopped \cup Below(kids, late)
       /\ overdue' = overdue \ Below(kids, late)
  /\ pc' = "top"
  /\ UNCHANGED <<newTasks, batch, noFd, idx, tasks, created, started, expired,
                 parent, kids, outcome, proc, verdict, error>>

\* Stopping again renews the time of the stop, so the next kill is 10 s away.
CheckStopped ==
  /\ pc = "kill"
  /\ LET late == tasks \cap stopped \cap overdue IN
       /\ stopped' = stopped \cup Below(kids, late)
       /\ overdue' = overdue \ Below(kids, late)
       /\ proc' = Kill(kids, late)
  /\ pc' = "top"
  /\ UNCHANGED <<newTasks, batch, noFd, idx, tasks, created, started, expired,
                 parent, kids, outcome, verdict, error>>

-----------------------------------------------------------------------------
(* The world outside; the clock is read at the top of the loop *)

Expire(t) ==
  /\ pc = "top"
  /\ t \in (tasks \cap HasTimeout) \ expired
  /\ expired' = expired \cup {t}
  /\ UNCHANGED <<pc, newTasks, batch, noFd, idx, tasks, created, started, stopped,
                 overdue, parent, kids, outcome, proc, verdict, error>>

StopTakesLong(t) ==
  /\ pc = "top"
  /\ t \in (tasks \cap stopped) \ overdue
  /\ overdue' = overdue \cup {t}
  /\ UNCHANGED <<pc, newTasks, batch, noFd, idx, tasks, created, started, stopped,
                 expired, parent, kids, outcome, proc, verdict, error>>

Exit(t) ==
  /\ pc \notin {"over", "crashed"}
  /\ proc[t] \in {"running", "killed"}
  /\ proc' = [proc EXCEPT ![t] = "exited"]
  /\ UNCHANGED <<pc, newTasks, batch, noFd, idx, tasks, created, started, stopped,
                 expired, overdue, parent, kids, outcome, verdict, error>>

Stutter == pc \in {"over", "crashed"} /\ UNCHANGED vars

MainLoop ==
  \/ LoopTop
  \/ StartFails \/ StartProcess \/ StartInProcess \/ StartDone
  \/ ScanSkip \/ ScanFinish \/ ScanNoResult \/ ScanDone
  \/ PollIdle \/ PollFinish
  \/ CheckTimeouts \/ CheckStopped

Next ==
  \/ MainLoop
  \/ \E t \in Task : Expire(t) \/ StopTakesLong(t) \/ Exit(t)
  \/ Stutter

Spec == Init /\ [][Next]_vars

\* The loop always goes on (poll has a timeout), some killed process dies, and
\* the clock runs: as long as a timeout has not passed one passes, and as long
\* as a stopped task is not overdue one becomes overdue.
Fairness ==
  /\ WF_vars(MainLoop)
  /\ WF_vars(\E t \in Task : proc[t] = "killed" /\ Exit(t))
  /\ SF_vars(\E t \in Task : Expire(t))
  /\ SF_vars(\E t \in Task : StopTakesLong(t))

FairSpec == Spec /\ Fairness

-----------------------------------------------------------------------------
(* Properties *)

\* Nothing runs below a stopped task: whatever a stopped task waits for, or
\* will wait for, is stopped too.  This is why a timeout of the watchdog ends
\* a whole workflow although replacements keep arriving in it.
StopReachesSubtree == Closed(kids, stopped)

\* The tree of tasks is consistent.  A task that waits or runs is known to its
\* parent, and the parent waits for it: it is running and has not been given a
\* result by it already.  And no assertion of the engine about the tree fails:
\* set_parent finds no earlier parent, replace_subtask and the listeners find the
\* task they look for, nothing is added to a decided aggregate, remove_task and
\* stop_task know their task.
TreeConsistent ==
  /\ \A t \in Live : parent[t] # NoTask =>
       /\ t \in kids[parent[t]]
       /\ parent[t] \in tasks
       /\ Kind[parent[t]] = "continuation" => outcome[parent[t]] = "none"
  /\ pc = "start" /\ batch # <<>> =>
       \A s \in ToSet(Initial[Head(batch)]) : parent[s] = NoTask
  /\ pc = "nofd" /\ idx <= Len(noFd) /\ IsDone(noFd[idx]) =>
       /\ noFd[idx] \in tasks
       /\ \A r \in MayReturn(noFd[idx]) \ {"none"} : ~Broken(noFd[idx], r)
  /\ pc = "poll" => \A t \in HungUp : \A r \in MayReturn(t) : ~Broken(t, r)

\* A continuation is left waiting for a task that is gone only when that task
\* had been stopped: no other result is ever lost.
OnlyStoppedResultsLost ==
  \A t \in tasks :
    (Kind[t] = "continuation" /\ outcome[t] = "none" /\ kids[t] \cap Live = {})
      => kids[t] \subseteq stopped

\* The loop is left cleanly, by a result or by an exception: no process is left
\* that was not told to stop, and the exception is that of a TimeoutWatchdog
\* without a result only when its task was stopped on its own and the replacement
\* of that task was dropped, since otherwise it returns the first result it gets.
CleanEnd ==
  /\ pc \in {"over", "crashed"} =>
       \A t \in Task : proc[t] = "running" => t \in stopped /\ pc = "over"
  /\ error = "noresult" /\ Policy[noFd[idx]] = "eager" =>
       \E t \in (started \cap stopped) \ tasks : parent[t] = noFd[idx]

\* No new task is put below a task that was stopped.
NoWorkForStopped ==
  [][\A n \in created' \ created : parent'[n] \notin stopped]_vars

\* With a timeout on the root, the workflow comes to an end.
EventuallyOver == <>(pc \in {"over", "crashed"})

\* task.py says of kill(): "Killing a task must cause an action that makes
\* is_done _immediately_ return True".  Then a task that is killed because it
\* takes too long to stop does not stay in the workflow.
KilledTasksEnd ==
  \A t \in Task : (t \in tasks \cap overdue) ~> (t \notin tasks \/ pc \in {"over", "crashed"})

=============================================================================
