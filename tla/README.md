# Bubaak: models, checks and proofs

Bubaak runs program verifiers (KLEE, SlowBeast, CBMC, CPAchecker and other tools of
SV-COMP), lets them cooperate, and turns what they print into one verdict. It is a
single-threaded Python program around a loop that starts processes, reads their
output, and manages a tree of tasks. This directory holds TLA+ models of that program,
TLC configurations that check them on small instances, and proofs for TLAPS.

Paths below are relative to the root of the repository (`src/` in `PROJECT.json`).

## 1. Inventory

### Components

| component | files | state it keeps | operations | modelled by |
|---|---|---|---|---|
| workflow engine | `bbk/workflow.py`, `bbk/task/*.py`, `bbk/poller.py`, `bubaak` | `_new_tasks`, `_no_fd_tasks`, `_tasks`; per task its parent, subtasks, result, start and stop times, process | start, finish, replace, stop, kill, time out a task; leave the loop | `Workflow` |
| output of tools | `bbk/workflow.py` (`read_fd`, `finish_fd_task`), `bbk/task/processtask.py` | pipe, buffer of Python's reader, `_partial_output` | read a line, hang up, drain | `Output` |
| compilation | `bbk/compiler.py`, `CompileAndCheck` in `workflows/svcomp.py` | `_output_files`, `_warnings`, one process per C file, the linker | execute, collect, stop, finish, link | `Compiler` |
| verdicts | `bbk/tools/klee.py`, `bbk/tools/slowbeast.py`, `workflows/svcomp.py`, `bubaak` (`process_result`), `svcomp/helpers.py` | what each parser remembers; which stage of the SV-COMP workflow runs; the final result | report, give up a path, end, start the next tools, print | `Verdicts`, `SvcompRun`, `Svcomp` |
| dynamic splitting | `workflows/flows/split.py`, `workflows/splitflows.py` | `_open_tasks`, `_executed_tasks`, `_results`, `_steps`; results in flight through three levels of tasks | check, split, collect, next round, stop | `DynamicSplitting`, abstractly `ProgramSplitting` |
| splitting workflow, merge operators | `workflows/splitflows.py`, `workflows/flows/split.py` (from line 454) | the stage; `worklist` and `merge_results` of the tree of splits; the exported program | split, merge two results, export, run the backup verifiers | `SplitFlow` over `ProgramSplitting` |
| composition of verifiers | `workflows/flows/verifiers.py`, `bbk/task/aggregatetask.py` | results of the members, position in a chain | aggregate, continue, give up | `SplitFlow` |
| work stealing | `workflows/flows/workstealing.py` | `_running_verifiers`, `_running_alloc`, `_results` | give out, steal, answer, stop | `WorkStealing` |
| getting SV-COMP tools | `bbk/tools/svcomptool.py`, `workflows/svcomptool.py` | the cache on disk; per getter its downloads and results | look up, download, unzip, move, run | `SvcompTools` |
| scheduler (Bubaak-Split at SV-COMP) | `workflows/scheduler.py`, `bbk/tools/klee.py` and `slowbeast.py` in their use there | which task runs, the verdict to be validated | weak check, split, backup, validation of a violation | `SvcompRun`, `Scheduler` |
| merging C text | `program-splitter/merge.py`, `pycpa/merge.py` | none | text to text | what it must do: `MergeFn` in `SplitFlow` |
| program splitter and its CPA framework | `program-splitter/split.py`, `cpasplit.py`, `program-splitter/pycpa/pycpa/*` | reached set, waitlist | choose a node, split | what it must do: `SplitAssumption`, `TreeAssumption` |
| other tools, other workflows | `bbk/tools/cbmc.py`, `cpachecker.py` ..., `workflows/default.py`, `svcomp24.py` ... | as KLEE, SlowBeast and SV-COMP | parse; construct tasks | not modelled (section 7) |
| witnesses, command line, environment, debugging output | `svcomp/*witness*`, `bbk/cmdline.py`, `bbk/env.py`, `bbk/dbg.py` ... | none that control depends on | text | not modelled |
| vendored libraries | `lib/`, `program-splitter/lib/` | | | not modelled |

### How they interact

A workflow builds a task and hands it to `Workflow`. Every component above the engine is
a set of task classes, and everything it does happens in four callbacks the engine makes:
`execute()` when a task is started, `finish()` when it is done, `aggregate()` and
`continuation()` when a task below it has finished. A task answers with DONE or ERROR, or
asks to be replaced by another task (REPLACE_TASK). The engine tells parsers about lines
of output, and parents about results, through listeners. Components share nothing but the
tree of tasks and the results that travel up in it, and nothing is persisted, with one
exception: the cache of downloaded tools, which getters of one run and of several runs
read and write without coordination.

### What is hard

* Callbacks change the lists that the loop iterates over (`workflow.py:173`), while a
  task is stopped, replaced and finished from three places of the loop.
* Processes exit whenever they like, tools are interrupted between two lines, timeouts
  pass during everything else, and a result that comes after a stop is partly ignored.
* A result travels through several tasks that are replaced meanwhile: something may be
  lost, counted twice, or waited for in vain.
* Answers about a part of the program are put together to one about the whole of it, some
  of it verified, some merged again, some handed to another verifier.
* Two streams of a process are read in portions that do not respect lines or characters.
* Reservations of a tool (a path that was given up, an unsupported float) must not be
  forgotten on the way to the word "true".
* The cache is looked up, written and unzipped in steps between which anything happens.

The list of hazards in `PROJECT.json` names the lines.

### What makes each part correct

* Engine: the tree stays consistent, a stop reaches everything below, no task is started
  twice, results are lost only after a stop, a run with a timeout ends, and no
  process is left that was not told to stop.
* Output: every finished line reaches the parser once, in order; what can be lost or
  raise is characterised.
* Compilation: a program handed to the verifiers contains all inputs; the linker gets
  all of them.
* Verdicts: "true" and "false(p)" are right as long as the tools are; a violation that
  was seen is not overridden; a missing verdict has one of a few reasons.
* Splitting: verified programs and residuals together cover the input; nothing is
  analysed twice; limits on width, parallelism and steps hold, and so the algorithm ends.
* Splitting workflow: merging loses no execution and reaches the root; the verdict on the
  whole is right; results that were found are used.
* Work stealing: no input is forgotten; none is given to the same kind of verifier twice;
  an ERROR has a reason.
* Tools: without trouble every getter has its tool; which trouble ends how is
  characterised.
* Scheduler: a violation that is printed was confirmed by a second run; how one is lost
  is characterised.

## 2. The modules and the code

`PROJECT.json` maps every definition to its lines. In outline:

**`Workflow`** is `_main_loop` with its phases as `pc`: start the new tasks (`start`), go
over the tasks without a process (`nofd`, one action per position of the iterator so that
changes under its feet are visible), poll (`poll`), look for timeouts (`timeout`), kill what
does not stop (`kill`). `Finish` is the whole of `remove_task`, `finish_task` and
`_finish_task` with the listeners of the parent: the parent's list of subtasks, the answer
of `aggregate()` or `continuation()`, the stops that follow from it, the replacement.
`Crash` is an exception that leaves the loop, with what `run_workflow` in `bubaak` then
does. Which answers `finish()` and `aggregate()` may give is a `Policy` per aggregate class
(watchdog, composition, compiler, ...); the plan of tasks (`Kind`, `Initial`, `Successors`)
is a parameter, so that real workflows are instances (`MCWorkflow`).

**`Output`** follows tokens of two streams from the pipe (`written` beyond `read`) into the
buffer of Python's reader (`read` beyond `taken`) and into `_partial_output` (`partial`). A
character of two bytes is two tokens, so a read may cut it. `ReadFd` is one call of
`read_fd`, `PollIn` and `PollHup` are the two branches of the loop, `Drain` is
`finish_fd_task`.

**`Compiler`** is `CompilerTask` with `CompileAndCheck.finish`: `Execute`, `UnitFinishes`
(`aggregate()`), the four outcomes of `finish()`, the linker that replaces it, and `Stop`.
The engine around it is reduced to what matters here: a task that was stopped is not
replaced, and its result is then lost.

**`Verdicts`** has the two parsers as functions from what they remember to a result, and
`process_result` as `Printed`. A line of output is the property it is about. **`Svcomp`**
is the SV-COMP workflow around it (what it shares with `Scheduler` is in `SvcompRun`):
compile, KLEE, then, if it was not conclusive, SlowBeast alone or two symbolic executors
together; termination with KLEE and SlowBeast side by side. The variable `violated` is what
is true of the program; only the environment reads it.

**`DynamicSplitting`** has one action per task that finishes. The results on their way
through `ParallelCompose` (`got`, `decided`) and `ComposeResults` (`collected`) are part of
the state, as are the four attributes of `DynamicSplittingVerificationTask`. A program is a
model value with the set of executions it still has. **`ProgramSplitting`** says what this
is for: a set of programs that covers the input, in which one is verified, or replaced by
its halves, until a reduction or a bug is reported.

**`SplitFlow`** composes: its stage "split" is `ProgramSplitting` (which `DynamicSplitting`
implements), then come `_incremental_merge` with its work list and its map of merged
programs, the export of what is left, the backup verifiers on it, and the backup verifiers
on the whole input when all of that was not conclusive. The verifiers for one program are a
chain (`a+b-c`: first `a` and `b` side by side, then `c`), and the chains for several
programs run side by side; `task` says how far each one is and `gathered` what has come out.
`buggy` is what is true of the program, as `violated` in `Svcomp`.

**`WorkStealing`** is `WorkStealingAlgorithm` as a function from one state of its three
lists to the next (`Execute`, `Aggregate`), under the events of jobs. A job is the task of
one verifier for one input with the phases queued, set up, tool: a stop does something else
in each of them, and the algorithm may have forgotten a job that still runs.

**`SvcompTools`** has the files of the cache with who opened them last, and per getter the
processes of its two downloads and two unzips. A download has started before it opens its
file, so that it may fail and leave none. A timeout, the end of a run with processes
left and a second run over the same cache are actions.

**`Scheduler`** is the workflow `splitting-svcomp24`, a sequence of single tasks over the
parsers of `Verdicts`: compile, weak KLEE, the first split (which always raises), the
backup with KLEE and SlowBeast, and the validation of a violation on a harness.

Definitions commented "A mutation" are faulty variants of the definition that follows them.
They are in no next-state relation; each shows that a property can fail.

## 3. The runs

| run | instance | distinct states | what it shows |
|---|---|---|---|
| `engine_svcomp` | the tasks of the SV-COMP workflow, two timeouts, one program perhaps not installed | 67,207 | the run ends; a watchdog without a result has one cause; no process is left that was not told to stop |
| `engine_compose` | two composed checks, one with a watchdog, a root that is replaced | 158,712 | the tree is consistent, stops reach everything below, results are lost only after a stop, nothing new is put under a stopped task |
| `output` | two streams of up to three tokens | 323,505 | which lines arrive, which lose their beginning, which make the loop raise |
| `compile` | three C files and an LLVM file | 241 | programs are complete unless a compiler failed, the linker gets everything |
| `verdict` | five categories of SV-COMP, all sets of violated properties, two errors per tool | 295,328 | verdicts are right, seen bugs are kept, why there may be no verdict, the workflow ends |
| `splitting` | a tree of 13 programs, limits of `split4`, soft timeout | 63,027 | soundness, no double work, limits, termination, and that `DynamicSplitting` implements `ProgramSplitting` |
| `split_flow` | a tree of 5 programs on two levels, with and without merging, three chains of two backup verifiers | 162,951 | verdicts on the whole are right, merges are tight, results are used, why there may be no verdict, the workflow ends |
| `work_stealing` | three verifiers, two of one name, four inputs | 221,691 | no input is forgotten or given twice to verifiers of one name, an ERROR has a reason |
| `get_tools` | two getters, two runs over one cache, one killed | 226,054 | when there is a tool, what moves it into itself, which trouble ends how, and that a broken archive stays |
| `scheduler` | five categories of SV-COMP, two errors per tool | 112,224 | what is printed was confirmed, why violations and verdicts are lost |

Two more runs end in a counterexample. Each checks a statement of a comment against the
code:

| run | statement | what happens |
|---|---|---|
| `killed_tasks` | `task.py:209-211`: killing makes `is_done` true | a continuation whose task was dropped stays for ever |
| `splitting_bug` | `split.py:272`: "if x in results: return x" | a bug found by one split is lost when another split fails |

Other places where comment and code differ are conditions of properties that hold:

* `task.py:42`, a task stopped in the queue is not started: its start raises and the
  whole workflow ends (a cause in `CleanEnd`).
* `workflow.py:213-216`, after a timeout "listeners can continue": nobody is told, and a
  replacement is dropped (`CleanEnd`, `OnlyStoppedResultsLost`).
* `processtask.py:31-33`, partial output is kept: completing a line of one stream drops
  what is kept of the other (the one loss that `LinesArrive` admits).
* `compiler.py:232`, "no sub-task failed": when one of two files fails, the other one is
  the program (the exception in `ProgramIsComplete`).

### What the models of the workflows say about the code

These are readings that the properties of the new runs are conditioned on.

* `WorkStealing`: a stop never reaches the tool of a task that was replaced, nor a job
  whose verifier got another input meanwhile; late answers overwrite results; a task that
  is stopped while it is set up answers ERROR, which ends everything; one that is stopped in
  the queue raises. (Only `workflows/dummy.py` uses the algorithm today, with one verifier.)
* `SplitFlow`: an ERROR of one of several verifiers raises although `verifiers.py:112`
  says "Ignore result"; of the verdicts of a composed program only the first is kept; the
  docstring at `splitflows.py:334-335` speaks of verifiers in parallel for `sb-klee` where
  `create_backup_verifier` chains them.
* `SvcompTools`: a download or an unzip of the archive that fails or is stopped always
  raises; a timeout during a download ends the whole workflow; a partial archive blocks
  every later run. The ERROR of a failed download of the property is overridden by
  `finish()`: the tool then runs on a partial file, or, if the download failed before its
  first data and left none, the assertion at `svcomptool.py:281` fails. The listener on the
  first unzip is older than that of the aggregate (lines 224-225 and 233-234), the one on
  the download is younger (218, then 227): a failed unzip that finds an
  archive in the working directory still adds a subtask, which is stopped at once, and
  the run raises when the loop comes to start it.
* `Scheduler`: the first split raises (`scheduler.py:245`: the options of the task are
  None) where the docstring at lines 603-610 promises a split, so an inconclusive weak
  KLEE ends without a verdict; an overflow clang warns of is handed to KLEE as a file
  (line 86); a violation is replaced by the run that validates it, whose CORRECT becomes the
  verdict (line 406); SlowBeast's parser looks for `-sv-comp-witness` while it is given
  `-svcomp-witness` (`slowbeast.py:33`), so none of its bugs is confirmed.

### Bounds, and why they are enough

* Tasks: the plans have the shape of the real workflows, with one compilation where the
  code may have several. Every policy of an aggregate, every kind of task and a replacement
  at each level occurs. The number of tasks is not a bound of the code; what is proved
  (section 5) holds for every plan.
* `MaxOutput = 3`: the shortest trace on which a reset of one stream hurts the other needs
  two tokens on each; a character that is cut, completed and followed by a newline needs
  three. The proofs do not use the bound.
* `MaxErrors = 2`: the code distinguishes no error, one, and errors about two properties.
  The proofs do not use the bound.
* `MaxWidth = 4` is the value of `split4`; `MaxHeight` is 4 where the code has 1024, which
  on a tree of depth three is reached just as well. Seven executions let every one of the
  deepest programs have one of its own. `SoftTimeout` is switched on together with these
  limits, so that every way to stop splitting occurs; it is an over-approximation of
  `split4` as it is started by default.
* `split_flow`: with five programs on two levels a merge has to wait for another one, and
  one half may be verified while the other one is merged. The three chains are parallel,
  sequential, and both; longer ones repeat these steps. What is proved holds for all trees
  and chains.
* `work_stealing`: with three verifiers, two of one name, an input can be worked on by
  zero, one or two of them, be refused to a third, and the fourth input remains to be
  given to whoever comes first.
* `get_tools`: `MaxRuns = 2`, a run that leaves a cache and one that finds it. Two getters
  overlap in every phase; only a third one could move the tool a third time, which raises
  and is covered by the proofs.

### Fairness, and why it is justified

* The loop goes on (`WF` of its steps): `poll` has a timeout, and no step waits for another
  process, except for the cases listed in section 7.
* A killed process dies (`SIGKILL`); of several, some one.
* The clock runs: a timeout that is set passes, and a stopped task becomes overdue. These
  are strong because they are read at one point of the loop only.
* Verifiers and tools end (`Svcomp`, `DynamicSplitting`, `SplitFlow`, `Output`), by
  themselves or because a timeout stops and then kills them; `engine_svcomp` checks that
  the engine does so.
* `Compiler`, `WorkStealing`, `SvcompTools` and `Scheduler` state no fairness: what is
  checked there is safety.

`EventuallyOver` holds for the plan of `engine_svcomp`, where nothing a continuation waits
for gets lost before the root has a result; `killed_tasks` shows a plan where it does not.

## 4. Assumptions on the environment

* A tool closes its pipes only by ending. A line it has not ended is not emitted by the
  code, and the model does not ask for it.
* In `Svcomp`, `SplitFlow` and `Scheduler` the tools are right: what they report is
  violated, and a tool that ends with code 0, without errors or reservations (SlowBeast also
  says "clean"), has found what there is. Clang's warning about an overflow is true.
  Without it no statement about a verdict could hold. On one harness a tool may miss a
  violation that the program has.
* In `Svcomp` the second compilation of the same file succeeds like the first. (The comment
  at `workflows/svcomp.py:197` says that it is needed because of KLEE's sanitizers;
  `CompileAndCheck`, lines 86-90, adds the same ones again. The verdict does not depend
  on it.) In `Scheduler` every compilation may fail, and the tools are installed.
* The two halves a splitter writes have together the executions of the program it split,
  and the splits form a finite tree (`SplitAssumption`, `TreeAssumption`).
* Files have different base names. Two inputs `a/x.c` and `b/x.c` would be compiled to the
  same bitcode file at the same time; contents of files are not modelled.
* The inputs of `WorkStealing` can be told apart by their names: no base name begins another
  one, because `aggregate()` takes the last input whose base name begins that of the file the
  tool ran on (`workstealing.py:113-120`).
* Downloads are made by curl (with wget, the option `-o` that the code passes names a log
  file). It creates or truncates its file with the first data, and a download that ends with
  code 0 has the file (curl also ends so with an error page of the server). An archive that
  is not complete cannot be unzipped.
* When Bubaak is killed, the processes it started end with it (`Killed` in `SvcompTools`). A
  curl that outlives its run could still complete a broken archive: `BrokenCacheIsFinal`
  rests on this.

## 5. What is proved

All proofs are for arbitrary constants that satisfy the named assumptions. TLC evaluates
those on every run, and also the hypotheses that single theorems have
(`HalvesShareNothing`, `OwnExecutions`): they are assumptions of the MC modules.

**`WorkflowProofs`**, for every plan of tasks: `TypeCorrect` (`TypeOK`), `StopsReachSubtrees`
(`StopReachesSubtree`), `TreeStaysConsistent` (`TreeConsistent`), `ResultsReachContinuations`
(`OnlyStoppedResultsLost`), `LoopEndsCleanly` (`CleanEnd`) and the action property
`StoppedGetNoWork` (`NoWorkForStopped`). Two invariants carry this.

* `Inductive`: the types, and that the set of stopped tasks is closed under `kids`. A stop
  adds the least closed set that contains its targets (`BelowClosed`, `StopKeepsClosed`),
  and the tree grows only below tasks that are not stopped, because a task that was stopped
  is neither started nor replaced.
* `Tree`: which list each task is on (`Queues`), who created it and when that becomes its
  parent (`Owners`), that a task that lives is known to its parent and waited for
  (`Children`), what a continuation waits for (`Waiting`), processes, watchdogs, and how an
  exception ends the loop. What makes it inductive is that an aggregate which has its result
  has been stopped (`Children`): the stop reaches its subtasks, so none of them is replaced
  any more, and `replace_subtask` and `aggregate()` never see a decided aggregate. The plan
  has to hand each task object to one constructor only (`OwnerAssumption`), and a watchdog
  has to watch something (`WatchdogAssumption`).

`NoFdProperties` says what the recursive filter `NoFd` computes for lists of any length. The
induction theorems cannot be used for it, but a proof by the least counterexample can: the
set of positions at which the claim fails is a set of naturals, and if it is not empty it
has a least element, which one unfolding of the recursive function contradicts (`KeepStep`).

**`OutputProofs`**: `OutputTyped` (`TypeOK`) and `AllLinesArrive` (`LinesArrive`), for any
tokens and streams of any length. The strengthening: lines are intervals of what was taken,
before what is kept (`LinesTyped`), in order (`Ordered`); each newline that was taken ends a
line (`NewlinesEmitted`); `finish_fd_task` leaves a stream only when it is empty
(`Emptied`). The losses need `LossNeedsOther`: as long as a stream has lost nothing, its
lines and what is kept are contiguous, and the only step that breaks this drops the partial
output of one stream while a line of the other is put together. That a decoding error needs
a half character follows from `WholeCharacters`.

**`CompilerProofs`**: `CompilationTyped` (`TypeOK`), `LinkerAlwaysGetsAll`
(`LinkerGetsAll`) and `ProgramsAreComplete` (`ProgramIsComplete`), for any inputs. Neither
property is inductive: that the linker got everything depends on what was collected before.
The strengthening adds that nothing has happened before `execute()`, exactly the C files
have processes, the first failure is the outcome and stops the task (`OutcomeIsFailure`),
the outputs are different and, without a failure, all there are (`OutputsCollected`), and
nobody compiles once there is a linker or a result (`AllEnded`).

**`SvcompProofs`**: of `Svcomp`, `SvcompTyped` (`TypeOK`), `VerdictsAreRight`
(`VerdictIsRight`), `SeenBugsAreKept` (`SeenBugIsNotLost`) and `NoVerdictHasReasons`
(`NoVerdictReasons`); of `Scheduler`, `SchedulerTyped` (`SchedulerTypeOK`),
`VerdictsAreConfirmed` (`VerdictIsConfirmed`) and `NoAnswerHasReasons` (`NoAnswerReasons`);
for any selection of properties and any number of errors. Both rest on the same facts about
what a tool's result says (`ResultRight`) and what is printed of it (`PrintedRight`). The
strengthening for `Svcomp`: what parsers remember is violated and was asked for
(`ErrorsAreReal`); which tools run in which stage (`StageRuns`); and, before the end, nothing
is printed and every tool that does not run any more has ended without an error
(`Undecided`). The last one is the heart: a tool with an error always ends conclusively
(`ToolResultRight`), and a conclusive result always ends the run, so an inconclusive end
leaves no error behind.
For runs without a verdict, `Reasons` adds that no parser has seen anything before the
compilation ended and that only termination takes its own workflow; then `process_result`
raises only for a tool whose errors are about two properties (`SilentOnTwo`).

The scheduler's verdict depends on how far a violation got, so its strengthening (`Stages`)
ties `found` and `linked` to the stage: nobody has seen a violation before the validation,
only KLEE's reach it, and files are linked only for the run that validates. A harness
linked without the program sees no errors and never ends well, so that it confirms nothing.

**`SplittingProofs`**, for every tree of programs, every table of options and every order of
answers, has three invariants, each built on the one before.

* `Inductive` gives `SplittingTyped` (`TypeOK`) and `SplittingSound` (`Soundness`). What
  covers the input changes hands in each step: from the open programs to the tasks of a
  round, to the halves, to results in flight, back to the lists. `RoundCovers` says that all
  of these together cover it. `HalvesKept` says that what a check of a half reported is still
  there, in `got` or `collected`, and `Fresh` that tasks that are not there hold nothing.
* `Exact` gives `SplittingImplements` (`ImplementsSplitting`). Soundness needs only that
  nothing is lost; the refinement needs that the lists are exact: no program is open twice,
  or open and at work (`Apart`), the programs that are listed or still to be reported are
  the frontier, and what is reported is what was verified (`ListsExact`). This is true only
  as long as no bug was collected; afterwards results are dropped, and all that matters is
  that there is a bug. `AbstractStep` is shown for each action (`StepExact`).
* `Tight` gives `WorkIsDoneOnce` (`NoWorkTwice`) and `LimitsAreKept` (`LimitsKept`). The
  leaves of the tree of splits share no execution (`LeavesApart`), and everything that is
  listed, at work or verified is a leaf or a program whose two halves are
  (`ResultsAreLeaves`). `WorkIsDoneOnce` has the hypothesis `HalvesShareNothing`: the
  splitter makes a program of each branch (`program-splitter/README.md`). The limits
  come from counting: a round has no more tasks than `SplitCheckLimit`, each is two checks
  and leaves two open programs at most, and together with what stays open the tasks were
  fewer than the limit on the width when the round began (`RoundLimits`). The proof showed
  that the bound on the residuals presupposes a limit: with `splitting` -1 there is none,
  and `LimitsKept` now says so.

**`SplitFlowProofs`**: `FlowTyped` (`TypeOK`), `VerdictsRight` (`VerdictIsRight`),
`MergesTight` (`MergeIsTight`), `NoVerdictWhy` (`NoVerdictReasons`) and `ResultsUsed`
(`ResultsAreUsed`), for every tree of splits and all chains of verifiers. What is below a
program is the least set that is closed under halving (`BelowLeast`); facts about the tree,
such as that two programs with something below them in common are comparable
(`Comparable`), come from choosing closed sets, in place of an induction. `Merging` is the
invariant of the incremental merge: each merged program has what is left below it and no
more than any program of the tree above all of that (`Merges1`), and each one that cannot
be merged further waits for a sibling (`Waits`). Therefore an empty work list means that
the root is merged (`RootIsMerged`, by an unmerged program with the least number of
programs below it), so that the assertion in the code never fails. `Programs` and `Chains`
carry right verdicts from the parts to the whole. `ResultsUsed` has the hypothesis
`OwnExecutions`: every program of the tree has an execution, and the two halves of a split
have none in common. Without it the statement is false: the rest of a merge could be a
program all of whose executions were verified as parts of others, and an UNKNOWN about it
would waste what was proved. The invariant `Used` says that splitting reports what it
verified and no execution is in two programs (`Reported`), that what is proved has no bug
(`Proofs`), that each program the backup verifiers run on has something that is not
verified, and a verdict other than CORRECT among the gathered comes from a program that is
over and of which nothing was proved (`EachIsNeeded`), and that the whole input is only
verified if something has not been proved (`WholeIsNeeded`).

**`WorkStealingProofs`**: `StealingTyped` (`TypeOK`), `NoInputForgotten` (`InputsCovered`),
`ErrorsHaveReasons` (`ErrorReasons`) and `NobodyTwice` (`OncePerName`), for any number of
verifiers and inputs. `Sound` describes the records: of an input with a result nobody is
known to work on it, of another one exactly those are known who were ever given it; they
are still at it, and no two of them have one name. `Busy` says that somebody works on an
input without a result as long as the algorithm has none, and `StopsAreLate` that only who
works on a solved input is stopped. `Execute` gives work out in a loop over the verifiers
and is a recursive function in the model; what it returns for any number of them is shown
by the least verifier at which a claim about the loop fails (`GivesExists`, `FirstOf`,
`ExecuteRight`), like `NoFdProperties`.

**`SvcompToolsProofs`**: `ToolsTyped` (`TypeOK`), `ToolsArrive` (`TroubleHasReasons`) and
`BrokenStays` (`BrokenCacheIsFinal`), for any number of getters and runs. `Clean` says
what is in the cache and what is under way as long as there is no trouble. `Alone` says that
without an overlap, whatever else fails, one getter at a time is busy and none is on its way
to a tool that is there, so that the tool is not moved into itself. `Stuck` is the set of states from which no run gets a tool: the
archive is broken, there is no tool, and nobody downloads. It is closed under `Next`.

## 6. What is only model-checked

* Liveness (`EventuallyOver`, `Delivered`, `Ends`, `Terminates`), which is out of the
  prover's reach, as is ENABLED.
* What recursive operators of the library compute (`SelectSeq`, `SetToSortSeq`) is
  evaluated, not proved.

## 7. What is not modelled, and why

* Engine: NEW_TASKS, which no task returns; the text of logs. No model has a clock, so
  delays do not appear: after an error the parser of KLEE waits inside the loop
  (`klee.py:119`), `SplitTask` splits inside `execute()`, and `finish()` of a process waits
  for it (`processtask.py:93`), for ever if a tool closes one of its pipes and goes on; no
  tool that does is known.
* A program that is not installed ends the workflow although `bbk/task/result.py:20-22`
  speaks of a result ERROR; this is in the model (`StartFails`), not a run of its own.
* Compilation: options and command lines. (`add_include_dirs` is called with a list as one
  argument at `compiler.py:251`, so `-I` raises before a workflow starts, and
  `cppflags_append` appends to the other list of flags.)
* Verdicts: patterns are reduced to the property they stand for; witnesses are left out.
  That the continuation for termination starts its tools without looking at the result of
  the compilation ends in an exception where it would have ended in an ERROR: both are
  `NoVerdict`.
* Splitting: `Fails` takes "everything below is stopped" as one step, and the crash by a
  task that is stopped in the queue is left to `Workflow`. Several stages of splitting in a
  row and the names of merged files are left out. (The docstring at `splitflows.py:335-338`
  promises `mp` together with work stealing; line 351 does not recognise `mp`.)
* Work stealing: the algorithm as a whole is not stopped from outside.
* Scheduler: what `SplitScheduler` does with halves, because the first split raises, and
  `workflows/splitting.py`: the name `splitting` selects `splitflows.py` (`bubaak:100`).
  Malformed witnesses are `NoAnswer`.
  Liveness is not checked: a timeout ends every stage, as in `Svcomp`.
* Program splitter and its CPA framework: a sequential computation from text to text. Every
  analysis it uses has the merge operator SEP, so that merging of abstract states and the
  lazy deletion of the priority set are never exercised. (When its bounds are -1 and the
  first attempt finds no split, `run_deepening_splitter` calls `range` with a float: the
  TypeError is reported as a program that cannot be split.)
* Conditional model checking (`workflows/cmc.py`): a chain of at most three tasks, in which
  each step is decided by a file (`AssumptionAutomaton.txt`, `residual_program.c`) that
  CPAchecker may have written; what is verified in the end is the input or a residual of
  it, as in `SplitFlow` with one program. It is planned together with CPAchecker's parser.
* Other tools: the same protocol with other patterns. (The parser of CPAchecker raises an
  AssertionError when a run ends with FALSE, code 0 and no violation it knows.) Other
  workflows are one task under a watchdog, or those of `svcomp.py` again.
* Vendored libraries: most of the repository's lines are third-party packages; about
  18,400 lines of Python are the program's own.

## 8. Plan

1. The parsers of CBMC and CPAchecker as further functions of `Verdicts`, and over them
   conditional model checking: generator, reducer and verifier, with a file that is missing,
   incomplete or left behind by an interrupted run.
