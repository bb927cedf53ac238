------------------------------ MODULE Compiler ------------------------------
(***************************************************************************)
(* Compilation of the inputs into one LLVM program (bbk/compiler.py, and    *)
(* CompileAndCheck of workflows/svcomp.py): an aggregate with one clang     *)
(* process per C file, then, for more than one bitcode file, a replacement  *)
(* that links them.  Unlike other aggregates its finish() does not look at  *)
(* the aggregated result.                                                   *)
(***************************************************************************)
EXTENDS Naturals, Sequences, SequencesExt

CONSTANTS
  CFiles,      \* the C files among the inputs
  LlvmFiles,   \* the inputs that are LLVM programs already, in their order
  Overflow     \* is the property no-signed-overflow among the properties?

Llvm == ToSet(LlvmFiles)
File == CFiles \cup Llvm

ASSUME InputAssumption ==
  /\ LlvmFiles \in Seq(Llvm) /\ IsInjective(LlvmFiles)
  /\ CFiles \cap Llvm = {} /\ File # {}
  /\ Overflow \in BOOLEAN

VARIABLES
  begun,     \* has execute() been called?
  unit,      \* the CompileUnitTask of a C file
  outputs,   \* _output_files: the inputs whose bitcode is in it
  warned,    \* is there an overflow warning in _warnings?
  outcome,   \* _aggregated_result
  stopped,   \* was_stopped()
  linker,    \* the LinkingTask
  result,    \* what the task that waits for the compilation is told
  program    \* the inputs in the program that is the output of the result

vars == <<begun, unit, outputs, warned, outcome, stopped, linker,
          result, program>>

TypeOK ==
  /\ begun \in BOOLEAN
  /\ unit \in [File -> {"none", "running", "compiled", "failed"}]
  /\ outputs \in Seq(File)
  /\ warned \in BOOLEAN
  /\ outcome \in {"none", "ERROR"}
  /\ stopped \in BOOLEAN
  /\ linker \in {"none", "running", "linked", "failed"}
  /\ result \in {"none", "DONE", "ERROR", "bug", "lost"}
  /\ program \subseteq File

Init ==
  /\ begun = FALSE
  /\ unit = [f \in File |-> "none"]
  /\ outputs = <<>>
  /\ warned = FALSE
  /\ outcome = "none"
  /\ stopped = FALSE
  /\ linker = "none"
  /\ result = "none"
  /\ program = {}

\* A mutation: the LLVM files are appended as one output.
ExecuteAppendsList ==
  /\ ~begun
  /\ begun' = TRUE
  /\ unit' = [f \in File |-> IF f \in Llvm THEN "none" ELSE "running"]
  /\ outputs' = <<Llvm>>
  /\ UNCHANGED <<warned, outcome, stopped, linker, result, program>>

\* LLVM files are outputs at once, every C file gets a process.
Execute ==
  /\ ~begun
  /\ begun' = TRUE
  /\ unit' = [f \in File |-> IF f \in Llvm THEN "none" ELSE "running"]
  /\ outputs' = LlvmFiles
  /\ UNCHANGED <<warned, outcome, stopped, linker, result, program>>

\* A process ends.  The first error is the outcome; the aggregate then stops
\* itself, and what the other processes still deliver is not looked at.
UnitFinishes(f, ok, warning) ==
  /\ unit[f] = "running"
  /\ unit' = [unit EXCEPT ![f] = IF ok THEN "compiled" ELSE "failed"]
  /\ IF outcome = "none"
     THEN /\ warned' = (warned \/ warning)
          /\ outputs' = IF ok THEN Append(outputs, f) ELSE outputs
          /\ outcome' = IF ok THEN "none" ELSE "ERROR"
          /\ stopped' = (stopped \/ ~ok)
     ELSE UNCHANGED <<warned, outputs, outcome, stopped>>
  /\ UNCHANGED <<begun, linker, result, program>>

\* The task is stopped from outside, for instance by a timeout.
Stop ==
  /\ begun /\ result = "none" /\ ~stopped
  /\ stopped' = TRUE
  /\ UNCHANGED <<begun, unit, outputs, warned, outcome, linker, result, program>>

IsDone == begun /\ \A f \in File : unit[f] # "running"

-----------------------------------------------------------------------------
(* finish() of CompilerTask, overwritten by CompileAndCheck *)

Ready == IsDone /\ linker = "none" /\ result = "none"

\* The warnings of the compiler are taken for a bug.
FinishBug ==
  /\ Ready
  /\ warned /\ Overflow
  /\ result' = "bug"
  /\ UNCHANGED <<begun, unit, outputs, warned, outcome, stopped, linker, program>>

\* A mutation: the first output is the program, whether or not it is the only one.
FinishAtOnceFirst ==
  /\ Ready
  /\ ~(warned /\ Overflow)
  /\ result' = IF outputs = <<>> THEN "ERROR" ELSE "DONE"
  /\ program' = IF outputs = <<>> THEN {} ELSE {Head(outputs)}
  /\ UNCHANGED <<begun, unit, outputs, warned, outcome, stopped, linker>>

\* One output is the program, none is an error.
FinishAtOnce ==
  /\ Ready
  /\ ~(warned /\ Overflow)
  /\ Len(outputs) <= 1
  /\ result' = IF outputs = <<>> THEN "ERROR" ELSE "DONE"
  /\ program' = ToSet(outputs)
  /\ UNCHANGED <<begun, unit, outputs, warned, outcome, stopped, linker>>

\* A mutation: the linker is started although the task was stopped.
FinishLinkStopped ==
  /\ Ready
  /\ ~(warned /\ Overflow)
  /\ Len(outputs) > 1
  /\ linker' = "running"
  /\ UNCHANGED <<begun, unit, outputs, warned, outcome, stopped, result, program>>

\* More are linked by a replacement, which the workflow drops when the task was
\* stopped, be it by itself: nobody is told a result then.
FinishLink ==
  /\ Ready
  /\ ~(warned /\ Overflow)
  /\ Len(outputs) > 1
  /\ IF stopped
     THEN result' = "lost" /\ UNCHANGED linker
     ELSE linker' = "running" /\ UNCHANGED result
  /\ UNCHANGED <<begun, unit, outputs, warned, outcome, stopped, program>>

LinkerFinishes(ok) ==
  /\ linker = "running"
  /\ linker' = IF ok THEN "linked" ELSE "failed"
  /\ result' = IF ok THEN "DONE" ELSE "ERROR"
  /\ program' = IF ok THEN ToSet(outputs) ELSE {}
  /\ UNCHANGED <<begun, unit, outputs, warned, outcome, stopped>>

Over == result # "none" /\ UNCHANGED vars

Step ==
  \/ Execute
  \/ \E f \in File, ok, warning \in BOOLEAN : UnitFinishes(f, ok, warning)
  \/ FinishBug \/ FinishAtOnce \/ FinishLink
  \/ \E ok \in BOOLEAN : LinkerFinishes(ok)

Next == Step \/ Stop \/ Over

Spec == Init /\ [][Next]_vars

-----------------------------------------------------------------------------
(* Properties *)

Failed == {f \in File : unit[f] = "failed"}

\* If no compiler failed, a program that is the result has all the inputs in
\* it.
ProgramIsComplete == result = "DONE" /\ Failed = {} => program = File

\* The linker never runs on a part of the inputs, nor on a file that is still
\* being written: an error stops the task, and a stopped task is not replaced.
LinkerGetsAll ==
  linker # "none" =>
    /\ ToSet(outputs) = File /\ IsInjective(outputs)
    /\ \A f \in File : unit[f] \notin {"running", "failed"}

=============================================================================
