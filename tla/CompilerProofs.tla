--------------------------- MODULE CompilerProofs ---------------------------
(***************************************************************************)
(* What holds of the compilation for every list of inputs: its types, that *)
(* the linker gets all of the inputs, and that a program is complete when  *)
(* no compiler failed.                                                     *)
(***************************************************************************)
EXTENDS Compiler, SequenceTheorems, TLAPS

Compiled == {f \in File : unit[f] = "compiled"}

\* Nothing has happened before execute().
BeforeExecute ==
  ~begun => /\ outputs = <<>> /\ linker = "none" /\ result = "none"
            /\ \A f \in File : unit[f] = "none"

\* Every C file has a process, no LLVM file has one.
UnitsOfCFiles == begun => \A f \in File : unit[f] = "none" <=> f \in Llvm

\* The first failure is the outcome, and it stops the task.
OutcomeIsFailure ==
  /\ outcome = "none" <=> Failed = {}
  /\ outcome = "ERROR" => stopped

\* The outputs are different files; they are all there are as long as nothing
\* has failed.
OutputsCollected ==
  /\ IsInjective(outputs)
  /\ begun => ToSet(outputs) \subseteq Llvm \cup Compiled
  /\ begun /\ Failed = {} => ToSet(outputs) = Llvm \cup Compiled

\* Nobody compiles any more when there is a linker or a result.
AllEnded == linker # "none" \/ result # "none" => IsDone

Inductive ==
  /\ TypeOK
  /\ BeforeExecute /\ UnitsOfCFiles /\ OutcomeIsFailure /\ OutputsCollected /\ AllEnded
  /\ LinkerGetsAll /\ ProgramIsComplete

-----------------------------------------------------------------------------
(* Lemmas *)

\* A new element at the end of a sequence without repetitions.
LEMMA AppendNew ==
  ASSUME NEW S, NEW s \in Seq(S), NEW x \in S, IsInjective(s), x \notin ToSet(s)
  PROVE  /\ Append(s, x) \in Seq(S)
         /\ IsInjective(Append(s, x))
         /\ ToSet(Append(s, x)) = ToSet(s) \cup {x}
<1>1. /\ Append(s, x) \in Seq(S) /\ Len(Append(s, x)) = Len(s) + 1
      /\ \A i \in 1 .. Len(s) : Append(s, x)[i] = s[i]
      /\ Append(s, x)[Len(s) + 1] = x
  BY AppendProperties
<1>2. DOMAIN s = 1 .. Len(s) /\ DOMAIN Append(s, x) = 1 .. (Len(s) + 1) /\ Len(s) \in Nat
  BY <1>1
<1>3. 1 .. (Len(s) + 1) = (1 .. Len(s)) \cup {Len(s) + 1}
  BY <1>2
<1>4. ToSet(Append(s, x)) = ToSet(s) \cup {x}
  BY <1>1, <1>2, <1>3 DEF ToSet
<1>5. IsInjective(Append(s, x))
  BY <1>1, <1>2, <1>3 DEF IsInjective, ToSet
<1> QED
  BY <1>1, <1>4, <1>5

\* When no unit runs and none failed, the outputs are all of the inputs.
LEMMA DoneIsComplete ==
  ASSUME Inductive, IsDone, Failed = {}
  PROVE  ToSet(outputs) = File
<1>1. begun
  BY DEF IsDone
<1>2. \A f \in CFiles : unit[f] = "compiled"
  BY <1>1, InputAssumption DEF File, Inductive, TypeOK, UnitsOfCFiles, IsDone, Failed
<1> QED
  BY <1>1, <1>2, InputAssumption DEF File, Inductive, OutputsCollected, Compiled

LEMMA InitInductive == Init => Inductive
<1> SUFFICES ASSUME Init PROVE Inductive
  OBVIOUS
<1> USE DEF Init
<1>1. TypeOK
  <2>1. outputs \in Seq(File)
    BY EmptySeq
  <2>2. unit \in [File -> {"none", "running", "compiled", "failed"}]
    OBVIOUS
  <2> QED
    BY <2>1, <2>2 DEF TypeOK
<1>2. BeforeExecute /\ UnitsOfCFiles /\ OutcomeIsFailure /\ AllEnded
  BY DEF BeforeExecute, UnitsOfCFiles, OutcomeIsFailure, AllEnded, Failed
<1>3. OutputsCollected
  <2>1. DOMAIN outputs = {}
    OBVIOUS
  <2> QED
    BY <2>1 DEF OutputsCollected, IsInjective
<1>4. LinkerGetsAll /\ ProgramIsComplete
  BY DEF LinkerGetsAll, ProgramIsComplete
<1> QED
  BY <1>1, <1>2, <1>3, <1>4 DEF Inductive

-----------------------------------------------------------------------------
(* The steps *)

LEMMA ExecuteInductive == Inductive /\ Execute => Inductive'
<1> SUFFICES ASSUME Inductive, Execute PROVE Inductive'
  OBVIOUS
<1> USE DEF Inductive, Execute
<1>1. TypeOK'
  <2>1. LlvmFiles \in Seq(File)
    <3> DEFINE n == Len(LlvmFiles)
    <3>1. LlvmFiles \in [1 .. n -> Llvm] /\ n \in Nat
      BY InputAssumption
    <3> HIDE DEF n
    <3>2. LlvmFiles \in [1 .. n -> File]
      BY <3>1 DEF File
    <3> QED
      BY <3>1, <3>2
  <2> QED
    BY <2>1 DEF TypeOK
<1>2. Failed = {} /\ Failed' = {} /\ outcome' = "none"
  BY DEF BeforeExecute, OutcomeIsFailure, Failed
<1>3. BeforeExecute' /\ UnitsOfCFiles' /\ OutcomeIsFailure'
  BY <1>2 DEF BeforeExecute, UnitsOfCFiles, OutcomeIsFailure
<1>4. Compiled' = {}
  BY DEF Compiled
<1>5. OutputsCollected'
  BY <1>4, InputAssumption DEF OutputsCollected, Llvm
<1>6. AllEnded' /\ LinkerGetsAll' /\ ProgramIsComplete'
  BY DEF BeforeExecute, AllEnded, LinkerGetsAll, ProgramIsComplete
<1> QED
  BY <1>1, <1>3, <1>5, <1>6

LEMMA UnitInductive ==
  ASSUME NEW f \in File, NEW ok \in BOOLEAN, NEW warning \in BOOLEAN
  PROVE  Inductive /\ UnitFinishes(f, ok, warning) => Inductive'
<1> SUFFICES ASSUME Inductive, UnitFinishes(f, ok, warning) PROVE Inductive'
  OBVIOUS
<1> USE DEF Inductive, UnitFinishes
<1>1. begun /\ f \notin Llvm /\ linker = "none" /\ result = "none"
  BY DEF BeforeExecute, UnitsOfCFiles, AllEnded, IsDone
<1>2. unit' \in [File -> {"none", "running", "compiled", "failed"}]
  BY DEF TypeOK
<1>3. \A h \in File : unit'[h] = IF h = f THEN IF ok THEN "compiled" ELSE "failed"
                                 ELSE unit[h]
  BY DEF TypeOK
<1>4. /\ Failed' = IF ok THEN Failed ELSE Failed \cup {f}
      /\ Compiled' = IF ok THEN Compiled \cup {f} ELSE Compiled
  BY <1>3 DEF Failed, Compiled
<1>5. f \notin ToSet(outputs)
  BY <1>1 DEF OutputsCollected, Compiled
<1>6. outcome = "none" /\ ok =>
        /\ outputs' \in Seq(File) /\ IsInjective(outputs')
        /\ ToSet(outputs') = ToSet(outputs) \cup {f}
  <2> HAVE outcome = "none" /\ ok
  <2>1. outputs' = Append(outputs, f)
    OBVIOUS
  <2>2. outputs \in Seq(File) /\ IsInjective(outputs)
    BY DEF TypeOK, OutputsCollected
  <2> HIDE DEF Inductive, UnitFinishes
  <2> QED
    BY <1>5, <2>1, <2>2, AppendNew
<1>7. ~(outcome = "none" /\ ok) => outputs' = outputs
  OBVIOUS
<1>8. TypeOK'
  BY <1>2, <1>6, <1>7 DEF TypeOK
<1>9. BeforeExecute' /\ UnitsOfCFiles'
  BY <1>1, <1>3 DEF BeforeExecute, UnitsOfCFiles
<1>10. OutcomeIsFailure'
  BY <1>4 DEF OutcomeIsFailure, TypeOK
<1>11. OutputsCollected'
  BY <1>1, <1>4, <1>6, <1>7 DEF OutputsCollected, OutcomeIsFailure
<1>12. AllEnded' /\ LinkerGetsAll' /\ ProgramIsComplete'
  BY <1>1 DEF AllEnded, LinkerGetsAll, ProgramIsComplete
<1> QED
  BY <1>8, <1>9, <1>10, <1>11, <1>12

\* finish() changes nothing that was compiled or collected.
LEMMA FinishInductive == Inductive /\ (FinishBug \/ FinishAtOnce \/ FinishLink) => Inductive'
<1> SUFFICES ASSUME Inductive, FinishBug \/ FinishAtOnce \/ FinishLink PROVE Inductive'
  OBVIOUS
<1> USE DEF Inductive
<1>1. /\ UNCHANGED <<begun, unit, outputs, warned, outcome, stopped>>
      /\ IsDone /\ linker = "none" /\ result = "none"
  BY DEF FinishBug, FinishAtOnce, FinishLink, Ready
<1>2. TypeOK'
  <2>1. ToSet(outputs) \subseteq File
    BY <1>1, InputAssumption DEF File, OutputsCollected, Compiled, IsDone
  <2> QED
    BY <1>1, <2>1 DEF TypeOK, FinishBug, FinishAtOnce, FinishLink
<1>3. IsDone'
  BY <1>1 DEF IsDone
<1>4. BeforeExecute' /\ AllEnded'
  BY <1>1, <1>3 DEF BeforeExecute, AllEnded, IsDone
<1>5. UnitsOfCFiles' /\ OutcomeIsFailure' /\ OutputsCollected'
  BY <1>1 DEF UnitsOfCFiles, OutcomeIsFailure, OutputsCollected, Failed, Compiled
<1>6. ProgramIsComplete'
  <2>1. Failed' = Failed
    BY <1>1 DEF Failed
  <2>2. CASE FinishAtOnce
    BY <1>1, <2>1, <2>2, DoneIsComplete DEF ProgramIsComplete, FinishAtOnce
  <2>3. CASE FinishBug \/ FinishLink
    BY <1>1, <2>3 DEF ProgramIsComplete, FinishBug, FinishLink
  <2> QED
    BY <2>2, <2>3
<1>7. LinkerGetsAll'
  <2>1. CASE linker' = "none"
    BY <2>1 DEF LinkerGetsAll
  <2>2. CASE linker' # "none"
    <3>1. ~stopped
      BY <1>1, <2>2 DEF FinishBug, FinishAtOnce, FinishLink
    <3>2. Failed = {}
      BY <3>1 DEF OutcomeIsFailure, TypeOK
    <3>3. ToSet(outputs) = File
      BY <1>1, <3>2, DoneIsComplete
    <3> QED
      BY <1>1, <3>2, <3>3 DEF LinkerGetsAll, OutputsCollected, IsDone, Failed
  <2> QED
    BY <2>1, <2>2
<1> QED
  BY <1>2, <1>4, <1>5, <1>6, <1>7

LEMMA LinkerInductive ==
  ASSUME NEW ok \in BOOLEAN PROVE Inductive /\ LinkerFinishes(ok) => Inductive'
<1> SUFFICES ASSUME Inductive, LinkerFinishes(ok) PROVE Inductive'
  OBVIOUS
<1> USE DEF Inductive, LinkerFinishes
<1>1. IsDone /\ ToSet(outputs) = File
  BY DEF AllEnded, LinkerGetsAll
<1>2. TypeOK'
  BY <1>1 DEF TypeOK
<1>3. BeforeExecute' /\ UnitsOfCFiles' /\ OutcomeIsFailure' /\ OutputsCollected' /\ AllEnded'
  BY <1>1 DEF BeforeExecute, UnitsOfCFiles, OutcomeIsFailure, OutputsCollected, AllEnded,
              IsDone, Failed, Compiled
<1>4. LinkerGetsAll' /\ ProgramIsComplete'
  BY <1>1 DEF LinkerGetsAll, ProgramIsComplete
<1> QED
  BY <1>2, <1>3, <1>4

LEMMA NextInductive == Inductive /\ [Next]_vars => Inductive'
<1> SUFFICES ASSUME Inductive, [Next]_vars PROVE Inductive'
  OBVIOUS
<1>1. CASE Execute
  BY <1>1, ExecuteInductive
<1>2. ASSUME NEW f \in File, NEW ok \in BOOLEAN, NEW warning \in BOOLEAN,
             UnitFinishes(f, ok, warning)
      PROVE  Inductive'
  BY <1>2, UnitInductive
<1>3. CASE FinishBug \/ FinishAtOnce \/ FinishLink
  BY <1>3, FinishInductive
<1>4. ASSUME NEW ok \in BOOLEAN, LinkerFinishes(ok)
      PROVE  Inductive'
  BY <1>4, LinkerInductive
<1>5. CASE Stop
  BY <1>5 DEF Stop, Inductive, TypeOK, BeforeExecute, UnitsOfCFiles, OutcomeIsFailure,
              OutputsCollected, AllEnded, LinkerGetsAll, ProgramIsComplete, IsDone,
              Failed, Compiled
<1>6. CASE UNCHANGED vars
  BY <1>6 DEF vars, Inductive, TypeOK, BeforeExecute, UnitsOfCFiles, OutcomeIsFailure,
              OutputsCollected, AllEnded, LinkerGetsAll, ProgramIsComplete, IsDone,
              Failed, Compiled
<1> QED
  BY <1>1, <1>2, <1>3, <1>4, <1>5, <1>6 DEF Next, Step, Over

LEMMA AlwaysInductive == Spec => []Inductive
BY InitInductive, NextInductive, PTL DEF Spec

-----------------------------------------------------------------------------
(* Theorems *)

\* Every reachable state of a compilation is well typed.
THEOREM CompilationTyped == Spec => []TypeOK
<1>1. Inductive => TypeOK
  BY DEF Inductive
<1> QED
  BY <1>1, AlwaysInductive, PTL

\* Whatever the inputs are and in whatever order the compilers end, the linker
\* of CompilerTask.finish() is started on all of them or not at all.
THEOREM LinkerAlwaysGetsAll == Spec => []LinkerGetsAll
<1>1. Inductive => LinkerGetsAll
  BY DEF Inductive
<1> QED
  BY <1>1, AlwaysInductive, PTL

\* A program that is handed on holds every input, unless a compiler failed.
THEOREM ProgramsAreComplete == Spec => []ProgramIsComplete
<1>1. Inductive => ProgramIsComplete
  BY DEF Inductive
<1> QED
  BY <1>1, AlwaysInductive, PTL
=============================================================================
