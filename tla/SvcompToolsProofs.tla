------------------------- MODULE SvcompToolsProofs -------------------------
(***************************************************************************)
(* What holds of getting the tools of SV-COMP for any number of getters and *)
(* runs: the types, why there is no tool, and that a broken archive stays.  *)
(***************************************************************************)
EXTENDS SvcompTools, FiniteSetTheorems, TLAPS

\* A getter whose way to the tool is over has the tool, or the second archive was
\* not unzipped.
ToolOrInnerFailed ==
  \A g \in Getter :
    /\ state[g] = "new" => zipJob[g] = "none"
    /\ state[g] = "running" /\ zipJob[g] = "none" => dir # "none" \/ g \in innerFailed

\* As long as getters do not overlap one at a time is busy, and none is on its way to
\* a tool that is there.
Alone ==
  "overlap" \notin trouble =>
    /\ dir # "nested"
    /\ \A g, h \in Getter : Busy(g) /\ Busy(h) => g = h
    /\ \A g \in Getter : zipJob[g] # "none" => dir = "none"

\* As long as there is no trouble, one getter at a time is busy, its files are the
\* ones that are not whole, and one that is not busy has found or got what it needs.
Clean ==
  trouble = {} =>
    /\ raised = "none" /\ aggregated = {} /\ stopped = {} /\ innerFailed = {}
    /\ dir # "nested"
    /\ \A g, h \in Getter : Busy(g) /\ Busy(h) => g = h
    /\ \A g \in Getter :
         /\ Busy(g) => state[g] = "running"
         /\ prpJob[g] \in {"queued", "running"} => prp = "none"
         /\ prpJob[g] = "writing" => prpWriter = {g}
         /\ zipJob[g] # "none" => dir = "none"
         /\ zipJob[g] \in {"queued", "download"} => zip = "none"
         /\ zipJob[g] = "writing" => zipWriter = {g}
         /\ zipJob[g] = "unzip" => zip = "whole"
         /\ zipJob[g] # "stopped"
         /\ state[g] = "running" /\ prpJob[g] = "none" => prp = "whole"
         /\ state[g] = "running" /\ zipJob[g] = "none" => dir = "tool"
         /\ state[g] \in {"DONE", "ERROR"} => state[g] = "DONE" /\ dir = "tool" /\ prp = "whole"
    /\ over => \A g \in Getter : state[g] \in {"DONE", "ERROR"}
    /\ prp = "broken" => \E g \in Getter : prpJob[g] = "writing"
    /\ zip = "broken" => \E g \in Getter : zipJob[g] = "writing"

Inductive == TypeOK /\ ToolOrInnerFailed /\ ErrorReasons /\ Alone /\ Clean

\* What a broken archive without a tool leads to.
Stuck ==
  /\ zip = "broken" /\ dir = "none"
  /\ over \/ \A g \in Getter : zipJob[g] \in {"none", "unzip", "stopped"}

-----------------------------------------------------------------------------
(* Types *)

LEMMA WriterTyped ==
  /\ Nobody \in SUBSET Getter /\ Cardinality(Nobody) <= 1
  /\ \A g \in Getter : Cardinality({g}) <= 1
<1>1. Cardinality({}) = 0
  BY FS_EmptySet
<1>2. \A g \in Getter : Cardinality({g}) = 1
  BY FS_Singleton
<1> QED
  BY <1>1, <1>2 DEF Nobody

LEMMA InitTyped == Init => TypeOK
<1> SUFFICES ASSUME Init PROVE TypeOK
  OBVIOUS
<1>1. run \in 1..MaxRuns
  BY RunsAssumption DEF Init
<1>2. /\ Nobody \in SUBSET Getter /\ Cardinality(Nobody) <= 1
  BY WriterTyped
<1> QED
  BY <1>1, <1>2 DEF Init, TypeOK, Contents

LEMMA StepTyped == TypeOK /\ [Next]_vars => TypeOK'
<1> SUFFICES ASSUME TypeOK, [Next]_vars PROVE TypeOK'
  OBVIOUS
<1> USE DEF TypeOK, Contents, cache, jobs, ends, history
<1>1. ASSUME NEW g \in Getter, Execute(g) PROVE TypeOK'
  BY <1>1 DEF Execute
<1>2. ASSUME NEW g \in Getter, ExecuteRaises(g) PROVE TypeOK'
  BY <1>2 DEF ExecuteRaises, Raise, Failure
<1>3. ASSUME NEW g \in Getter, PrpStarts(g) PROVE TypeOK'
  BY <1>3 DEF PrpStarts, Raise
<1>4. ASSUME NEW g \in Getter, ZipStarts(g) PROVE TypeOK'
  BY <1>4 DEF ZipStarts, Raise
<1>5. ASSUME NEW g \in Getter, PrpDone(g) PROVE TypeOK'
  BY <1>5 DEF PrpDone
<1>6. ASSUME NEW g \in Getter, PrpFails(g) PROVE TypeOK'
  BY <1>6 DEF PrpFails, Failure
<1>7. ASSUME NEW g \in Getter, ZipDone(g) PROVE TypeOK'
  BY <1>7 DEF ZipDone, AddSubtask, Raise
<1>8. ASSUME NEW g \in Getter, ZipFails(g) PROVE TypeOK'
  BY <1>8 DEF ZipFails, Raise, Failure
<1>9. ASSUME NEW g \in Getter, UnzipDone(g) PROVE TypeOK'
  BY <1>9 DEF UnzipDone, AddSubtask, Raise
<1>10. ASSUME NEW g \in Getter, UnzipFails(g) PROVE TypeOK'
  BY <1>10 DEF UnzipFails, AddSubtask, Raise
<1>11. ASSUME NEW g \in Getter, InnerDone(g) PROVE TypeOK'
  BY <1>11 DEF InnerDone, Raise, Moved
<1>12. ASSUME NEW g \in Getter, InnerFails(g) PROVE TypeOK'
  BY <1>12 DEF InnerFails, Failure
<1>13. ASSUME NEW g \in Getter, StoppedInQueue(g) PROVE TypeOK'
  BY <1>13 DEF StoppedInQueue, Raise
<1>14. ASSUME NEW g \in Getter, Finish(g) PROVE TypeOK'
  BY <1>14 DEF Finish, Raise
<1>15. ASSUME NEW g \in Getter, Timeout(g) PROVE TypeOK'
  BY <1>15 DEF Timeout, Failure
<1>16. CASE RunEnds
  BY <1>16 DEF RunEnds
<1>17. CASE Killed
  BY <1>17 DEF Killed
<1>18. CASE Restart
  <2>1. run' \in 1..MaxRuns
    BY <1>18, RunsAssumption DEF Restart
  <2>2. /\ Nobody \in SUBSET Getter /\ Cardinality(Nobody) <= 1
    BY WriterTyped
  <2> QED
    BY <1>18, <2>1, <2>2 DEF Restart, NewRun
<1>19. ASSUME NEW g \in Getter, PrpOpens(g) PROVE TypeOK'
  BY <1>19, WriterTyped DEF PrpOpens
<1>20. ASSUME NEW g \in Getter, ZipOpens(g) PROVE TypeOK'
  BY <1>20, WriterTyped DEF ZipOpens
<1>21. CASE UNCHANGED vars
  BY <1>21 DEF vars
<1> QED
  BY <1>1, <1>2, <1>3, <1>4, <1>5, <1>6, <1>7, <1>8, <1>9, <1>10, <1>11, <1>12, <1>13, <1>14,
     <1>15, <1>16, <1>17, <1>18, <1>19, <1>20, <1>21 DEF Next, Works

-----------------------------------------------------------------------------
(* Errors *)

LEMMA StepErrors ==
  TypeOK /\ ToolOrInnerFailed /\ ErrorReasons /\ [Next]_vars => (ToolOrInnerFailed /\ ErrorReasons)'
<1> SUFFICES ASSUME TypeOK, ToolOrInnerFailed, ErrorReasons, [Next]_vars
             PROVE  (ToolOrInnerFailed /\ ErrorReasons)'
  OBVIOUS
<1> USE DEF TypeOK, Contents, cache, jobs, ends, history, ToolOrInnerFailed, ErrorReasons
<1>1. ASSUME NEW g \in Getter, Execute(g) PROVE (ToolOrInnerFailed /\ ErrorReasons)'
  BY <1>1 DEF Execute
<1>2. ASSUME NEW g \in Getter, ExecuteRaises(g) PROVE (ToolOrInnerFailed /\ ErrorReasons)'
  BY <1>2 DEF ExecuteRaises
<1>3. ASSUME NEW g \in Getter, PrpStarts(g) \/ PrpOpens(g) \/ PrpDone(g) \/ PrpFails(g)
      PROVE  (ToolOrInnerFailed /\ ErrorReasons)'
  BY <1>3 DEF PrpStarts, PrpOpens, PrpDone, PrpFails
<1>4. ASSUME NEW g \in Getter, ZipStarts(g) \/ ZipOpens(g)
      PROVE  (ToolOrInnerFailed /\ ErrorReasons)'
  BY <1>4 DEF ZipStarts, ZipOpens
<1>5. ASSUME NEW g \in Getter, ZipDone(g) \/ UnzipDone(g) PROVE (ToolOrInnerFailed /\ ErrorReasons)'
  BY <1>5 DEF ZipDone, UnzipDone, AddSubtask
<1>6. ASSUME NEW g \in Getter, ZipFails(g) \/ UnzipFails(g) \/ StoppedInQueue(g)
      PROVE  (ToolOrInnerFailed /\ ErrorReasons)'
  BY <1>6 DEF ZipFails, UnzipFails, AddSubtask, StoppedInQueue
<1>7. ASSUME NEW g \in Getter, InnerDone(g) PROVE (ToolOrInnerFailed /\ ErrorReasons)'
  BY <1>7 DEF InnerDone, Moved
<1>8. ASSUME NEW g \in Getter, InnerFails(g) PROVE (ToolOrInnerFailed /\ ErrorReasons)'
  BY <1>8 DEF InnerFails
<1>9. ASSUME NEW g \in Getter, Finish(g) PROVE (ToolOrInnerFailed /\ ErrorReasons)'
  BY <1>9 DEF Finish, Busy
<1>10. ASSUME NEW g \in Getter, Timeout(g) PROVE (ToolOrInnerFailed /\ ErrorReasons)'
  BY <1>10 DEF Timeout
<1>11. CASE RunEnds \/ Killed
  BY <1>11 DEF RunEnds, Killed
<1>12. CASE Restart
  BY <1>12 DEF Restart, NewRun
<1>13. CASE UNCHANGED vars
  BY <1>13 DEF vars
<1> QED
  BY <1>1, <1>2, <1>3, <1>4, <1>5, <1>6, <1>7, <1>8, <1>9, <1>10, <1>11, <1>12, <1>13
     DEF Next, Works

-----------------------------------------------------------------------------
(* Without an overlap *)

LEMMA StepAlone == TypeOK /\ Alone /\ [Next]_vars => Alone'
<1> SUFFICES ASSUME TypeOK, Alone, [Next]_vars PROVE Alone'
  OBVIOUS
<1> USE DEF TypeOK, Contents, cache, jobs, ends, history, Alone, Busy
<1>1. ASSUME NEW g \in Getter, Execute(g) PROVE Alone'
  BY <1>1 DEF Execute
<1>2. ASSUME NEW g \in Getter, PrpStarts(g) \/ PrpOpens(g) \/ PrpDone(g) \/ PrpFails(g)
      PROVE  Alone'
  BY <1>2 DEF PrpStarts, PrpOpens, PrpDone, PrpFails, Failure
<1>3. ASSUME NEW g \in Getter, ZipStarts(g) \/ ZipOpens(g) \/ ZipDone(g) \/ ZipFails(g)
      PROVE  Alone'
  BY <1>3 DEF ZipStarts, ZipOpens, ZipDone, ZipFails, AddSubtask, Failure
<1>4. ASSUME NEW g \in Getter, UnzipDone(g) \/ UnzipFails(g) PROVE Alone'
  BY <1>4 DEF UnzipDone, UnzipFails, AddSubtask
<1>5. ASSUME NEW g \in Getter, InnerDone(g) PROVE Alone'
  BY <1>5 DEF InnerDone, Moved
<1>6. ASSUME NEW g \in Getter,
             ExecuteRaises(g) \/ InnerFails(g) \/ StoppedInQueue(g) \/ Finish(g) \/ Timeout(g)
      PROVE  Alone'
  BY <1>6 DEF ExecuteRaises, InnerFails, StoppedInQueue, Finish, Timeout, Failure
<1>7. CASE RunEnds \/ Killed
  BY <1>7 DEF RunEnds, Killed
<1>8. CASE Restart
  BY <1>8 DEF Restart, NewRun
<1>9. CASE UNCHANGED vars
  BY <1>9 DEF vars
<1> QED
  BY <1>1, <1>2, <1>3, <1>4, <1>5, <1>6, <1>7, <1>8, <1>9 DEF Next, Works

-----------------------------------------------------------------------------
(* Without trouble *)

LEMMA InitClean == Init => ToolOrInnerFailed /\ ErrorReasons /\ Alone /\ Clean
BY DEF Init, ToolOrInnerFailed, ErrorReasons, Alone, Clean, Busy

LEMMA StepClean == TypeOK /\ Clean /\ [Next]_vars => Clean'
<1> SUFFICES ASSUME TypeOK, Clean, [Next]_vars PROVE Clean'
  OBVIOUS
<1> USE DEF TypeOK, Contents, cache, jobs, ends, history, Clean, Busy, Exists
<1>1. ASSUME NEW g \in Getter, Execute(g) PROVE Clean'
  BY <1>1 DEF Execute
<1>2. ASSUME NEW g \in Getter,
             ExecuteRaises(g) \/ PrpFails(g) \/ ZipFails(g) \/ InnerFails(g) \/ Timeout(g)
      PROVE  Clean'
  BY <1>2 DEF ExecuteRaises, PrpFails, ZipFails, InnerFails, Timeout, Failure
<1>3. ASSUME NEW g \in Getter, PrpStarts(g) PROVE Clean'
  BY <1>3 DEF PrpStarts
<1>4. ASSUME NEW g \in Getter, ZipStarts(g) PROVE Clean'
  BY <1>4 DEF ZipStarts
<1>5. ASSUME NEW g \in Getter, PrpDone(g) PROVE Clean'
  BY <1>5 DEF PrpDone
<1>6. ASSUME NEW g \in Getter, ZipDone(g) PROVE Clean'
  BY <1>6 DEF ZipDone, AddSubtask
<1>7. ASSUME NEW g \in Getter, UnzipDone(g) PROVE Clean'
  BY <1>7 DEF UnzipDone, AddSubtask
<1>8. ASSUME NEW g \in Getter, UnzipFails(g) PROVE Clean'
  BY <1>8 DEF UnzipFails
<1>9. ASSUME NEW g \in Getter, InnerDone(g) PROVE Clean'
  BY <1>9 DEF InnerDone, Moved
<1>10. ASSUME NEW g \in Getter, StoppedInQueue(g) PROVE Clean'
  BY <1>10 DEF StoppedInQueue
<1>11. ASSUME NEW g \in Getter, Finish(g) PROVE Clean'
  BY <1>11 DEF Finish
<1>12. CASE RunEnds
  BY <1>12 DEF RunEnds
<1>13. CASE Killed
  BY <1>13 DEF Killed
<1>14. CASE Restart
  BY <1>14 DEF Restart, NewRun
<1>15. ASSUME NEW g \in Getter, PrpOpens(g) PROVE Clean'
  BY <1>15 DEF PrpOpens
<1>16. ASSUME NEW g \in Getter, ZipOpens(g) PROVE Clean'
  BY <1>16 DEF ZipOpens
<1>17. CASE UNCHANGED vars
  BY <1>17 DEF vars
<1> QED
  BY <1>1, <1>2, <1>3, <1>4, <1>5, <1>6, <1>7, <1>8, <1>9, <1>10, <1>11, <1>12, <1>13, <1>14,
     <1>15, <1>16, <1>17 DEF Next, Works

-----------------------------------------------------------------------------
(* A broken archive *)

LEMMA StepStuck == TypeOK /\ Stuck /\ [Next]_vars => Stuck'
<1> SUFFICES ASSUME TypeOK, Stuck, [Next]_vars PROVE Stuck'
  OBVIOUS
<1> USE DEF TypeOK, Contents, cache, jobs, ends, history, Stuck
<1>1. ASSUME NEW g \in Getter, Execute(g) PROVE Stuck'
  BY <1>1 DEF Execute, Exists
<1>2. ASSUME NEW g \in Getter, PrpStarts(g) \/ PrpOpens(g) \/ PrpDone(g) \/ PrpFails(g)
      PROVE  Stuck'
  BY <1>2 DEF PrpStarts, PrpOpens, PrpDone, PrpFails, Raise
<1>3. ASSUME NEW g \in Getter, UnzipFails(g) \/ StoppedInQueue(g) \/ ExecuteRaises(g) PROVE Stuck'
  BY <1>3 DEF UnzipFails, AddSubtask, StoppedInQueue, ExecuteRaises, Raise
<1>4. ASSUME NEW g \in Getter,
             \/ ZipStarts(g) \/ ZipOpens(g) \/ ZipDone(g) \/ ZipFails(g)
             \/ UnzipDone(g) \/ InnerDone(g) \/ InnerFails(g)
      PROVE  Stuck'
  BY <1>4 DEF ZipStarts, ZipOpens, ZipDone, ZipFails, UnzipDone, InnerDone, InnerFails
<1>5. ASSUME NEW g \in Getter, Finish(g) \/ Timeout(g) PROVE Stuck'
  BY <1>5 DEF Finish, Timeout, Raise
<1>6. CASE RunEnds \/ Killed
  BY <1>6 DEF RunEnds, Killed
<1>7. CASE Restart
  BY <1>7 DEF Restart, NewRun
<1>8. CASE UNCHANGED vars
  BY <1>8 DEF vars
<1> QED
  BY <1>1, <1>2, <1>3, <1>4, <1>5, <1>6, <1>7, <1>8 DEF Next, Works

-----------------------------------------------------------------------------
(* Theorems *)

LEMMA SpecInductive == Spec => []Inductive
<1>1. Init => Inductive
  BY InitTyped, InitClean DEF Inductive
<1>2. Inductive /\ [Next]_vars => Inductive'
  BY StepTyped, StepErrors, StepAlone, StepClean DEF Inductive
<1> QED
  BY <1>1, <1>2, PTL DEF Spec

\* The types of the getters and their cache (GetSVCompTool), for any number of
\* getters and runs.
THEOREM ToolsTyped == Spec => []TypeOK
<1>1. Inductive => TypeOK
  BY DEF Inductive
<1> QED
  BY <1>1, SpecInductive, PTL

\* Without a failure, a timeout, a crash or an overlap of getters every getter of
\* every run gets its tool and its property.  Without an overlap the tool is never
\* moved into itself.  Of all failures only that of the second
\* archive, and a stop, have the result ERROR that the code provides.
THEOREM ToolsArrive == Spec => []TroubleHasReasons
<1>1. Inductive => TroubleHasReasons
  BY DEF Inductive, Alone, Clean, TroubleHasReasons
<1> QED
  BY <1>1, SpecInductive, PTL

\* A broken archive in the cache keeps the tool away for ever: execute() looks for
\* its name only.
THEOREM BrokenStays == Spec => BrokenCacheIsFinal
<1>1. over /\ zip = "broken" /\ dir = "none" => Stuck
  BY DEF Stuck
<1>2. Inductive /\ Stuck /\ [Next]_vars => Stuck'
  BY StepStuck DEF Inductive
<1>3. Stuck => dir = "none"
  BY DEF Stuck
<1>4. [][Next]_vars /\ []Inductive => [](Stuck => []Stuck)
  BY <1>2, PTL
<1> QED
  BY <1>1, <1>3, <1>4, SpecInductive, PTL DEF Spec, BrokenCacheIsFinal

=============================================================================
