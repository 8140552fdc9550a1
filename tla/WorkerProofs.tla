---------------------------- MODULE WorkerProofs ----------------------------
(***************************************************************************)
(* Proofs about the worker.  Worker, for any number of executors: the type *)
(* invariant, that an ended run leaves its task in a terminal state, the   *)
(* order of the executors, that a plain COMPLETE is earned, and what       *)
(* EXECUTOR_ERROR says of the executors and of the outputs.  Then the      *)
(* container of DockerCommand (ExecutorContainer); what the transfers      *)
(* before and after the executors report, for any number of files and any  *)
(* size of the pool (Transfers); and what Get and Put of the storage       *)
(* backends leave of the files, for any number of retries                  *)
(* (StorageBackends).                                                      *)
(***************************************************************************)
EXTENDS Worker, ExecutorContainer, Transfers, StorageBackends, TLAPS

(* The provers to try on a step in turn, with the seconds each may take.   *)
USE ZenonT(5), SMTT(20), ZenonT(20), SMTT(40), SMTT(60)

USE NAssumption

(* The type invariant is inductive together with the range of the loop     *)
(* index during a step.                                                    *)
TypeInv == TypeOK /\ StepInRange

(* It holds when the run starts.                                           *)
LEMMA TypeInit == Init => TypeInv
<1>. SUFFICES ASSUME Init PROVE TypeInv
  OBVIOUS
<1>1. i \in 1..(N + 1)
  BY DEF Init
<1>2. outcome \in [Executor -> {"none", "ok", "executor", "system", "interrupted"}]
  BY DEF Init
<1>. QED
  BY <1>1, <1>2 DEF Init, TypeInv, TypeOK, StepInRange, PC

(* What the store holds after an event is a state of a created task, and a *)
(* terminal event always leaves a terminal state behind.                   *)
LEMMA StoredType ==
  ASSUME TypeOK, NEW s \in Active \cup Terminal
  PROVE  /\ Stored(s) \in Active \cup Terminal
         /\ s \in Terminal => Stored(s) \in Terminal
BY DEF TypeOK, Stored, TransitionAllowed, ValidateTransition, TerminalState, Active, Terminal

(* Every step of the run keeps it.                                         *)
LEMMA TypeStep ==
  ASSUME TypeInv, [Next]_vars
  PROVE  TypeInv'
<1>1. CASE UNCHANGED vars
  BY <1>1 DEF vars, TypeInv, StepInRange, TypeOK, PC, Executor, Terminal
<1>2. CASE ReadTask
  BY <1>2 DEF ReadTask, ctl, hist, TypeInv, StepInRange, TypeOK, PC, Executor, Terminal
<1>3. CASE Initialize
  <2>1. db' \in Active \cup Terminal
    BY <1>3, StoredType DEF Initialize, TypeInv, TypeOK, Active
  <2>. QED
    BY <1>3, <2>1 DEF Initialize, hist, TypeInv, StepInRange, TypeOK, PC
<1>4. CASE MapTask
  BY <1>4 DEF MapTask, Ok, OkSyserr, ctl, hist, TypeInv, StepInRange, TypeOK, PC, Executor, Terminal
<1>5. CASE DownloadInputs
  BY <1>5 DEF DownloadInputs, Ok, OkSyserr, ctl, hist, TypeInv, StepInRange, TypeOK, PC, Executor, Terminal
<1>6. CASE ReportRunning
  <2>1. db' \in Active \cup Terminal
    BY <1>6, StoredType DEF ReportRunning, TypeInv, TypeOK, Active
  <2>. QED
    BY <1>6, <2>1 DEF ReportRunning, OkSyserr, ctl, hist, TypeInv, StepInRange, TypeOK, PC
<1>7. CASE CopyInputsToScratch
  BY <1>7 DEF CopyInputsToScratch, Ok, OkSyserr, ctl, hist, TypeInv, StepInRange, TypeOK, PC, Executor, Terminal
<1>8. CASE LoopEnds
  BY <1>8 DEF LoopEnds, Ok, OkSyserr, ctl, hist, TypeInv, StepInRange, TypeOK, PC, Executor, Terminal
<1>9. CASE ResourcesInvalid
  BY <1>9 DEF ResourcesInvalid, Ok, ctl, hist, TypeInv, StepInRange, TypeOK, PC, Executor, Terminal
<1>10. CASE OpenStepLogsFails
  BY <1>10 DEF OpenStepLogsFails, Ok, ctl, hist, TypeInv, StepInRange, TypeOK, PC, Executor, Terminal
<1>11. CASE StartStep
  BY <1>11 DEF StartStep, Ok, ctl, hist, TypeInv, StepInRange, TypeOK, PC, Executor, Terminal
<1>12. CASE StepDone
  BY <1>12 DEF StepDone, FileError, ctl, hist, TypeInv, StepInRange, TypeOK, PC, Executor, Terminal
<1>13. CASE StepCanceled
  BY <1>13 DEF StepCanceled, StopCommand, ctl, hist, TypeInv, StepInRange, TypeOK, PC, Executor, Terminal
<1>14. CASE StepStopped
  BY <1>14 DEF StepStopped, FileError, ctl, hist, TypeInv, StepInRange, TypeOK, PC, Executor, Terminal
<1>15. CASE CopyOutputsToWorkDir
  BY <1>15 DEF CopyOutputsToWorkDir, ctl, hist, TypeInv, StepInRange, TypeOK, PC, Executor, Terminal
<1>16. CASE UploadOutputs
  BY <1>16 DEF UploadOutputs, ctl, hist, TypeInv, StepInRange, TypeOK, PC, Executor, Terminal
<1>17. CASE Panic
  BY <1>17 DEF Panic, ctl, hist, TypeInv, StepInRange, TypeOK, PC, Executor, Terminal
<1>18. CASE DecideFinal
  BY <1>18 DEF DecideFinal, Verdict, ctl, hist, TypeInv, StepInRange, TypeOK, PC, Executor, Terminal
<1>19. CASE WriteFinal
  <2>1. db' \in Active \cup Terminal
    BY <1>19 DEF WriteFinal, Stored, TypeInv, TypeOK, TransitionAllowed, ValidateTransition, TerminalState, Active, Terminal
  <2>2. lost' \in BOOLEAN
    BY <1>19 DEF WriteFinal
  <2>3. pc' = "exit" /\ UNCHANGED <<ctl, i, syserr, execerr, cmd, result, outcome, dropped, uploaded, final>>
    BY <1>19 DEF WriteFinal
  <2>. QED
    BY <2>1, <2>2, <2>3 DEF ctl, TypeInv, StepInRange, TypeOK, PC
<1>20. CASE PollTick
  BY <1>20 DEF PollTick, ctl, hist, TypeInv, StepInRange, TypeOK, PC, Executor, Terminal
<1>21. CASE PollCallback
  BY <1>21 DEF PollCallback, ctl, hist, TypeInv, StepInRange, TypeOK, PC, Executor, Terminal
<1>22. CASE PollStops
  BY <1>22 DEF PollStops, ctl, hist, TypeInv, StepInRange, TypeOK, PC, Executor, Terminal
<1>23. CASE PullEnds
  BY <1>23 DEF PullEnds, ctl, hist, TypeInv, StepInRange, TypeOK, PC, Executor, Terminal
<1>24. CASE CommandEnds
  BY <1>24 DEF CommandEnds, ctl, hist, TypeInv, StepInRange, TypeOK, PC, Executor, Terminal
<1>25. CASE CommandKilled
  BY <1>25 DEF CommandKilled, ctl, hist, TypeInv, StepInRange, TypeOK, PC, Executor, Terminal
<1>26. CASE EndedOutside
  BY <1>26 DEF EndedOutside, ctl, hist, TypeInv, StepInRange, TypeOK, PC, Executor, Terminal
<1>27. CASE ParentDone
  BY <1>27 DEF ParentDone, ctl, hist, TypeInv, StepInRange, TypeOK, PC, Executor, Terminal
<1>. QED
  BY <1>1, <1>2, <1>3, <1>4, <1>5, <1>6, <1>7, <1>8, <1>9, <1>10, <1>11, <1>12, <1>13, <1>14, <1>15, <1>16, <1>17, <1>18, <1>19, <1>20, <1>21, <1>22, <1>23, <1>24, <1>25, <1>26, <1>27 DEF Next, Run, Poll

(* The variables of a run keep their types, whatever the interleaving.     *)
THEOREM TypeCorrect == Spec => []TypeOK
<1>1. TypeInv => TypeOK
  BY DEF TypeInv
<1>. QED
  BY <1>1, TypeInit, TypeStep, PTL DEF Spec
-----------------------------------------------------------------------------
(* The verdict is taken once, at the end of the run.                       *)
EndInv ==
  /\ final # "UNKNOWN" => pc \in {"final", "exit"}
  /\ pc = "final" => final \in Terminal
  /\ EndedIsTerminal

(* It holds when the run starts.                                           *)
LEMMA EndInit == Init => EndInv
BY DEF Init, EndInv, EndedIsTerminal

(* Every step keeps it; only the last write ends the run.                  *)
LEMMA EndStep ==
  ASSUME TypeOK, EndInv, [Next]_vars
  PROVE  EndInv'
<1>1. CASE UNCHANGED vars
  BY <1>1 DEF vars, EndInv, EndedIsTerminal, TerminalState
<1>2. CASE ReadTask
  BY <1>2 DEF ReadTask, ctl, hist, EndInv, EndedIsTerminal, TerminalState
<1>3. CASE Initialize
  BY <1>3 DEF Initialize, ctl, hist, EndInv, EndedIsTerminal, TerminalState
<1>4. CASE MapTask
  BY <1>4 DEF MapTask, Ok, OkSyserr, ctl, hist, EndInv, EndedIsTerminal, TerminalState
<1>5. CASE DownloadInputs
  BY <1>5 DEF DownloadInputs, Ok, OkSyserr, ctl, hist, EndInv, EndedIsTerminal, TerminalState
<1>6. CASE ReportRunning
  BY <1>6 DEF ReportRunning, Ok, OkSyserr, ctl, hist, EndInv, EndedIsTerminal, TerminalState
<1>7. CASE CopyInputsToScratch
  BY <1>7 DEF CopyInputsToScratch, Ok, OkSyserr, ctl, hist, EndInv, EndedIsTerminal, TerminalState
<1>8. CASE LoopEnds
  BY <1>8 DEF LoopEnds, Ok, OkSyserr, ctl, hist, EndInv, EndedIsTerminal, TerminalState
<1>9. CASE ResourcesInvalid
  BY <1>9 DEF ResourcesInvalid, Ok, OkSyserr, ctl, hist, EndInv, EndedIsTerminal, TerminalState
<1>10. CASE OpenStepLogsFails
  BY <1>10 DEF OpenStepLogsFails, Ok, OkSyserr, ctl, hist, EndInv, EndedIsTerminal, TerminalState
<1>11. CASE StartStep
  BY <1>11 DEF StartStep, Ok, OkSyserr, ctl, hist, EndInv, EndedIsTerminal, TerminalState
<1>12. CASE StepDone
  BY <1>12 DEF StepDone, FileError, ctl, hist, EndInv, EndedIsTerminal, TerminalState
<1>13. CASE StepCanceled
  BY <1>13 DEF StepCanceled, StopCommand, ctl, hist, EndInv, EndedIsTerminal, TerminalState
<1>14. CASE StepStopped
  BY <1>14 DEF StepStopped, FileError, ctl, hist, EndInv, EndedIsTerminal, TerminalState
<1>15. CASE CopyOutputsToWorkDir
  BY <1>15 DEF CopyOutputsToWorkDir, ctl, hist, EndInv, EndedIsTerminal, TerminalState
<1>16. CASE UploadOutputs
  BY <1>16 DEF UploadOutputs, ctl, hist, EndInv, EndedIsTerminal, TerminalState
<1>17. CASE Panic
  BY <1>17 DEF Panic, ctl, hist, EndInv, EndedIsTerminal, TerminalState
<1>18. CASE DecideFinal
  <2>1. Verdict \in Terminal
    BY DEF Verdict, Terminal
  <2>. QED
    BY <1>18, <2>1 DEF DecideFinal, EndInv, EndedIsTerminal
<1>19. CASE WriteFinal
  <2>1. final \in Terminal
    BY <1>19 DEF WriteFinal, EndInv
  <2>2. lost' \/ db' \in Terminal
    BY <1>19, <2>1, StoredType DEF WriteFinal
  <2>. QED
    BY <1>19, <2>2 DEF WriteFinal, hist, EndInv, EndedIsTerminal, TerminalState
<1>20. CASE PollTick
  BY <1>20 DEF PollTick, ctl, hist, EndInv, EndedIsTerminal, TerminalState
<1>21. CASE PollCallback
  BY <1>21 DEF PollCallback, ctl, hist, EndInv, EndedIsTerminal, TerminalState
<1>22. CASE PollStops
  BY <1>22 DEF PollStops, ctl, hist, EndInv, EndedIsTerminal, TerminalState
<1>23. CASE PullEnds
  BY <1>23 DEF PullEnds, ctl, hist, EndInv, EndedIsTerminal, TerminalState
<1>24. CASE CommandEnds
  BY <1>24 DEF CommandEnds, ctl, hist, EndInv, EndedIsTerminal, TerminalState
<1>25. CASE CommandKilled
  BY <1>25 DEF CommandKilled, ctl, hist, EndInv, EndedIsTerminal, TerminalState
<1>26. CASE EndedOutside
  BY <1>26 DEF EndedOutside, ctl, hist, EndInv, EndedIsTerminal, TerminalState
<1>27. CASE ParentDone
  BY <1>27 DEF ParentDone, ctl, hist, EndInv, EndedIsTerminal, TerminalState
<1>. QED
  BY <1>1, <1>2, <1>3, <1>4, <1>5, <1>6, <1>7, <1>8, <1>9, <1>10, <1>11, <1>12, <1>13, <1>14, <1>15, <1>16, <1>17, <1>18, <1>19, <1>20, <1>21, <1>22, <1>23, <1>24, <1>25, <1>26, <1>27 DEF Next, Run, Poll

(* A worker that began its task leaves it in a terminal state whatever     *)
(* failed, panicked or was canceled, whichever store is used and whichever *)
(* earlier events were lost, provided the last write gets through.         *)
THEOREM EndCorrect == Spec => []EndedIsTerminal
<1>1. EndInv => EndedIsTerminal
  BY DEF EndInv
<1>. QED
  BY <1>1, TypeCorrect, EndInit, EndStep, PTL DEF Spec
-----------------------------------------------------------------------------
(* The step of executor j let the loop go on.                              *)
Good(j) == outcome[j] = "ok" \/ (outcome[j] = "executor" /\ conf.ignore[j])

(* While a step runs, or another may start, all the steps before it were   *)
(* good, and the later ones have not started.                              *)
OrderInv ==
  /\ cmd # "none" => pc \in {"step", "stopping"}
  /\ pc = "stopping" => ctxDone
  /\ pc \in {"read", "init", "map", "download", "running", "scratch"} => i = 1
  /\ \A k \in Executor : outcome[k] # "none" => k < i
  /\ pc \in {"step", "stopping"} \/ (pc = "exec" /\ Ok) => \A j \in Executor : j < i => Good(j)
  /\ ExecutorsInOrder

(* It holds when the run starts.                                           *)
LEMMA OrderInit == Init => OrderInv
BY DEF Init, OrderInv, ExecutorsInOrder, Executor

(* Every step keeps it; the loop starts one executor after the other.      *)
LEMMA OrderStep ==
  ASSUME TypeInv, OrderInv, [Next]_vars
  PROVE  OrderInv'
<1>1. CASE UNCHANGED vars
  BY <1>1 DEF vars, Ok, TypeInv, StepInRange, TypeOK, OrderInv, ExecutorsInOrder, Good, Executor
<1>2. CASE ReadTask
  BY <1>2 DEF ReadTask, Ok, OkSyserr, ctl, hist, TypeInv, StepInRange, TypeOK, OrderInv, ExecutorsInOrder, Good, Executor
<1>3. CASE Initialize
  BY <1>3 DEF Initialize, Ok, OkSyserr, ctl, hist, TypeInv, StepInRange, TypeOK, OrderInv, ExecutorsInOrder, Good, Executor
<1>4. CASE MapTask
  BY <1>4 DEF MapTask, Ok, OkSyserr, ctl, hist, TypeInv, StepInRange, TypeOK, OrderInv, ExecutorsInOrder, Good, Executor
<1>5. CASE DownloadInputs
  BY <1>5 DEF DownloadInputs, Ok, OkSyserr, ctl, hist, TypeInv, StepInRange, TypeOK, OrderInv, ExecutorsInOrder, Good, Executor
<1>6. CASE ReportRunning
  BY <1>6 DEF ReportRunning, Ok, OkSyserr, ctl, hist, TypeInv, StepInRange, TypeOK, OrderInv, ExecutorsInOrder, Good, Executor
<1>7. CASE CopyInputsToScratch
  BY <1>7 DEF CopyInputsToScratch, Ok, OkSyserr, ctl, hist, TypeInv, StepInRange, TypeOK, OrderInv, ExecutorsInOrder, Good, Executor
<1>8. CASE LoopEnds
  BY <1>8 DEF LoopEnds, Ok, OkSyserr, ctl, hist, TypeInv, StepInRange, TypeOK, OrderInv, ExecutorsInOrder, Good, Executor
<1>9. CASE ResourcesInvalid
  BY <1>9 DEF ResourcesInvalid, Ok, OkSyserr, ctl, hist, TypeInv, StepInRange, TypeOK, OrderInv, ExecutorsInOrder, Good, Executor
<1>10. CASE OpenStepLogsFails
  BY <1>10 DEF OpenStepLogsFails, Ok, OkSyserr, ctl, hist, TypeInv, StepInRange, TypeOK, OrderInv, ExecutorsInOrder, Good, Executor
<1>11. CASE StartStep
  BY <1>11 DEF StartStep, Ok, OkSyserr, ctl, hist, TypeInv, StepInRange, TypeOK, OrderInv, ExecutorsInOrder, Good, Executor
<1>12. CASE StepDone
  <2>1. /\ i \in Executor /\ i' = i + 1 /\ conf' = conf /\ pc' = "exec" /\ cmd' = "none"
        /\ outcome' = [outcome EXCEPT ![i] = result]
        /\ \A j \in Executor : j < i => Good(j)
    BY <1>12 DEF StepDone, FileError, ctl, TypeInv, StepInRange, TypeOK, OrderInv, Executor
  <2>2. \A j \in Executor : j # i => outcome'[j] = outcome[j]
    BY <2>1 DEF TypeInv, TypeOK
  <2>3. \A k \in Executor : outcome'[k] # "none" => k < i'
    BY <2>1, <2>2 DEF TypeInv, TypeOK, OrderInv, Executor
  <2>4. \A j \in Executor : j < i => Good(j)'
    BY <2>1, <2>2 DEF Good, Executor
  <2>5. ASSUME Ok', NEW k \in Executor, k = i
        PROVE  Good(k)'
    <3>1. outcome'[k] = result
      BY <2>1, <2>5 DEF TypeInv, TypeOK
    <3>2. result \in {"ok", "executor", "system"}
      BY DEF TypeInv, TypeOK
    <3>3. CASE result = "ok"
      BY <3>1, <3>3 DEF Good
    <3>4. CASE result = "executor"
      BY <1>12, <2>1, <2>5, <3>1, <3>4 DEF StepDone, FileError, Ok, Good
    <3>5. CASE result = "system"
      BY <1>12, <2>5, <3>5 DEF StepDone, FileError, Ok
    <3>. QED
      BY <3>2, <3>3, <3>4, <3>5
  <2>6. Ok' => \A j \in Executor : j < i' => Good(j)'
    <3>1. \A j \in Executor : j < i' => j < i \/ j = i
      BY <2>1 DEF Executor
    <3>. QED
      BY <2>4, <2>5, <3>1
  <2>7. ExecutorsInOrder'
    BY <2>1, <2>3, <2>4 DEF ExecutorsInOrder, Good, Executor
  <2>. QED
    BY <2>1, <2>3, <2>6, <2>7 DEF OrderInv
<1>13. CASE StepCanceled
  BY <1>13 DEF StepCanceled, StopCommand, Ok, OkSyserr, ctl, hist, TypeInv, StepInRange, TypeOK, OrderInv, ExecutorsInOrder, Good, Executor
<1>14. CASE StepStopped
  BY <1>14 DEF StepStopped, FileError, Ok, OkSyserr, ctl, hist, TypeInv, StepInRange, TypeOK, OrderInv, ExecutorsInOrder, Good, Executor
<1>15. CASE CopyOutputsToWorkDir
  BY <1>15 DEF CopyOutputsToWorkDir, Ok, OkSyserr, ctl, hist, TypeInv, StepInRange, TypeOK, OrderInv, ExecutorsInOrder, Good, Executor
<1>16. CASE UploadOutputs
  BY <1>16 DEF UploadOutputs, Ok, OkSyserr, ctl, hist, TypeInv, StepInRange, TypeOK, OrderInv, ExecutorsInOrder, Good, Executor
<1>17. CASE Panic
  BY <1>17 DEF Panic, Ok, OkSyserr, ctl, hist, TypeInv, StepInRange, TypeOK, OrderInv, ExecutorsInOrder, Good, Executor
<1>18. CASE DecideFinal
  BY <1>18 DEF DecideFinal, Ok, OkSyserr, ctl, hist, TypeInv, StepInRange, TypeOK, OrderInv, ExecutorsInOrder, Good, Executor
<1>19. CASE WriteFinal
  BY <1>19 DEF WriteFinal, Ok, OkSyserr, ctl, hist, TypeInv, StepInRange, TypeOK, OrderInv, ExecutorsInOrder, Good, Executor
<1>20. CASE PollTick
  BY <1>20 DEF PollTick, Ok, OkSyserr, ctl, hist, TypeInv, StepInRange, TypeOK, OrderInv, ExecutorsInOrder, Good, Executor
<1>21. CASE PollCallback
  BY <1>21 DEF PollCallback, Ok, OkSyserr, ctl, hist, TypeInv, StepInRange, TypeOK, OrderInv, ExecutorsInOrder, Good, Executor
<1>22. CASE PollStops
  BY <1>22 DEF PollStops, Ok, OkSyserr, ctl, hist, TypeInv, StepInRange, TypeOK, OrderInv, ExecutorsInOrder, Good, Executor
<1>23. CASE PullEnds
  BY <1>23 DEF PullEnds, Ok, OkSyserr, ctl, hist, TypeInv, StepInRange, TypeOK, OrderInv, ExecutorsInOrder, Good, Executor
<1>24. CASE CommandEnds
  BY <1>24 DEF CommandEnds, Ok, OkSyserr, ctl, hist, TypeInv, StepInRange, TypeOK, OrderInv, ExecutorsInOrder, Good, Executor
<1>25. CASE CommandKilled
  BY <1>25 DEF CommandKilled, Ok, OkSyserr, ctl, hist, TypeInv, StepInRange, TypeOK, OrderInv, ExecutorsInOrder, Good, Executor
<1>26. CASE EndedOutside
  BY <1>26 DEF EndedOutside, Ok, OkSyserr, ctl, hist, TypeInv, StepInRange, TypeOK, OrderInv, ExecutorsInOrder, Good, Executor
<1>27. CASE ParentDone
  BY <1>27 DEF ParentDone, Ok, OkSyserr, ctl, hist, TypeInv, StepInRange, TypeOK, OrderInv, ExecutorsInOrder, Good, Executor
<1>. QED
  BY <1>1, <1>2, <1>3, <1>4, <1>5, <1>6, <1>7, <1>8, <1>9, <1>10, <1>11, <1>12, <1>13, <1>14, <1>15, <1>16, <1>17, <1>18, <1>19, <1>20, <1>21, <1>22, <1>23, <1>24, <1>25, <1>26, <1>27 DEF Next, Run, Poll

(* Executors run in order, and none runs after one that failed, was        *)
(* interrupted or met a system error, for any number of executors.         *)
THEOREM OrderCorrect == Spec => []ExecutorsInOrder
<1>1. OrderInv => ExecutorsInOrder
  BY DEF OrderInv
<1>. QED
  BY <1>1, TypeInit, TypeStep, OrderInit, OrderStep, PTL DEF Spec
-----------------------------------------------------------------------------

(* No scratch directory, no Kubernetes, and no error to be ignored.        *)
Plain == ~conf.scratch /\ ~conf.kube /\ \A k \in Executor : ~conf.ignore[k]

(* In a plain configuration, a run without a recorded error has done all   *)
(* that its position in Run says.                                          *)
EarnedInv ==
  /\ Plain /\ ~syserr /\ ~execerr =>
       /\ pc = "exec" => \A j \in Executor : j < i => Good(j)
       /\ pc \in {"copyout", "upload"} => \A k \in Executor : Good(k)
       /\ pc = "defer" => Earned
  /\ PlainCompleteIsEarned

(* It holds when the run starts.                                           *)
LEMMA EarnedInit == Init => EarnedInv
BY DEF Init, EarnedInv, PlainCompleteIsEarned

(* Every step keeps it.                                                    *)
LEMMA EarnedStep ==
  ASSUME TypeInv, EndInv, OrderInv, EarnedInv, [Next]_vars
  PROVE  EarnedInv'
<1>1. CASE UNCHANGED vars
  BY <1>1 DEF vars, TypeInv, StepInRange, TypeOK, EndInv, OrderInv, EarnedInv, PlainCompleteIsEarned, Earned, Plain, Good, Executor
<1>2. CASE ReadTask
  BY <1>2 DEF ReadTask, Ok, OkSyserr, ctl, hist, TypeInv, StepInRange, TypeOK, EndInv, OrderInv, EarnedInv, PlainCompleteIsEarned, Earned, Plain, Good, Executor
<1>3. CASE Initialize
  BY <1>3 DEF Initialize, Ok, OkSyserr, ctl, hist, TypeInv, StepInRange, TypeOK, EndInv, OrderInv, EarnedInv, PlainCompleteIsEarned, Earned, Plain, Good, Executor
<1>4. CASE MapTask
  BY <1>4 DEF MapTask, Ok, OkSyserr, ctl, hist, TypeInv, StepInRange, TypeOK, EndInv, OrderInv, EarnedInv, PlainCompleteIsEarned, Earned, Plain, Good, Executor
<1>5. CASE DownloadInputs
  BY <1>5 DEF DownloadInputs, Ok, OkSyserr, ctl, hist, TypeInv, StepInRange, TypeOK, EndInv, OrderInv, EarnedInv, PlainCompleteIsEarned, Earned, Plain, Good, Executor
<1>6. CASE ReportRunning
  BY <1>6 DEF ReportRunning, Ok, OkSyserr, ctl, hist, TypeInv, StepInRange, TypeOK, EndInv, OrderInv, EarnedInv, PlainCompleteIsEarned, Earned, Plain, Good, Executor
<1>7. CASE CopyInputsToScratch
  BY <1>7 DEF CopyInputsToScratch, Ok, OkSyserr, ctl, hist, TypeInv, StepInRange, TypeOK, EndInv, OrderInv, EarnedInv, PlainCompleteIsEarned, Earned, Plain, Good, Executor
<1>8. CASE LoopEnds
  BY <1>8 DEF LoopEnds, Ok, OkSyserr, ctl, hist, TypeInv, StepInRange, TypeOK, EndInv, OrderInv, EarnedInv, PlainCompleteIsEarned, Earned, Plain, Good, Executor
<1>9. CASE ResourcesInvalid
  BY <1>9 DEF ResourcesInvalid, Ok, OkSyserr, ctl, hist, TypeInv, StepInRange, TypeOK, EndInv, OrderInv, EarnedInv, PlainCompleteIsEarned, Earned, Plain, Good, Executor
<1>10. CASE OpenStepLogsFails
  BY <1>10 DEF OpenStepLogsFails, Ok, OkSyserr, ctl, hist, TypeInv, StepInRange, TypeOK, EndInv, OrderInv, EarnedInv, PlainCompleteIsEarned, Earned, Plain, Good, Executor
<1>11. CASE StartStep
  BY <1>11 DEF StartStep, Ok, OkSyserr, ctl, hist, TypeInv, StepInRange, TypeOK, EndInv, OrderInv, EarnedInv, PlainCompleteIsEarned, Earned, Plain, Good, Executor
<1>12. CASE StepDone
  <2>1. /\ i \in Executor /\ i' = i + 1 /\ conf' = conf /\ pc' = "exec" /\ final' = final
        /\ outcome' = [outcome EXCEPT ![i] = result]
        /\ \A j \in Executor : j < i => Good(j)
    BY <1>12 DEF StepDone, FileError, ctl, TypeInv, StepInRange, TypeOK, OrderInv, Executor
  <2>2. final = "UNKNOWN"
    BY <1>12 DEF StepDone, EndInv
  <2>3. Plain' /\ ~syserr' /\ ~execerr' => \A j \in Executor : j < i' => Good(j)'
    <3>. SUFFICES ASSUME Plain', ~syserr', ~execerr', NEW j \in Executor, j < i'
                  PROVE  Good(j)'
      OBVIOUS
    <3>1. CASE j = i
      <4>1. outcome'[j] = result
        BY <2>1, <3>1 DEF TypeInv, TypeOK
      <4>2. ~conf.ignore[i]
        BY <2>1 DEF Plain
      <4>. QED
        BY <1>12, <4>1, <4>2 DEF StepDone, FileError, Good, TypeInv, TypeOK
    <3>2. CASE j # i
      <4>1. j < i /\ outcome'[j] = outcome[j]
        BY <2>1, <3>2 DEF TypeInv, TypeOK, Executor
      <4>. QED
        BY <2>1, <4>1 DEF Good
    <3>. QED
      BY <3>1, <3>2
  <2>. QED
    BY <2>1, <2>2, <2>3 DEF EarnedInv, PlainCompleteIsEarned
<1>13. CASE StepCanceled
  BY <1>13 DEF StepCanceled, StopCommand, Ok, OkSyserr, ctl, hist, TypeInv, StepInRange, TypeOK, EndInv, OrderInv, EarnedInv, PlainCompleteIsEarned, Earned, Plain, Good, Executor
<1>14. CASE StepStopped
  <2>1. /\ i \in Executor /\ i' = i + 1 /\ conf' = conf /\ pc' = "exec" /\ final' = final
        /\ outcome' = [outcome EXCEPT ![i] = "interrupted"]
        /\ \A j \in Executor : j < i => Good(j)
    BY <1>14 DEF StepStopped, FileError, ctl, TypeInv, StepInRange, TypeOK, OrderInv, Executor
  <2>2. final = "UNKNOWN"
    BY <1>14 DEF StepStopped, EndInv
  <2>3. Plain' /\ ~syserr' /\ ~execerr' => \A j \in Executor : j < i' => Good(j)'
    <3>. SUFFICES ASSUME Plain', ~syserr', ~execerr', NEW j \in Executor, j < i'
                  PROVE  Good(j)'
      OBVIOUS
    <3>1. CASE j = i
      <4>1. outcome'[j] = "interrupted"
        BY <2>1, <3>1 DEF TypeInv, TypeOK
      <4>2. ~conf.ignore[i]
        BY <2>1 DEF Plain
      <4>. QED
        BY <1>14, <4>1, <4>2 DEF StepStopped, FileError, Good, TypeInv, TypeOK
    <3>2. CASE j # i
      <4>1. j < i /\ outcome'[j] = outcome[j]
        BY <2>1, <3>2 DEF TypeInv, TypeOK, Executor
      <4>. QED
        BY <2>1, <4>1 DEF Good
    <3>. QED
      BY <3>1, <3>2
  <2>. QED
    BY <2>1, <2>2, <2>3 DEF EarnedInv, PlainCompleteIsEarned
<1>15. CASE CopyOutputsToWorkDir
  BY <1>15 DEF CopyOutputsToWorkDir, Ok, OkSyserr, ctl, hist, TypeInv, StepInRange, TypeOK, EndInv, OrderInv, EarnedInv, PlainCompleteIsEarned, Earned, Plain, Good, Executor
<1>16. CASE UploadOutputs
  BY <1>16 DEF UploadOutputs, Ok, OkSyserr, ctl, hist, TypeInv, StepInRange, TypeOK, EndInv, OrderInv, EarnedInv, PlainCompleteIsEarned, Earned, Plain, Good, Executor
<1>17. CASE Panic
  BY <1>17 DEF Panic, Ok, OkSyserr, ctl, hist, TypeInv, StepInRange, TypeOK, EndInv, OrderInv, EarnedInv, PlainCompleteIsEarned, Earned, Plain, Good, Executor
<1>18. CASE DecideFinal
  BY <1>18 DEF DecideFinal, Verdict, ctl, EarnedInv, PlainCompleteIsEarned, Earned, Plain, Good, TypeInv, TypeOK
<1>19. CASE WriteFinal
  BY <1>19 DEF WriteFinal, Ok, OkSyserr, ctl, hist, TypeInv, StepInRange, TypeOK, EndInv, OrderInv, EarnedInv, PlainCompleteIsEarned, Earned, Plain, Good, Executor
<1>20. CASE PollTick
  BY <1>20 DEF PollTick, Ok, OkSyserr, ctl, hist, TypeInv, StepInRange, TypeOK, EndInv, OrderInv, EarnedInv, PlainCompleteIsEarned, Earned, Plain, Good, Executor
<1>21. CASE PollCallback
  BY <1>21 DEF PollCallback, Ok, OkSyserr, ctl, hist, TypeInv, StepInRange, TypeOK, EndInv, OrderInv, EarnedInv, PlainCompleteIsEarned, Earned, Plain, Good, Executor
<1>22. CASE PollStops
  BY <1>22 DEF PollStops, Ok, OkSyserr, ctl, hist, TypeInv, StepInRange, TypeOK, EndInv, OrderInv, EarnedInv, PlainCompleteIsEarned, Earned, Plain, Good, Executor
<1>23. CASE PullEnds
  BY <1>23 DEF PullEnds, Ok, OkSyserr, ctl, hist, TypeInv, StepInRange, TypeOK, EndInv, OrderInv, EarnedInv, PlainCompleteIsEarned, Earned, Plain, Good, Executor
<1>24. CASE CommandEnds
  BY <1>24 DEF CommandEnds, Ok, OkSyserr, ctl, hist, TypeInv, StepInRange, TypeOK, EndInv, OrderInv, EarnedInv, PlainCompleteIsEarned, Earned, Plain, Good, Executor
<1>25. CASE CommandKilled
  BY <1>25 DEF CommandKilled, Ok, OkSyserr, ctl, hist, TypeInv, StepInRange, TypeOK, EndInv, OrderInv, EarnedInv, PlainCompleteIsEarned, Earned, Plain, Good, Executor
<1>26. CASE EndedOutside
  BY <1>26 DEF EndedOutside, Ok, OkSyserr, ctl, hist, TypeInv, StepInRange, TypeOK, EndInv, OrderInv, EarnedInv, PlainCompleteIsEarned, Earned, Plain, Good, Executor
<1>27. CASE ParentDone
  BY <1>27 DEF ParentDone, Ok, OkSyserr, ctl, hist, TypeInv, StepInRange, TypeOK, EndInv, OrderInv, EarnedInv, PlainCompleteIsEarned, Earned, Plain, Good, Executor
<1>. QED
  BY <1>1, <1>2, <1>3, <1>4, <1>5, <1>6, <1>7, <1>8, <1>9, <1>10, <1>11, <1>12, <1>13, <1>14, <1>15, <1>16, <1>17, <1>18, <1>19, <1>20, <1>21, <1>22, <1>23, <1>24, <1>25, <1>26, <1>27 DEF Next, Run, Poll

(* In a plain configuration COMPLETE is always earned: no interleaving of  *)
(* cancellation, failures and panics lets the worker report a success that *)
(* did not happen.                                                         *)
THEOREM CompleteCorrect == Spec => []PlainCompleteIsEarned
<1>1. EarnedInv => PlainCompleteIsEarned
  BY DEF EarnedInv
<1>2. TypeInv => TypeOK
  BY DEF TypeInv
<1>. QED
  BY <1>1, <1>2, TypeInit, TypeStep, EndInit, EndStep, OrderInit, OrderStep, EarnedInit, EarnedStep, PTL
     DEF Spec
-----------------------------------------------------------------------------
(* An executor error is that of the last executor that was started, and    *)
(* the loop is over with it.  Unless a system error came on top, the       *)
(* outputs are then tried.                                                 *)
ErrorInv ==
  /\ execerr => pc \in {"exec", "copyout", "upload", "defer", "final", "exit"}
  /\ execerr => \E k \in Executor : /\ k + 1 = i /\ ~conf.ignore[k]
                                    /\ outcome[k] \in {"executor", "interrupted"}
  /\ execerr /\ ~syserr /\ pc = "defer" => uploaded # "no" \/ dropped
  /\ ExecutorErrorUploads /\ ExecutorErrorIsReal

(* It holds when the run starts.                                           *)
LEMMA ErrorInit == Init => ErrorInv
BY DEF Init, ErrorInv, ExecutorErrorUploads, ExecutorErrorIsReal

(* How Run files the error of an executor.                                 *)
LEMMA FileErrorKeeps ==
  ASSUME TypeInv, EndInv, ErrorInv, NEW kind \in {"ok", "executor", "system", "interrupted"},
         pc \in {"step", "stopping"}, FileError(kind), UNCHANGED <<conf, final, uploaded, dropped>>
  PROVE  ErrorInv'
<1>1. i \in Executor /\ i' = i + 1 /\ pc' = "exec" /\ final = "UNKNOWN"
  BY DEF FileError, TypeInv, StepInRange, TypeOK, EndInv, Executor
<1>2. execerr' => kind \in {"executor", "interrupted"} /\ ~conf.ignore[i]
  BY DEF FileError
<1>3. outcome'[i] = kind
  BY <1>1 DEF FileError, TypeInv, TypeOK
<1>. QED
  BY <1>1, <1>2, <1>3 DEF ErrorInv, ExecutorErrorUploads, ExecutorErrorIsReal

(* The verdict EXECUTOR_ERROR, taken from what the run has recorded.       *)
LEMMA VerdictKeeps ==
  ASSUME TypeInv, OrderInv, ErrorInv, DecideFinal
  PROVE  ErrorInv'
<1>1. /\ pc = "defer" /\ pc' = "final" /\ final' = Verdict
      /\ UNCHANGED <<conf, i, syserr, execerr, outcome, uploaded, dropped>>
  BY DEF DecideFinal, ctl
<1>2. Verdict = "EXECUTOR_ERROR" => execerr /\ ~syserr
  BY DEF Verdict, TypeInv, TypeOK
<1>3. ExecutorErrorUploads'
  BY <1>1, <1>2 DEF ErrorInv, ExecutorErrorUploads
<1>4. ASSUME NEW k \in Executor, k + 1 = i, NEW j \in Executor, j > k
      PROVE  outcome[j] = "none"
  <2>1. ~(j < i)
    BY <1>4 DEF Executor, TypeInv, TypeOK
  <2>. QED
    BY <2>1 DEF OrderInv
<1>5. ExecutorErrorIsReal'
  BY <1>1, <1>2, <1>4 DEF ErrorInv, ExecutorErrorIsReal
<1>. QED
  BY <1>1, <1>3, <1>5 DEF ErrorInv

(* Every step keeps it.                                                    *)
LEMMA ErrorStep ==
  ASSUME TypeInv, EndInv, OrderInv, ErrorInv, [Next]_vars
  PROVE  ErrorInv'
<1>. USE DEF ctl, hist, ErrorInv, ExecutorErrorUploads, ExecutorErrorIsReal
<1>1. CASE UNCHANGED vars
  BY <1>1 DEF vars
<1>2. CASE ReadTask \/ Initialize \/ MapTask \/ DownloadInputs \/ ReportRunning
  BY <1>2 DEF ReadTask, Initialize, MapTask, DownloadInputs, ReportRunning
<1>3. CASE CopyInputsToScratch
  BY <1>3 DEF CopyInputsToScratch, EndInv
<1>4. CASE LoopEnds
  BY <1>4 DEF LoopEnds
<1>5. CASE ResourcesInvalid \/ OpenStepLogsFails \/ StartStep
  BY <1>5 DEF ResourcesInvalid, OpenStepLogsFails, StartStep, Ok, EndInv
<1>6. CASE StepDone
  <2>1. result \in {"ok", "executor", "system", "interrupted"}
    BY DEF TypeInv, TypeOK
  <2>. QED
    BY <1>6, <2>1, FileErrorKeeps DEF StepDone
<1>7. CASE StepStopped
  BY <1>7, FileErrorKeeps DEF StepStopped
<1>8. CASE StepCanceled
  BY <1>8 DEF StepCanceled
<1>9. CASE CopyOutputsToWorkDir
  BY <1>9 DEF CopyOutputsToWorkDir, EndInv
<1>10. CASE UploadOutputs
  BY <1>10 DEF UploadOutputs, EndInv
<1>11. CASE Panic
  BY <1>11 DEF Panic
<1>12. CASE DecideFinal
  BY <1>12, VerdictKeeps
<1>13. CASE WriteFinal
  BY <1>13 DEF WriteFinal
<1>14. CASE Poll
  BY <1>14 DEF Poll, PollTick, PollCallback, PollStops
<1>15. CASE PullEnds \/ CommandEnds \/ CommandKilled \/ EndedOutside \/ ParentDone
  BY <1>15 DEF PullEnds, CommandEnds, CommandKilled, EndedOutside, ParentDone
<1>. QED
  BY <1>1, <1>2, <1>3, <1>4, <1>5, <1>6, <1>7, <1>8, <1>9, <1>10, <1>11, <1>12, <1>13, <1>14, <1>15
     DEF Next, Run

(* A task reported as EXECUTOR_ERROR has an executor whose own error or    *)
(* interruption was not to be ignored, none was started after it, and the  *)
(* upload of the outputs was tried unless the copy from scratch failed.    *)
THEOREM ErrorCorrect == Spec => [](ExecutorErrorIsReal /\ ExecutorErrorUploads)
<1>1. ErrorInv => ExecutorErrorIsReal /\ ExecutorErrorUploads
  BY DEF ErrorInv
<1>2. TypeInv => TypeOK
  BY DEF TypeInv
<1>. QED
  BY <1>1, <1>2, TypeInit, TypeStep, EndInit, EndStep, OrderInit, OrderStep, ErrorInit, ErrorStep, PTL
     DEF Spec

-----------------------------------------------------------------------------
(* The container of a run.                                                 *)

(* The types, and what ties the container to where Run is: before the     *)
(* command there is none of this run, during it there is one or it ended. *)
ContainerInv ==
  /\ dstep \in {"sync", "pull", "run", "up", "returned"}
  /\ box \in {"none", "old", "own"}
  /\ ownEnd \in {"none", "ok", "failed", "killed"}
  /\ exitCode \in {"none", "ok", "failed"}
  /\ dstep \in {"sync", "pull", "run"} => box # "own" /\ exitCode = "none"
  /\ dstep = "up" => box = "own" \/ ownEnd # "none"
  /\ exitCode = "ok" => box # "own"
  /\ RunOwnsContainer

(* What DockerCommand.Run reports and leaves behind is that of its own     *)
(* container, whatever an older container of the name, the daemon, the     *)
(* client and Stop do meanwhile: RunOwnsContainer (executeCommand, Stop).  *)
THEOREM ContainerCorrect == DockerSpec => []RunOwnsContainer
<1>1. DockerInit => ContainerInv
  BY DEF DockerInit, Still, ContainerInv, RunOwnsContainer
<1>2. ContainerInv /\ [DockerNext]_dockerVars => ContainerInv'
  <2> SUFFICES ASSUME ContainerInv, [DockerNext]_dockerVars PROVE ContainerInv'
    OBVIOUS
  <2> USE DEF ContainerInv, RunOwnsContainer
  <2>1. CASE SyncAPIVersion
    BY <2>1 DEF SyncAPIVersion
  <2>2. CASE PullImage
    BY <2>2 DEF PullImage
  <2>3. CASE RunContainer
    BY <2>3 DEF RunContainer, Result
  <2>4. CASE ClientExits
    BY <2>4 DEF ClientExits, ClientReturns, Result
  <2>5. CASE ClientLost
    BY <2>5 DEF ClientLost, Result
  <2>6. CASE ContainerEnds
    BY <2>6 DEF ContainerEnds
  <2>7. CASE InspectContainer
    BY <2>7 DEF InspectContainer
  <2>8. CASE StopContainer
    BY <2>8 DEF StopContainer
  <2>9. CASE UNCHANGED dockerVars
    BY <2>9 DEF dockerVars
  <2>10. QED
    BY <2>1, <2>2, <2>3, <2>4, <2>5, <2>6, <2>7, <2>8, <2>9 DEF DockerNext, DockerRun
<1>3. QED
  BY <1>1, <1>2, PTL DEF DockerSpec, ContainerInv

-----------------------------------------------------------------------------
(* The transfers of a task.                                                *)

(* The types of the variables that the argument reads.                     *)
XferType ==
  /\ upload \in BOOLEAN /\ ctxOver \in BOOLEAN /\ taskOver \in BOOLEAN
  /\ phase \in {"flatten", "transfer", "returned"}
  /\ transfer \in [File -> {"queued", "active", "ok", "failed"}]
  /\ broken \in SUBSET File

(* The pool works only in its phase.                                       *)
PoolAtRest ==
  /\ phase # "transfer" => \A f \in File : transfer[f] # "active"
  /\ phase = "flatten" => transfer = [f \in File |-> "queued"]

(* Uploads share a context that only the task's cancels: a failed upload   *)
(* of a task that goes on failed by itself.                                *)
OwnFailures ==
  upload /\ ~taskOver =>
    /\ ~ctxOver
    /\ \A f \in File : transfer[f] = "failed" <=> f \in broken

(* The inductive invariant.                                                *)
XferInv == XferType /\ PoolAtRest /\ OwnFailures /\ TransfersReport

(* A step of one transfer: nothing was reported yet.                       *)
LEMMA TransferStep ==
  ASSUME XferInv, NEW f \in File, Started(f) \/ Finished(f) \/ Failed(f)
  PROVE  XferInv'
<1>1. phase = "transfer" /\ UNCHANGED <<upload, phase, taskOver, report>>
  BY DEF Started, Finished, Failed, XferInv, PoolAtRest
<1>2. \E s \in {"active", "ok", "failed"} : transfer' = [transfer EXCEPT ![f] = s]
  BY DEF Started, Finished, Failed
<1>3. broken' \in SUBSET File
  BY DEF Started, Finished, Failed, XferInv, XferType
<1>4. ctxOver' \in BOOLEAN
  BY DEF Started, Finished, Failed, XferInv, XferType
<1>5. XferType'
  BY <1>1, <1>2, <1>3, <1>4 DEF XferInv, XferType
<1>6. OwnFailures'
  <2> SUFFICES ASSUME upload, ~taskOver
               PROVE  /\ ~ctxOver'
                      /\ \A g \in File : transfer'[g] = "failed" <=> g \in broken'
    BY <1>1 DEF OwnFailures
  <2>1. ~ctxOver /\ \A g \in File : transfer[g] = "failed" <=> g \in broken
    BY DEF XferInv, OwnFailures
  <2>2. CASE Started(f) \/ Finished(f)
    <3>1. UNCHANGED <<ctxOver, broken>> /\ transfer[f] # "failed"
      BY <2>2 DEF Started, Finished
    <3>2. \E s \in {"active", "ok"} : transfer' = [transfer EXCEPT ![f] = s]
      BY <2>2 DEF Started, Finished
    <3>3. \A g \in File : transfer'[g] = "failed" <=> transfer[g] = "failed"
      BY <3>1, <3>2 DEF XferInv, XferType
    <3>4. QED
      BY <2>1, <3>1, <3>3
  <2>3. CASE Failed(f)
    <3>1. broken' = broken \cup {f} /\ ~ctxOver'
      BY <2>1, <2>3 DEF Failed
    <3>2. transfer' = [transfer EXCEPT ![f] = "failed"]
      BY <2>3 DEF Failed
    <3>3. QED
      BY <2>1, <3>1, <3>2 DEF XferInv, XferType
  <2>4. QED
    BY <2>2, <2>3
<1>7. PoolAtRest' /\ TransfersReport'
  BY <1>1 DEF PoolAtRest, TransfersReport
<1>8. QED
  BY <1>5, <1>6, <1>7 DEF XferInv

(* The end: every transfer ended, well or not.                             *)
LEMMA CollectStep ==
  ASSUME XferInv, Collect
  PROVE  XferInv'
<1>1. /\ UNCHANGED <<upload, transfer, ctxOver, taskOver, broken>>
      /\ phase = "transfer" /\ phase' = "returned"
  BY DEF Collect
<1>2. \A f \in File : transfer[f] \in {"ok", "failed"}
  BY DEF Collect, In, XferInv, XferType
<1>3. report' = [error |-> In({"failed"}) # {}, logs |-> IF upload THEN In({"ok"}) ELSE {}]
  BY DEF Collect
<1>4. XferType'
  BY <1>1 DEF XferInv, XferType
<1>5. PoolAtRest' /\ OwnFailures'
  BY <1>1, <1>2 DEF PoolAtRest, OwnFailures, XferInv
<1>6. report'.error = (\E f \in File : transfer[f] # "ok")
  <2>1. (In({"failed"}) # {}) <=> (\E f \in File : transfer[f] # "ok")
    BY <1>2 DEF In
  <2>2. report'.error = (In({"failed"}) # {})
    BY <1>3
  <2>3. QED
    BY <2>1, <2>2
<1>7. upload /\ ~taskOver => report'.logs = File \ broken
  <2>1. upload => report'.logs = In({"ok"})
    BY <1>3
  <2>2. upload /\ ~taskOver => In({"ok"}) = File \ broken
    BY <1>2 DEF In, XferInv, OwnFailures
  <2>3. QED
    BY <2>1, <2>2
<1>8. TransfersReport'
  BY <1>1, <1>6, <1>7 DEF TransfersReport
<1>9. QED
  BY <1>4, <1>5, <1>8 DEF XferInv

(* For any number of files and any parallel limit: DownloadInputs returns  *)
(* no error only when every file is there, and UploadOutputs of a task     *)
(* that is not canceled logs exactly the files whose own Put works.        *)
THEOREM TransfersCorrect == XferSpec => []TransfersReport
<1>1. XferInit => XferInv
  <2> SUFFICES ASSUME XferInit PROVE XferInv
    OBVIOUS
  <2>1. XferType
    BY DEF XferInit, NoReport, XferType
  <2>2. PoolAtRest /\ OwnFailures
    BY DEF XferInit, PoolAtRest, OwnFailures
  <2>3. TransfersReport
    BY DEF XferInit, TransfersReport
  <2>4. QED
    BY <2>1, <2>2, <2>3 DEF XferInv
<1>2. XferInv /\ [XferNext]_xferVars => XferInv'
  <2>1. ASSUME XferInv, UNCHANGED xferVars PROVE XferInv'
    BY <2>1 DEF xferVars, XferInv, XferType, PoolAtRest, OwnFailures, TransfersReport
  <2>2. ASSUME XferInv, Flatten PROVE XferInv'
    <3>1. /\ UNCHANGED <<upload, transfer, ctxOver, taskOver, broken>>
          /\ transfer = [f \in File |-> "queued"]
          /\ \/ phase' = "transfer" /\ UNCHANGED report
             \/ phase' = "returned" /\ report' = [error |-> TRUE, logs |-> {}]
      BY <2>2 DEF Flatten, XferInv, PoolAtRest
    <3>2. XferType'
      BY <2>2, <3>1 DEF XferInv, XferType
    <3>3. PoolAtRest'
      BY <3>1 DEF PoolAtRest
    <3>4. OwnFailures'
      BY <2>2, <3>1 DEF XferInv, OwnFailures
    <3>5. TransfersReport'
      BY <3>1 DEF TransfersReport
    <3>6. QED
      BY <3>2, <3>3, <3>4, <3>5 DEF XferInv
  <2>3. ASSUME XferInv, TaskContextDone PROVE XferInv'
    BY <2>3 DEF TaskContextDone, XferInv, XferType, PoolAtRest, OwnFailures, TransfersReport
  <2>4. QED
    BY <2>1, <2>2, <2>3, TransferStep, CollectStep DEF XferNext
<1>3. XferInv => TransfersReport
  BY DEF XferInv
<1>4. QED
  BY <1>1, <1>2, <1>3, PTL DEF XferSpec

-----------------------------------------------------------------------------
(* The files that the storage backends copy.                               *)

(* The requests of which Get and Put are made.                             *)
RequestName == {"stat", "region", "isDir", "list", "dial", "login", "open", "mkdir", "chdir", "ready", "new", "close",
         "same", "link", "create", "copy", "download", "upload", "store", "send"}

(* Those that move the contents.                                           *)
Moves == {"copy", "download", "upload", "store", "send"}

(* What the requests left to a call look like: a file that is created is   *)
(* written to afterwards; sameFile and os.Link are followed by the close   *)
(* that ends copyFile, after which nothing is created; and between os.Link *)
(* and the create of copyFile, sameFile is asked again.                    *)
Tidy(s) ==
  /\ s \in Seq(RequestName)
  /\ \A n \in 1..Len(s) : s[n] = "create" => \E j \in 1..Len(s) : j > n /\ s[j] \in {"copy", "download"}
  /\ \A n \in 1..Len(s) : s[n] \in {"same", "link"} => \E j \in 1..Len(s) : j > n /\ s[j] = "close"
  /\ \A n, j \in 1..Len(s) : s[n] = "close" /\ j > n => s[j] # "create"
  /\ \A n, j \in 1..Len(s) : s[n] = "link" /\ s[j] = "create" /\ j > n =>
       \E k \in 1..Len(s) : k > n /\ k < j /\ s[k] = "same"

(* The contents are still to be moved.                                     *)
Ahead(s) == \E n \in 1..Len(s) : s[n] \in Moves

(* The requests left do not destroy the source: if the files are one, or   *)
(* may yet be linked by another call, a create comes after another look by *)
(* sameFile, or after the attempt to link them.                            *)
Harmless(s, one, there) ==
  \A n \in 1..Len(s) :
    /\ s[n] = "create" =>
         /\ one => \E j \in 1..Len(s) : j < n /\ s[j] = "same"
         /\ options.linkable /\ there = "absent" => \E j \in 1..Len(s) : j < n /\ s[j] = "link"
    /\ s[n] \in {"store", "send"} => ~options.linkable
    /\ s[n] = "download" => backend = "amazonS3" /\ op = "get"

(* Get of Amazon S3 without a customer key, which hides a failed download. *)
HidesError == backend = "amazonS3" /\ op = "get" /\ ~options.customerKey

(* The values the variables take; files are linked only where the file     *)
(* system can link them, and a linked target is whole.                     *)
StorageType ==
  /\ backend \in Backends \cup {"none"} /\ op \in {"get", "put"}
  /\ options \in [customerKey : BOOLEAN, mounted : BOOLEAN, linkable : BOOLEAN]
  /\ options.linkable => scheme = "file"
  /\ scheme = "file" => backend \in {"none", "local"}
  /\ source = "whole" /\ target \in {"absent", "old", "partial", "whole"}
  /\ linked => options.linkable /\ target = "whole"
  /\ todo \in [Call -> Seq(RequestName)] /\ answer \in [Call -> {"none", "idle", "ok", "error"}]

(* What is left to each call is tidy and harmless, and a call with an      *)
(* answer has nothing left.                                                *)
CallsInv ==
  \A c \in Call :
    /\ Tidy(todo[c]) /\ Harmless(todo[c], linked, target)
    /\ answer[c] # "none" => todo[c] = <<>>
    /\ backend = "none" => answer[c] # "ok" /\ todo[c] = <<>>

(* A call that is alone and has moved the contents has left the target     *)
(* whole.                                                                  *)
WholeInv ==
  answer[1] \in {"none", "ok"} /\ answer[2] = "idle" /\ backend # "none" /\ ~Ahead(todo[1]) =>
    target = "whole" \/ HidesError

(* The inductive invariant.                                                *)
StorageInv == StorageType /\ CallsInv /\ WholeInv

(* What the argument needs of the requests of a backend.                   *)
Planned(b, s) ==
  /\ Tidy(s) /\ Ahead(s)
  /\ \A n \in 1..Len(s) :
       /\ b = "local" => /\ s[n] \notin {"store", "send"}
                         /\ s[n] = "create" => \E j \in 1..Len(s) : j < n /\ s[j] = "link"
       /\ s[n] = "download" => b = "amazonS3" /\ op = "get"

(* It holds of the local backend.                                          *)
LEMMA LocalIs == Planned("local", LocalGet) /\ Planned("local", LocalPut)
<1>1. Planned("local", LocalGet)
  BY DEF Planned, Tidy, Ahead, RequestName, Moves, LocalGet, linkFile, copyFile, LocalStat
<1>2. Planned("local", LocalPut)
  BY DEF Planned, Tidy, Ahead, RequestName, Moves, LocalPut, linkFile, copyFile, LocalStat
<1>3. QED
  BY <1>1, <1>2

(* It holds of Amazon S3.                                                  *)
LEMMA AmazonIs == (op = "get" => Planned("amazonS3", AmazonGet)) /\ Planned("amazonS3", AmazonPut)
<1>1. op = "get" => Planned("amazonS3", AmazonGet)
  BY DEF Planned, Tidy, Ahead, RequestName, Moves, AmazonGet, AmazonStat, AmazonParse
<1>2. Planned("amazonS3", AmazonPut)
  BY DEF Planned, Tidy, Ahead, RequestName, Moves, AmazonPut, AmazonStat, AmazonParse
<1>3. QED
  BY <1>1, <1>2

(* It holds of generic S3, with the bucket mounted or not.                 *)
LEMMA GenericIs == Planned("genericS3", GenericGet) /\ Planned("genericS3", GenericPut)
<1>1. CASE options.mounted
  <2>1. GenericGet = LocalStat \o <<"isDir">> \o copyFile /\ GenericPut = <<"ready">> \o copyFile \o LocalStat
    BY <1>1 DEF GenericGet, GenericPut, GenericStat
  <2>2. Planned("genericS3", LocalStat \o <<"isDir">> \o copyFile)
    BY DEF Planned, Tidy, Ahead, RequestName, Moves, LocalStat, copyFile
  <2>3. Planned("genericS3", <<"ready">> \o copyFile \o LocalStat)
    BY DEF Planned, Tidy, Ahead, RequestName, Moves, LocalStat, copyFile
  <2>4. QED
    BY <2>1, <2>2, <2>3
<1>2. CASE ~options.mounted
  <2>1. /\ GenericGet = <<"open", "isDir", "stat">> \o <<"isDir">> \o GenericDownload
        /\ GenericPut = <<"ready">> \o <<"upload">> \o <<"open", "isDir", "stat">>
    BY <1>2 DEF GenericGet, GenericPut, GenericStat
  <2>2. Planned("genericS3", <<"open", "isDir", "stat">> \o <<"isDir">> \o GenericDownload)
    BY DEF Planned, Tidy, Ahead, RequestName, Moves, GenericDownload
  <2>3. Planned("genericS3", <<"ready">> \o <<"upload">> \o <<"open", "isDir", "stat">>)
    BY DEF Planned, Tidy, Ahead, RequestName, Moves
  <2>4. QED
    BY <2>1, <2>2, <2>3
<1>3. QED
  BY <1>1, <1>2

(* It holds of Google Storage, HTTP, FTP and Swift.                        *)
LEMMA OthersAre ==
  /\ Planned("googleStorage", GoogleGet) /\ Planned("googleStorage", GooglePut)
  /\ Planned("httpStorage", HTTPGet)
  /\ Planned("ftpStorage", FTPGet) /\ Planned("ftpStorage", FTPPut)
  /\ Planned("swift", SwiftGet) /\ Planned("swift", SwiftPut)
<1>1. Planned("googleStorage", GoogleGet)
  BY DEF Planned, Tidy, Ahead, RequestName, Moves, GoogleGet, GoogleStat
<1>2. Planned("googleStorage", GooglePut)
  BY DEF Planned, Tidy, Ahead, RequestName, Moves, GooglePut, GoogleStat
<1>3. Planned("httpStorage", HTTPGet)
  BY DEF Planned, Tidy, Ahead, RequestName, Moves, HTTPGet
<1>4. Planned("ftpStorage", FTPGet)
  BY DEF Planned, Tidy, Ahead, RequestName, Moves, FTPGet, FTPConnect, FTPStat
<1>5. Planned("ftpStorage", FTPPut)
  BY DEF Planned, Tidy, Ahead, RequestName, Moves, FTPPut, FTPConnect, FTPStat
<1>6. Planned("swift", SwiftGet)
  BY DEF Planned, Tidy, Ahead, RequestName, Moves, SwiftGet, SwiftStat
<1>7. Planned("swift", SwiftPut)
  BY DEF Planned, Tidy, Ahead, RequestName, Moves, SwiftPut, SwiftStat
<1>8. QED
  BY <1>1, <1>2, <1>3, <1>4, <1>5, <1>6, <1>7

(* So it holds of the backend that FindBackend returns.                    *)
LEMMA PlanIs ==
  ASSUME op \in {"get", "put"}, NEW b \in Backends
  PROVE  Planned(b, Requests(b))
<1>1. CASE b = "local"
  BY <1>1, LocalIs DEF Requests
<1>2. CASE b = "amazonS3"
  BY <1>2, AmazonIs DEF Requests
<1>3. CASE b = "genericS3"
  BY <1>3, GenericIs DEF Requests
<1>4. CASE b \in {"googleStorage", "httpStorage", "ftpStorage", "swift"}
  BY <1>4, OthersAre DEF Requests
<1>5. QED
  BY <1>1, <1>2, <1>3, <1>4 DEF Backends

(* What is left of a sequence after its first m elements.                  *)
Rest(t, s, m) ==
  /\ t \in Seq(RequestName) /\ Len(t) = Len(s) - m
  /\ \A n \in 1..Len(t) : t[n] = s[n + m]

(* It is the tail after one element.                                       *)
LEMMA TailIs ==
  ASSUME NEW s \in Seq(RequestName), s # <<>>
  PROVE  Rest(Tail(s), s, 1) /\ 1 \in 1..Len(s) /\ Head(s) = s[1]
BY DEF Rest

(* It is a subsequence after more of them.                                 *)
LEMMA AfterIs ==
  ASSUME NEW s \in Seq(RequestName), NEW m \in 1..Len(s)
  PROVE  Rest(SubSeq(s, m + 1, Len(s)), s, m)
BY DEF Rest

(* What is left of tidy requests is tidy.                                  *)
LEMMA LaterTidy ==
  ASSUME NEW s, Tidy(s), NEW m \in 1..Len(s), NEW t, Rest(t, s, m)
  PROVE  Tidy(t)
<1>0. s \in Seq(RequestName) /\ Len(s) \in Nat /\ t \in Seq(RequestName) /\ Len(t) \in Nat /\ m \in Nat
  BY DEF Tidy, Rest
<1>1. \A n \in 1..Len(t) : n + m \in 1..Len(s) /\ s[n + m] = t[n]
  BY <1>0 DEF Rest
<1>2. \A j \in 1..Len(s) : j > m => j - m \in 1..Len(t) /\ t[j - m] = s[j]
  BY <1>0 DEF Rest
<1>3. ASSUME NEW n \in 1..Len(t), t[n] = "create"
      PROVE  \E j \in 1..Len(t) : j > n /\ t[j] \in {"copy", "download"}
  <2>0. n + m \in 1..Len(s) /\ s[n + m] = "create"
    BY <1>1, <1>3
  <2>1. PICK j \in 1..Len(s) : j > n + m /\ s[j] \in {"copy", "download"}
    BY <2>0 DEF Tidy
  <2>2. j - m \in 1..Len(t) /\ j - m > n /\ t[j - m] = s[j]
    BY <1>0, <1>2, <2>1
  <2>3. QED
    BY <2>1, <2>2
<1>4. ASSUME NEW n \in 1..Len(t), t[n] \in {"same", "link"}
      PROVE  \E j \in 1..Len(t) : j > n /\ t[j] = "close"
  <2>1. PICK j \in 1..Len(s) : j > n + m /\ s[j] = "close"
    BY <1>1, <1>4 DEF Tidy
  <2>2. j - m \in 1..Len(t) /\ j - m > n /\ t[j - m] = s[j]
    BY <1>0, <1>2, <2>1
  <2>3. QED
    BY <2>1, <2>2
<1>5. ASSUME NEW n \in 1..Len(t), NEW j \in 1..Len(t), t[n] = "close", j > n
      PROVE  t[j] # "create"
  <2>1. n + m \in 1..Len(s) /\ j + m \in 1..Len(s) /\ j + m > n + m
    BY <1>0, <1>1, <1>5
  <2>2. QED
    BY <1>1, <1>5, <2>1 DEF Tidy
<1>6. ASSUME NEW n \in 1..Len(t), NEW j \in 1..Len(t), t[n] = "link", t[j] = "create", j > n
      PROVE  \E k \in 1..Len(t) : k > n /\ k < j /\ t[k] = "same"
  <2>1. n + m \in 1..Len(s) /\ j + m \in 1..Len(s) /\ j + m > n + m
    BY <1>0, <1>1, <1>6
  <2>2. s[n + m] = "link" /\ s[j + m] = "create"
    BY <1>1, <1>6
  <2>3. PICK k \in 1..Len(s) : k > n + m /\ k < j + m /\ s[k] = "same"
    BY <2>1, <2>2 DEF Tidy
  <2>4. k - m \in 1..Len(t) /\ k - m > n /\ k - m < j /\ t[k - m] = s[k]
    BY <1>0, <1>2, <2>3
  <2>5. QED
    BY <2>3, <2>4
<1>7. QED
  BY <1>0, <1>3, <1>4, <1>5, <1>6 DEF Tidy

(* What is left after one request is harmless, if sameFile did not just    *)
(* find one file and os.Link did not just find no target.                  *)
LEMMA LaterSafe ==
  ASSUME StorageType, NEW s, Tidy(s), s # <<>>, NEW t, Rest(t, s, 1),
         NEW one, NEW there, NEW one1, NEW there1, Harmless(s, one, there),
         one1 => one /\ s[1] # "same",
         options.linkable /\ there1 = "absent" => there = "absent" /\ s[1] # "link"
  PROVE  Harmless(t, one1, there1)
<1>0. s \in Seq(RequestName) /\ Len(s) \in Nat /\ t \in Seq(RequestName) /\ Len(t) \in Nat
  BY DEF Tidy, Rest
<1>1. \A n \in 1..Len(t) : n + 1 \in 1..Len(s) /\ s[n + 1] = t[n]
  BY <1>0 DEF Rest
<1>2. \A j \in 1..Len(s) : j # 1 => j - 1 \in 1..Len(t) /\ t[j - 1] = s[j]
  BY <1>0 DEF Rest
<1>3. ASSUME NEW n \in 1..Len(t), t[n] = "create", one1
      PROVE  \E j \in 1..Len(t) : j < n /\ t[j] = "same"
  <2>1. PICK j \in 1..Len(s) : j < n + 1 /\ s[j] = "same"
    BY <1>1, <1>3 DEF Harmless
  <2>2. j # 1
    BY <1>3, <2>1
  <2>3. j - 1 \in 1..Len(t) /\ j - 1 < n /\ t[j - 1] = s[j]
    BY <1>0, <1>2, <2>1, <2>2
  <2>4. QED
    BY <2>1, <2>3
<1>4. ASSUME NEW n \in 1..Len(t), t[n] = "create", options.linkable, there1 = "absent"
      PROVE  \E j \in 1..Len(t) : j < n /\ t[j] = "link"
  <2>1. PICK j \in 1..Len(s) : j < n + 1 /\ s[j] = "link"
    BY <1>1, <1>4 DEF Harmless
  <2>2. j # 1
    BY <1>4, <2>1
  <2>3. j - 1 \in 1..Len(t) /\ j - 1 < n /\ t[j - 1] = s[j]
    BY <1>0, <1>2, <2>1, <2>2
  <2>4. QED
    BY <2>1, <2>3
<1>5. QED
  BY <1>1, <1>3, <1>4 DEF Harmless

(* What is left after the close is harmless, whatever became of the files. *)
LEMMA ClosedSafe ==
  ASSUME NEW s, Tidy(s), NEW m \in 1..Len(s), s[m] = "close", NEW t, Rest(t, s, m),
         NEW one, NEW there, NEW one1, NEW there1, Harmless(s, one, there)
  PROVE  Harmless(t, one1, there1)
<1>0. s \in Seq(RequestName) /\ Len(s) \in Nat /\ t \in Seq(RequestName) /\ Len(t) \in Nat /\ m \in Nat
  BY DEF Tidy, Rest
<1>1. \A n \in 1..Len(t) : n + m \in 1..Len(s) /\ n + m > m /\ s[n + m] = t[n]
  BY <1>0 DEF Rest
<1>2. \A n \in 1..Len(t) : t[n] # "create"
  BY <1>1 DEF Tidy
<1>3. QED
  BY <1>1, <1>2 DEF Harmless

(* If the contents need not be moved any more after a request, it was that *)
(* request which moved them.                                               *)
LEMMA LaterAhead ==
  ASSUME NEW s \in Seq(RequestName), s # <<>>, NEW t, Rest(t, s, 1), ~Ahead(t)
  PROVE  \A n \in 1..Len(s) : n = 1 \/ s[n] \notin Moves
<1>0. Len(s) \in Nat /\ t \in Seq(RequestName) /\ Len(t) \in Nat
  BY DEF Rest
<1>1. \A j \in 1..Len(s) : j # 1 => j - 1 \in 1..Len(t) /\ t[j - 1] = s[j]
  BY <1>0 DEF Rest
<1>2. QED
  BY <1>1 DEF Ahead

(* What a request that succeeded leaves to its call.                       *)
LEMMA DoneIs ==
  ASSUME StorageInv, NEW c \in Call, todo[c] # <<>>, Done(c)
  PROVE  /\ Rest(todo'[c], todo[c], 1) /\ todo' = [todo EXCEPT ![c] = todo'[c]]
         /\ answer' = IF todo'[c] = <<>> THEN [answer EXCEPT ![c] = "ok"] ELSE answer
         /\ Head(todo[c]) = todo[c][1] /\ 1 \in 1..Len(todo[c])
<1>1. todo \in [Call -> Seq(RequestName)] /\ todo[c] \in Seq(RequestName)
  BY DEF StorageInv, StorageType
<1>2. todo' = [todo EXCEPT ![c] = Tail(todo[c])] /\ todo'[c] = Tail(todo[c])
  BY <1>1 DEF Done, Go
<1>3. QED
  BY <1>1, <1>2, TailIs DEF Done, Go

(* What copyFile and linkFile leave to their call when they return early.  *)
LEMMA CopiedIs ==
  ASSUME StorageInv, NEW c \in Call, todo[c] # <<>>, Head(todo[c]) \in {"same", "link"}, Copied(c)
  PROVE  /\ \E m \in 1..Len(todo[c]) : todo[c][m] = "close" /\ Rest(todo'[c], todo[c], m)
         /\ todo' = [todo EXCEPT ![c] = todo'[c]]
         /\ answer' = IF todo'[c] = <<>> THEN [answer EXCEPT ![c] = "ok"] ELSE answer
<1>1. todo \in [Call -> Seq(RequestName)] /\ todo[c] \in Seq(RequestName) /\ Tidy(todo[c])
  BY DEF StorageInv, StorageType, CallsInv
<1>2. Head(todo[c]) = todo[c][1] /\ 1 \in 1..Len(todo[c])
  BY <1>1, TailIs
<1>3. PICK m : m = CHOOSE k \in 1..Len(todo[c]) : todo[c][k] = "close"
  OBVIOUS
<1>4. m \in 1..Len(todo[c]) /\ todo[c][m] = "close"
  BY <1>1, <1>2, <1>3 DEF Tidy
<1>5. Go(c, SubSeq(todo[c], m + 1, Len(todo[c])))
  BY <1>3 DEF Copied
<1>6. /\ todo' = [todo EXCEPT ![c] = SubSeq(todo[c], m + 1, Len(todo[c]))]
      /\ todo'[c] = SubSeq(todo[c], m + 1, Len(todo[c]))
  BY <1>1, <1>5 DEF Go
<1>7. QED
  BY <1>1, <1>4, <1>5, <1>6, AfterIs DEF Go

(* What a request that failed leaves to its call: nothing, or Swift's      *)
(* requests again.                                                         *)
LEMMA FailIs ==
  ASSUME StorageInv, NEW c \in Call, todo[c] # <<>>, Fail(c)
  PROVE  /\ todo' = [todo EXCEPT ![c] = todo'[c]]
         /\ \/ todo'[c] = <<>> /\ answer' = [answer EXCEPT ![c] = "error"]
            \/ Planned("swift", todo'[c]) /\ answer' = answer /\ backend = "swift" /\ answer[c] = "none"
<1>1. todo \in [Call -> Seq(RequestName)] /\ op \in {"get", "put"} /\ "swift" \in Backends /\ answer[c] = "none"
  BY DEF StorageInv, StorageType, Backends, CallsInv
<1>2. Planned("swift", Requests("swift"))
  BY <1>1, PlanIs
<1>3. QED
  BY <1>1, <1>2 DEF Fail, Retried

(* A step of one call leaves the other call as it was, if it neither links *)
(* the files nor removes the target.                                       *)
LEMMA CallsKept ==
  ASSUME StorageInv, NEW c \in Call, todo' = [todo EXCEPT ![c] = todo'[c]],
         Tidy(todo'[c]), Harmless(todo'[c], linked', target'),
         \/ answer' = answer /\ answer[c] = "none"
         \/ todo'[c] = <<>> /\ answer' \in {[answer EXCEPT ![c] = a] : a \in {"ok", "error"}},
         linked' => linked, target' = "absent" => target = "absent",
         backend # "none", UNCHANGED <<backend, op, options>>
  PROVE  CallsInv'
<1>1. todo \in [Call -> Seq(RequestName)] /\ answer \in [Call -> {"none", "idle", "ok", "error"}]
  BY DEF StorageInv, StorageType
<1>2. ASSUME NEW d \in Call PROVE Tidy(todo'[d]) /\ Harmless(todo'[d], linked', target')
  <2>1. CASE d = c
    BY <2>1
  <2>2. CASE d # c
    <3>1. todo'[d] = todo[d]
      BY <1>1, <2>2
    <3>2. QED
      BY <3>1 DEF StorageInv, CallsInv, Harmless
  <2>3. QED
    BY <2>1, <2>2
<1>3. ASSUME NEW d \in Call PROVE Harmless(todo'[d], linked', target') => Harmless(todo[d], linked, target)'
  BY DEF Harmless
<1>4. ASSUME NEW d \in Call PROVE Tidy(todo'[d]) => Tidy(todo[d])'
  BY DEF Tidy
<1>5. ASSUME NEW d \in Call, answer'[d] # "none" PROVE todo'[d] = <<>>
  BY <1>1, <1>5 DEF StorageInv, CallsInv
<1>6. QED
  BY <1>2, <1>3, <1>4, <1>5 DEF CallsInv

(* With one call only, it is the first.                                    *)
LEMMA OneCall ==
  ASSUME StorageInv, NEW c \in Call, todo[c] # <<>>, answer[2] = "idle"
  PROVE  c = 1 /\ answer[1] = "none"
BY DEF StorageInv, CallsInv, Call

(* A call with requests left has no answer yet.                            *)
LEMMA CallIs ==
  ASSUME StorageInv, NEW c \in Call, todo[c] # <<>>
  PROVE  /\ backend # "none" /\ answer[c] = "none" /\ Tidy(todo[c]) /\ Harmless(todo[c], linked, target)
         /\ todo[c] \in Seq(RequestName)
         /\ Head(todo[c]) = todo[c][1] /\ 1 \in 1..Len(todo[c])
<1>1. todo[c] \in Seq(RequestName)
  BY DEF StorageInv, StorageType
<1>2. QED
  BY <1>1, TailIs DEF StorageInv, CallsInv

(* What the requests leave alone.                                          *)
SameSetting == UNCHANGED <<backend, ctxEnded, scheme, op, options>>

(* A request that succeeds keeps the invariant, if it left the files so.   *)
LEMMA DoneStep ==
  ASSUME StorageInv, NEW c \in Call, todo[c] # <<>>, Done(c), SameSetting,
         source' = source, linked' = linked, target' \in {"absent", "old", "partial", "whole"},
         linked => target' = "whole" /\ Head(todo[c]) # "same",
         target' = "absent" => target = "absent",
         options.linkable /\ target' = "absent" => Head(todo[c]) # "link",
         \/ target' = "whole" \/ Head(todo[c]) = "create"
         \/ target' = target /\ Head(todo[c]) \notin Moves
         \/ HidesError
  PROVE  StorageInv'
<1>1. /\ Rest(todo'[c], todo[c], 1) /\ todo' = [todo EXCEPT ![c] = todo'[c]]
      /\ answer' = IF todo'[c] = <<>> THEN [answer EXCEPT ![c] = "ok"] ELSE answer
  BY DoneIs
<1>2. /\ backend # "none" /\ answer[c] = "none" /\ Tidy(todo[c]) /\ Harmless(todo[c], linked, target)
      /\ todo[c] \in Seq(RequestName) /\ Head(todo[c]) = todo[c][1] /\ 1 \in 1..Len(todo[c])
  BY CallIs
<1>3. StorageType
  BY DEF StorageInv
<1>4. StorageType'
  BY <1>1, <1>3 DEF StorageType, SameSetting, Rest
<1>5. Tidy(todo'[c])
  BY <1>1, <1>2, LaterTidy
<1>6. Harmless(todo'[c], linked', target')
  BY <1>1, <1>2, <1>3, LaterSafe
<1>7. CallsInv'
  BY <1>1, <1>2, <1>5, <1>6, CallsKept DEF SameSetting
<1>8. WholeInv'
  <2>1. SUFFICES ASSUME answer'[1] \in {"none", "ok"}, answer'[2] = "idle", ~Ahead(todo'[1])
                 PROVE  target' = "whole" \/ HidesError
    BY DEF WholeInv, HidesError, SameSetting, Ahead
  <2>2. answer[2] = "idle"
    BY <1>1, <1>2, <1>3, <2>1 DEF StorageType, Call
  <2>3. c = 1 /\ answer[1] = "none"
    BY <2>2, <1>2, OneCall
  <2>4. \A n \in 1..Len(todo[c]) : n = 1 \/ todo[c][n] \notin Moves
    BY <1>1, <1>2, <2>1, <2>3, LaterAhead
  <2>5. todo[c][1] # "create"
    BY <1>2, <2>4 DEF Tidy, Moves
  <2>6. CASE target' = target /\ todo[c][1] \notin Moves
    BY <1>2, <2>2, <2>3, <2>4, <2>6 DEF StorageInv, WholeInv, Ahead
  <2>7. QED
    BY <1>2, <2>5, <2>6
<1>9. QED
  BY <1>4, <1>7, <1>8 DEF StorageInv

(* A request that fails keeps it, with or without another try.             *)
LEMMA FailStep ==
  ASSUME StorageInv, NEW c \in Call, todo[c] # <<>>, Fail(c), SameSetting,
         source' = source, linked' = linked, target' \in {target, "partial"},
         linked => target' = target
  PROVE  StorageInv'
<1>1. /\ todo' = [todo EXCEPT ![c] = todo'[c]]
      /\ \/ todo'[c] = <<>> /\ answer' = [answer EXCEPT ![c] = "error"]
         \/ Planned("swift", todo'[c]) /\ answer' = answer /\ backend = "swift" /\ answer[c] = "none"
  BY FailIs
<1>2. backend # "none" /\ answer[c] = "none" /\ StorageType
  BY CallIs DEF StorageInv
<1>3. Tidy(todo'[c]) /\ Harmless(todo'[c], linked', target')
  <2>1. CASE todo'[c] = <<>>
    BY <2>1 DEF Tidy, Harmless
  <2>2. CASE Planned("swift", todo'[c]) /\ backend = "swift"
    <3>1. ~options.linkable /\ ~linked'
      BY <1>2, <2>2 DEF StorageType
    <3>2. QED
      BY <2>2, <3>1 DEF Planned, Harmless
  <2>3. QED
    BY <1>1, <2>1, <2>2
<1>4. StorageType'
  <2>0. todo'[c] \in Seq(RequestName) /\ todo' = [todo EXCEPT ![c] = todo'[c]] /\ todo \in [Call -> Seq(RequestName)]
    BY <1>1, <1>2, <1>3 DEF StorageType, Tidy
  <2>1. todo' \in [Call -> Seq(RequestName)]
    BY <2>0
  <2>2. answer' \in [Call -> {"none", "idle", "ok", "error"}]
    BY <1>1, <1>2 DEF StorageType
  <2>3. QED
    BY <1>2, <2>1, <2>2 DEF StorageType, SameSetting
<1>5. CallsInv'
  BY <1>1, <1>2, <1>3, CallsKept DEF SameSetting
<1>6. WholeInv'
  <2>1. SUFFICES ASSUME answer'[1] \in {"none", "ok"}, answer'[2] = "idle", ~Ahead(todo'[1])
                 PROVE  FALSE
    BY DEF WholeInv, HidesError, SameSetting, Ahead
  <2>2. answer[2] = "idle"
    BY <1>1, <1>2, <2>1 DEF StorageType, Call
  <2>3. c = 1 /\ answer[1] = "none"
    BY <2>2, <1>2, OneCall
  <2>4. QED
    BY <1>1, <1>2, <2>1, <2>3 DEF Planned, StorageType, Call
<1>7. QED
  BY <1>4, <1>5, <1>6 DEF StorageInv

(* So does a call that finds or makes the files one.                       *)
LEMMA CopiedStep ==
  ASSUME StorageInv, NEW c \in Call, todo[c] # <<>>, Head(todo[c]) \in {"same", "link"}, Copied(c), SameSetting,
         source' = source, linked' = TRUE, target' = "whole", options.linkable, linked \/ target = "absent"
  PROVE  StorageInv'
<1>1. /\ todo' = [todo EXCEPT ![c] = todo'[c]]
      /\ answer' = IF todo'[c] = <<>> THEN [answer EXCEPT ![c] = "ok"] ELSE answer
  BY CopiedIs
<1>2. PICK m \in 1..Len(todo[c]) : todo[c][m] = "close" /\ Rest(todo'[c], todo[c], m)
  BY CopiedIs
<1>3. /\ backend # "none" /\ answer[c] = "none" /\ Tidy(todo[c]) /\ Harmless(todo[c], linked, target)
      /\ StorageType
  BY CallIs DEF StorageInv
<1>4. Tidy(todo'[c]) /\ Harmless(todo'[c], TRUE, "whole")
  BY <1>2, <1>3, LaterTidy, ClosedSafe
<1>5. StorageType'
  <2>1. todo' \in [Call -> Seq(RequestName)]
    BY <1>1, <1>3, <1>4 DEF StorageType, Tidy
  <2>2. answer' \in [Call -> {"none", "idle", "ok", "error"}]
    BY <1>1, <1>3 DEF StorageType
  <2>3. QED
    BY <1>3, <2>1, <2>2 DEF StorageType, SameSetting
<1>6. ASSUME NEW d \in Call PROVE Tidy(todo'[d]) /\ Harmless(todo'[d], TRUE, "whole")
  <2>1. CASE d = c
    BY <1>4, <2>1
  <2>2. CASE d # c
    <3>1. todo'[d] = todo[d] /\ Tidy(todo[d]) /\ Harmless(todo[d], linked, target)
      BY <1>1, <1>3, <2>2 DEF StorageInv, StorageType, CallsInv
    <3>2. ASSUME NEW n \in 1..Len(todo[d]), todo[d][n] = "create"
          PROVE  \E j \in 1..Len(todo[d]) : j < n /\ todo[d][j] = "same"
      <4>1. CASE linked
        BY <3>1, <3>2, <4>1 DEF Harmless
      <4>2. CASE target = "absent"
        <5>1. PICK j \in 1..Len(todo[d]) : j < n /\ todo[d][j] = "link"
          BY <3>1, <3>2, <4>2 DEF Harmless
        <5>2. n > j
          BY <3>1, <5>1 DEF Tidy
        <5>3. \A x, y \in 1..Len(todo[d]) :
                todo[d][x] = "link" /\ todo[d][y] = "create" /\ y > x =>
                  \E k \in 1..Len(todo[d]) : k > x /\ k < y /\ todo[d][k] = "same"
          BY <3>1 DEF Tidy
        <5>4. PICK k \in 1..Len(todo[d]) : k > j /\ k < n /\ todo[d][k] = "same"
          BY <3>2, <5>1, <5>2, <5>3
        <5>5. QED
          BY <5>4
      <4>3. QED
        BY <4>1, <4>2
    <3>3. QED
      BY <3>1, <3>2 DEF Harmless
  <2>3. QED
    BY <2>1, <2>2
<1>7. CallsInv'
  <2>1. ASSUME NEW d \in Call PROVE Harmless(todo[d], linked, target)' /\ Tidy(todo[d])'
    <3>1. Harmless(todo[d], linked, target)'
      BY <1>6 DEF Harmless, SameSetting
    <3>2. Tidy(todo[d])'
      BY <1>6 DEF Tidy
    <3>3. QED
      BY <3>1, <3>2
  <2>2. ASSUME NEW d \in Call, answer'[d] # "none" PROVE todo'[d] = <<>>
    BY <1>1, <1>3, <2>2 DEF StorageInv, StorageType, CallsInv
  <2>3. QED
    BY <1>3, <2>1, <2>2 DEF CallsInv, SameSetting
<1>8. QED
  BY <1>5, <1>7 DEF StorageInv, WholeInv

(* So does sameFile.                                                       *)
LEMMA SameStep ==
  ASSUME StorageInv, NEW c \in Call, SameFile(c), SameSetting
  PROVE  StorageInv'
<1>1. todo[c] # <<>> /\ Head(todo[c]) = "same" /\ UNCHANGED files
  BY DEF SameFile, Next1
<1>2. CASE ~linked
  <2>1. Done(c) /\ target \in {"absent", "old", "partial", "whole"}
    BY <1>2 DEF SameFile, StorageInv, StorageType
  <2>2. QED
    BY <1>1, <1>2, <2>1, DoneStep DEF files, Moves
<1>3. CASE linked
  BY <1>1, <1>3, CopiedStep DEF SameFile, files, StorageInv, StorageType
<1>4. QED
  BY <1>2, <1>3

(* So does os.Link.                                                        *)
LEMMA LinkStep ==
  ASSUME StorageInv, NEW c \in Call, Link(c), SameSetting
  PROVE  StorageInv'
<1>1. todo[c] # <<>> /\ Head(todo[c]) = "link"
  BY DEF Link, Next1
<1>2. CASE options.linkable /\ target = "absent"
  <2>1. linked' = TRUE /\ target' = "whole" /\ Copied(c) /\ source' = source
    BY <1>2 DEF Link, StorageInv, StorageType
  <2>2. QED
    BY <1>1, <1>2, <2>1, CopiedStep
<1>3. CASE ~(options.linkable /\ target = "absent")
  <2>1. Done(c) /\ UNCHANGED files /\ StorageType
    BY <1>3 DEF Link, StorageInv
  <2>2. target \in {"absent", "old", "partial", "whole"} /\ (linked => target = "whole")
    BY <2>1 DEF StorageType
  <2>3. QED
    BY <1>1, <1>3, <2>1, <2>2, DoneStep DEF files, Moves
<1>4. QED
  BY <1>2, <1>3

(* So does a request that changes neither file.                            *)
LEMMA RequestStep ==
  ASSUME StorageInv, NEW c \in Call, Request(c), SameSetting
  PROVE  StorageInv'
<1>1. /\ todo[c] # <<>> /\ Head(todo[c]) \notin Moves \cup {"same", "link", "create"} /\ UNCHANGED files
      /\ Done(c) \/ Fail(c)
  BY DEF Request, Moves
<1>2. target \in {"absent", "old", "partial", "whole"} /\ (linked => target = "whole")
  BY DEF StorageInv, StorageType
<1>3. CASE Done(c)
  BY <1>1, <1>2, <1>3, DoneStep DEF files
<1>4. CASE Fail(c)
  BY <1>1, <1>2, <1>4, FailStep DEF files
<1>5. QED
  BY <1>1, <1>3, <1>4

(* So does os.Create: the files are not one, for sameFile was asked after  *)
(* the last moment at which they could be linked.                          *)
LEMMA CreateStep ==
  ASSUME StorageInv, NEW c \in Call, Create(c), SameSetting
  PROVE  StorageInv'
<1>1. todo[c] # <<>> /\ Head(todo[c]) = "create"
  BY DEF Create, Next1
<1>2. /\ Harmless(todo[c], linked, target) /\ Head(todo[c]) = todo[c][1] /\ 1 \in 1..Len(todo[c])
      /\ todo[c] \in Seq(RequestName)
  BY <1>1, CallIs
<1>3. ~linked
  BY <1>1, <1>2 DEF Harmless
<1>4. CASE target' = "partial" /\ source' = source /\ Done(c) /\ linked' = linked
  BY <1>1, <1>3, <1>4, DoneStep
<1>5. CASE Fail(c) /\ UNCHANGED files
  BY <1>1, <1>3, <1>5, FailStep DEF files
<1>6. QED
  BY <1>3, <1>4, <1>5 DEF Create

(* So do io.Copy, the download of Amazon S3, and an upload.                *)
LEMMA CopyStep ==
  ASSUME StorageInv, NEW c \in Call, Copy(c) \/ Download(c) \/ UploadObject(c), SameSetting
  PROVE  StorageInv'
<1>1. todo[c] # <<>> /\ Head(todo[c]) \in {"copy", "download", "upload"} /\ source = "whole"
  BY DEF Copy, Download, UploadObject, Next1, StorageInv, StorageType
<1>2. CASE target' = source /\ Done(c) /\ UNCHANGED <<source, linked>>
  BY <1>1, <1>2, DoneStep
<1>3. CASE Fail(c) /\ UNCHANGED files
  BY <1>1, <1>3, FailStep DEF files
<1>4. CASE Head(todo[c]) = "download" /\ ~options.customerKey /\ Done(c) /\ UNCHANGED files
  <2>1. Harmless(todo[c], linked, target) /\ Head(todo[c]) = todo[c][1] /\ 1 \in 1..Len(todo[c])
    BY <1>1, CallIs
  <2>2. HidesError
    BY <1>4, <2>1 DEF Harmless, HidesError
  <2>3. target \in {"absent", "old", "partial", "whole"} /\ (linked => target = "whole")
    BY DEF StorageInv, StorageType
  <2>4. QED
    BY <1>1, <1>4, <2>2, <2>3, DoneStep DEF files
<1>5. QED
  BY <1>2, <1>3, <1>4 DEF Copy, Download, UploadObject, Next1

(* So do STOR of FTP and the writer of Swift, which leave a part of the    *)
(* object when they fail.                                                  *)
LEMMA SendStep ==
  ASSUME StorageInv, NEW c \in Call, Store(c) \/ Send(c), SameSetting
  PROVE  StorageInv'
<1>1. todo[c] # <<>> /\ Head(todo[c]) \in {"store", "send"} /\ source = "whole" /\ UNCHANGED <<source, linked>>
  BY DEF Store, Send, Next1, StorageInv, StorageType
<1>2. Harmless(todo[c], linked, target) /\ Head(todo[c]) = todo[c][1] /\ 1 \in 1..Len(todo[c])
  BY <1>1, CallIs
<1>3. ~linked
  BY <1>1, <1>2 DEF Harmless, StorageInv, StorageType
<1>4. CASE target' = source /\ Done(c)
  BY <1>1, <1>3, <1>4, DoneStep
<1>5. CASE target' \in {target, "partial"} /\ Fail(c)
  BY <1>1, <1>3, <1>5, FailStep
<1>6. QED
  BY <1>4, <1>5 DEF Store, Send

(* So does FindBackend, which hands the calls their requests.              *)
LEMMA FindStep ==
  ASSUME StorageInv, FindBackend, UNCHANGED <<ctxEnded, scheme, op, options>>
  PROVE  StorageInv'
<1>0. StorageType /\ CallsInv /\ backend = "none" /\ UNCHANGED <<source, target, linked>>
  BY DEF StorageInv, FindBackend
<1>1. CASE backend' = backend
  <2>1. todo' = todo /\ answer' = [c \in Call |-> IF answer[c] = "none" THEN "error" ELSE answer[c]]
    BY <1>0, <1>1 DEF FindBackend, Backends
  <2>2. StorageType'
    BY <1>0, <1>1, <2>1 DEF StorageType
  <2>3. CallsInv'
    BY <1>0, <1>1, <2>1 DEF CallsInv, StorageType, Harmless, Tidy
  <2>4. QED
    BY <1>0, <1>1, <2>2, <2>3 DEF StorageInv, WholeInv
<1>2. CASE backend' # backend
  <2>1. /\ backend' \in Backends /\ TRUE \in Supports(backend')
        /\ todo' = [c \in Call |-> IF answer[c] = "none" THEN Requests(backend') ELSE <<>>]
        /\ answer' = answer
    BY <1>2 DEF FindBackend
  <2>2. scheme = "file" => backend' = "local"
    BY <2>1 DEF Backends, Supports, LocalSupports, AmazonSupports, GenericSupports, GoogleSupports,
                HTTPSupports, FTPSupports, SwiftSupports
  <2>3. Planned(backend', Requests(backend'))
    BY <1>0, <2>1, PlanIs DEF StorageType
  <2>4. StorageType'
    BY <1>0, <2>1, <2>2, <2>3 DEF StorageType, Planned, Tidy
  <2>5. ASSUME NEW c \in Call PROVE Tidy(todo[c])' /\ Harmless(todo[c], linked, target)'
    <3>1. CASE answer[c] = "none"
      <4>1. todo'[c] = Requests(backend')
        BY <2>1, <3>1
      <4>2. Tidy(todo[c])'
        BY <2>3, <4>1 DEF Planned, Tidy
      <4>3. ASSUME NEW n \in 1..Len(todo'[c]), todo'[c][n] = "create", options.linkable
            PROVE  \E j, k \in 1..Len(todo'[c]) : j < n /\ k < n /\ todo'[c][j] = "link" /\ todo'[c][k] = "same"
        <5>1. backend' = "local"
          BY <1>0, <2>2, <4>3 DEF StorageType
        <5>2. PICK j \in 1..Len(todo'[c]) : j < n /\ todo'[c][j] = "link"
          BY <2>3, <4>1, <4>3, <5>1 DEF Planned
        <5>3. n > j /\ Tidy(todo'[c])
          BY <2>3, <4>1, <5>2 DEF Planned, Tidy
        <5>4. PICK k \in 1..Len(todo'[c]) : k < n /\ todo'[c][k] = "same"
          BY <4>3, <5>2, <5>3 DEF Tidy
        <5>5. QED
          BY <5>2, <5>4
      <4>4. linked' => options.linkable
        BY <1>0 DEF StorageType
      <4>5. \A n \in 1..Len(todo'[c]) : todo'[c][n] \in {"store", "send"} => ~options.linkable
        BY <1>0, <2>2, <2>3, <4>1 DEF StorageType, Planned
      <4>6. \A n \in 1..Len(todo'[c]) : todo'[c][n] = "download" => backend' = "amazonS3" /\ op = "get"
        BY <2>3, <4>1 DEF Planned
      <4>7. QED
        BY <4>2, <4>3, <4>4, <4>5, <4>6 DEF Harmless
    <3>2. CASE answer[c] # "none"
      BY <2>1, <3>2 DEF Tidy, Harmless
    <3>3. QED
      BY <3>1, <3>2
  <2>6. CallsInv'
    BY <1>0, <2>1, <2>5 DEF CallsInv, Backends
  <2>7. WholeInv'
    <3>1. SUFFICES ASSUME answer'[1] \in {"none", "ok"}, ~Ahead(todo'[1])
                   PROVE  FALSE
      BY DEF WholeInv, Ahead
    <3>2. answer[1] = "none" /\ 1 \in Call
      BY <1>0, <2>1, <3>1 DEF CallsInv, Call
    <3>3. QED
      BY <2>1, <2>3, <3>1, <3>2 DEF Planned
  <2>8. QED
    BY <2>4, <2>6, <2>7 DEF StorageInv
<1>3. QED
  BY <1>1, <1>2

(* The invariant holds before the backend is found.                        *)
LEMMA InitStorage == StorageInit => StorageInv
<1> SUFFICES ASSUME StorageInit PROVE StorageInv
  OBVIOUS
<1>1. StorageType
  BY DEF StorageInit, StorageType, Call
<1>2. CallsInv
  BY DEF StorageInit, CallsInv, Tidy, Harmless
<1>3. QED
  BY <1>1, <1>2 DEF StorageInit, StorageInv, WholeInv

(* Every step keeps the invariant.                                         *)
LEMMA StorageStep == StorageInv /\ [StorageNext]_storageVars => StorageInv'
<1> SUFFICES ASSUME StorageInv, [StorageNext]_storageVars PROVE StorageInv'
  OBVIOUS
<1>1. CASE UNCHANGED storageVars
  BY <1>1 DEF storageVars, StorageInv, StorageType, CallsInv, WholeInv, HidesError, Harmless, Tidy, Ahead
<1>2. CASE FindBackend /\ UNCHANGED <<ctxEnded, scheme, op, options>>
  BY <1>2, FindStep
<1>3. CASE EndContext /\ UNCHANGED <<backend, scheme, op, options>>
  BY <1>3 DEF EndContext, files, StorageInv, StorageType, CallsInv, WholeInv, HidesError, Harmless, Tidy, Ahead
<1>4. ASSUME NEW c \in Call, SameSetting,
             \/ Request(c) \/ SameFile(c) \/ Link(c) \/ Create(c) \/ Copy(c)
             \/ Download(c) \/ UploadObject(c) \/ Store(c) \/ Send(c)
      PROVE  StorageInv'
  BY <1>4, RequestStep, SameStep, LinkStep, CreateStep, CopyStep, SendStep
<1>5. QED
  BY <1>1, <1>2, <1>3, <1>4 DEF StorageNext, SameSetting

(* A call of Get or Put that returned no error has copied everything,      *)
(* whatever failed and was tried again before, and no file is destroyed by *)
(* being copied onto itself; for every number of retries: CopiesWhole      *)
THEOREM StorageCorrect == StorageSpec => []CopiesWhole
<1>1. StorageInv => CopiesWhole
  <2> SUFFICES ASSUME StorageInv PROVE CopiesWhole
    OBVIOUS
  <2>1. source = "whole"
    BY DEF StorageInv, StorageType
  <2>2. answer[1] = "ok" => backend # "none" /\ ~Ahead(todo[1])
    BY DEF StorageInv, CallsInv, Ahead, Call
  <2>3. QED
    BY <2>1, <2>2 DEF StorageInv, WholeInv, CopiesWhole, HidesError
<1>2. QED
  BY <1>1, InitStorage, StorageStep, PTL DEF StorageSpec
=============================================================================
