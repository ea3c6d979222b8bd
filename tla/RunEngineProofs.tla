--------------------------- MODULE RunEngineProofs ---------------------------
(***************************************************************************)
(* Proofs about RunEngine, for every number of steps, every set of         *)
(* pipelines, every number of workers and every bound.                     *)
(***************************************************************************)
EXTENDS RunEngine, FiniteSetTheorems, TLAPS

-----------------------------------------------------------------------------
(* Type correctness *)

\* The thread that marks a step holds an output of its agent: without it the
\* status that MarkOutcome writes would not be known to be a status.
MarksAgentOutput == \A s \in Steps : pc[s] = "mark" => results[s] \in AgentStatuses

Typed == TypeOK /\ MarksAgentOutput

\* The input hash of a step ranges over the outputs of the steps.
LEMMA VisibleType ==
    ASSUME results \in StepOutputs, NEW S
    PROVE  Visible(S) \in StepOutputs
BY DEF Visible, StepOutputs, Outputs

\* What to_dict returns is a saved run state.
LEMMA SnapshotType ==
    ASSUME TypeOK
    PROVE  RunStateSnapshot \in RunStates
BY DEF TypeOK, RunStateOK, RunStateSnapshot, RunStates

\* The final status is a status.
LEMMA FinalStatusType ==
    ASSUME TypeOK
    PROVE  FinalStatus \in Statuses
BY DEF TypeOK, RunStateOK, FinalStatus, Statuses

\* What a process starts with, fresh or from a record, is well typed.
LEMMA LoadType ==
    ASSUME NEW saved \in RunStates, NEW outputs \in StepOutputs,
           Load(saved, outputs), ConstantsAssumption
    PROVE  /\ status' \in [Steps -> Statuses]
           /\ attempts' \in [Steps -> Nat]
           /\ inputHash' \in [Steps -> SUBSET StepOutputs]
           /\ cursor' \in 0 .. N
           /\ runStatus' \in Statuses
           /\ results' \in StepOutputs
           /\ executed' \subseteq Steps /\ queue' \subseteq Steps /\ batch' \subseteq Steps
           /\ pc' \in [Steps -> ThreadStates]
           /\ retry' \in [Steps -> Nat]
           /\ halted' \subseteq Steps
           /\ payload' \in [Steps -> Payloads]
           /\ \A s \in Steps : pc'[s] = "off"
<1>1. NothingEmitted \in Payloads
  BY DEF NothingEmitted, Payloads, Statuses, StepOutputs, Outputs
<1>2. executed' \subseteq Steps
  BY DEF Load, StepsBelow, RunStates, Steps, ConstantsAssumption
<1>3. QED
  BY <1>1, <1>2 DEF Load, RunStates, ThreadStates

\* The empty run state and the empty outputs.
LEMMA NewRunStateType ==
    ASSUME ConstantsAssumption
    PROVE  NewRunState \in RunStates /\ NoOutputs \in StepOutputs
BY DEF NewRunState, NoOutputs, RunStates, Statuses, StepOutputs, Outputs,
       ConstantsAssumption

\* A run begins with everything typed.
LEMMA TypedInit == Init => Typed
<1>. SUFFICES ASSUME Init PROVE Typed
  OBVIOUS
<1>. USE ConstantsAssumption
<1>1. NewRunState \in RunStates /\ NoOutputs \in StepOutputs
  BY NewRunStateType
<1>2. NothingEmitted \in Payloads
  BY DEF NothingEmitted, Payloads, Statuses, StepOutputs, Outputs
<1>3. record \in Records
  BY DEF Init, Records, Statuses
<1>4. RunStateOK /\ results \in StepOutputs
  BY <1>1 DEF Init, RunStateOK, RunStates
<1>5. MainOK
  BY DEF Init, MainOK, Phases
<1>6. ThreadsOK
  BY <1>2 DEF Init, ThreadsOK, ThreadStates
<1>7. resumes \in 0 .. MaxResumes /\ crashes \in 0 .. MaxCrashes
  BY DEF Init, ConstantsAssumption
<1>8. MarksAgentOutput
  BY DEF Init, MarksAgentOutput
<1>9. QED
  BY <1>3, <1>4, <1>5, <1>6, <1>7, <1>8 DEF Init, Typed, TypeOK

\* The records keep their shape when one field of them is replaced.
LEMMA RecordFields ==
    /\ \A r \in Records, st \in Statuses : [r EXCEPT !.status = st] \in Records
    /\ \A p \in Payloads, S \in SUBSET RunStates :
          [p EXCEPT !.runState = S] \in Payloads
<1>1. ASSUME NEW r \in Records, NEW st \in Statuses
      PROVE  [r EXCEPT !.status = st] \in Records
  BY DEF Records
<1>2. ASSUME NEW p \in Payloads, NEW S \in SUBSET RunStates
      PROVE  [p EXCEPT !.runState = S] \in Payloads
  BY DEF Payloads
<1>3. QED
  BY <1>1, <1>2

\* A step of a thread keeps the types.
LEMMA TypedThread ==
    ASSUME Typed, NEW s \in Steps, Thread(s)
    PROVE  Typed'
<1>. USE DEF Typed, TypeOK, RunStateOK, MainOK, ThreadsOK, MarksAgentOutput,
             runState, main, bounds, Goto
<1>1. CASE EnterStep(s)
  BY <1>1, ConstantsAssumption DEF EnterStep, ThreadStates, Statuses, AgentStatuses, StepOutputs
<1>2. CASE SkipByCondition(s)
  BY <1>2, ConstantsAssumption DEF SkipByCondition, Mark, Outputs, ThreadStates, Statuses, AgentStatuses, StepOutputs
<1>3. CASE PassOverride(s)
  BY <1>3, ConstantsAssumption DEF PassOverride, InitialRetry, ThreadStates, Statuses, AgentStatuses, StepOutputs
<1>4. CASE StopStep(s)
  BY <1>4, ConstantsAssumption DEF StopStep, Mark, Outputs, ThreadStates, Statuses, AgentStatuses, StepOutputs
<1>5. CASE StartStep(s)
  <2>1. Visible(Steps) \in StepOutputs
    BY VisibleType
  <2>2. inputHash' \in [Steps -> SUBSET StepOutputs]
    BY <1>5, <2>1 DEF StartStep
  <2>3. QED
    BY <1>5, <2>2 DEF StartStep, Mark, ThreadStates, Statuses
<1>6. CASE AgentReturns(s)
  BY <1>6, ConstantsAssumption DEF AgentReturns, Outputs, ThreadStates, Statuses, AgentStatuses, StepOutputs
<1>7. CASE MarkOutcome(s)
  BY <1>7, ConstantsAssumption DEF MarkOutcome, Mark, AfterOutcome, ThreadStates, Statuses, AgentStatuses, StepOutputs
<1>8. CASE RetryStep(s)
  BY <1>8, ConstantsAssumption DEF RetryStep, ThreadStates, Statuses, AgentStatuses, StepOutputs
<1>9. CASE ContinueAfterFailure(s)
  BY <1>9, ConstantsAssumption DEF ContinueAfterFailure, Mark, ThreadStates, Statuses, AgentStatuses, StepOutputs
<1>10. CASE HaltRun(s)
  BY <1>10, ConstantsAssumption DEF HaltRun, ThreadStates, Statuses, AgentStatuses, StepOutputs
<1>11. CASE Advance(s)
  BY <1>11, ConstantsAssumption DEF Advance, ThreadStates, Statuses, AgentStatuses, StepOutputs
<1>12. CASE EmitOutputs(s)
  BY <1>12, ConstantsAssumption DEF EmitOutputs, Payloads, ThreadStates, Statuses, AgentStatuses, StepOutputs
<1>13. CASE EmitRunState(s)
  <2>. DEFINE p == [payload[s] EXCEPT !.runState = {RunStateSnapshot}]
  <2>1. p \in Payloads
    BY SnapshotType, RecordFields
  <2>2. payload' = [payload EXCEPT ![s] = p]
    BY <1>13 DEF EmitRunState
  <2>. HIDE DEF p
  <2>3. payload' \in [Steps -> Payloads]
    BY <2>1, <2>2
  <2>4. QED
    BY <1>13, <2>3 DEF EmitRunState, ThreadStates
<1>14. CASE Persist(s)
  BY <1>14, ConstantsAssumption DEF Persist, Payloads, Records, ThreadStates, Statuses, AgentStatuses, StepOutputs
<1>15. QED
  BY <1>1, <1>2, <1>3, <1>4, <1>5, <1>6, <1>7, <1>8, <1>9, <1>10, <1>11, <1>12, <1>13, <1>14 DEF Thread
\* A step of the main thread keeps the types.
LEMMA TypedMain ==
    ASSUME Typed, StartBatch \/ FinishBatch \/ EndRun \/ RaiseError
    PROVE  Typed'
<1>. USE DEF Typed, TypeOK, RunStateOK, MainOK, ThreadsOK, MarksAgentOutput,
             runState, main, threads, bounds
<1>1. CASE StartBatch
  BY <1>1 DEF StartBatch, ReadySteps, Phases, ThreadStates
<1>2. CASE FinishBatch
  <2>1. NothingEmitted \in Payloads
    BY DEF NothingEmitted, Payloads, Statuses, StepOutputs, Outputs
  <2>2. QED
    BY <1>2, <2>1 DEF FinishBatch, Phases, ThreadStates
<1>3. CASE EndRun
  <2>1. FinalStatus \in Statuses /\ RunStateSnapshot \in RunStates
    BY FinalStatusType, SnapshotType
  <2>2. [RunStateSnapshot EXCEPT !.runStatus = FinalStatus] \in RunStates
    BY <2>1 DEF RunStates
  <2>3. record' \in Records
    BY <1>3, <2>1, <2>2 DEF EndRun, Records
  <2>4. QED
    BY <1>3, <2>1, <2>3 DEF EndRun, Phases
<1>4. CASE RaiseError
  <2>1. record' \in Records
    BY <1>4, RecordFields DEF RaiseError, Statuses
  <2>2. QED
    BY <1>4, <2>1 DEF RaiseError, Phases
<1>5. QED
  BY <1>1, <1>2, <1>3, <1>4

\* So does the replay of a resumed run.
LEMMA TypedReplay ==
    ASSUME Typed, NEW s \in Steps, ResumeStep(s) \/ SkipReplay(s)
    PROVE  Typed'
<1>. USE DEF Typed, TypeOK, RunStateOK, MainOK, ThreadsOK, MarksAgentOutput,
             runState, bounds, Goto
<1>1. CASE ResumeStep(s)
  BY <1>1 DEF ResumeStep, Phases, ThreadStates
<1>2. CASE SkipReplay(s)
  <2>1. cursor' \in 0 .. N
    BY <1>2, ConstantsAssumption DEF SkipReplay, Steps
  <2>2. QED
    BY <1>2, <2>1 DEF SkipReplay, Phases, ThreadStates
<1>3. QED
  BY <1>1, <1>2

\* So do the operator's commands and a crash.
LEMMA TypedEnvironment ==
    ASSUME Typed, OperatorStop \/ OperatorResume \/ Crash
    PROVE  Typed'
<1>. USE ConstantsAssumption DEF Typed, TypeOK, RunStateOK, MainOK, ThreadsOK,
             MarksAgentOutput, runState, main, threads, bounds
<1>1. CASE OperatorStop
  <2>1. record' \in Records
    BY <1>1, RecordFields DEF OperatorStop, Statuses
  <2>2. QED
    BY <1>1, <2>1 DEF OperatorStop
<1>2. CASE OperatorResume
  <2>1. PICK saved \in record.result : Load(saved.runState, saved.results)
    BY <1>2 DEF OperatorResume
  <2>2. saved.runState \in RunStates /\ saved.results \in StepOutputs
    BY <2>1 DEF Records
  <2>3. record' \in Records
    BY <1>2, RecordFields DEF OperatorResume, Statuses
  <2>4. RunStateOK' /\ ThreadsOK' /\ results' \in StepOutputs
        /\ executed' \subseteq Steps /\ queue' \subseteq Steps /\ batch' \subseteq Steps
        /\ \A s \in Steps : pc'[s] = "off"
    BY <2>1, <2>2, LoadType
  <2>5. resumes' \in 0 .. MaxResumes /\ crashes' \in 0 .. MaxCrashes
    BY <1>2 DEF OperatorResume
  <2>6. phase' \in Phases /\ mode' \in {"fresh", "resume"} /\ override' \subseteq {"stop"}
        /\ pipeline' \in Pipelines
    BY <1>2 DEF OperatorResume, Phases
  <2>7. QED
    BY <2>3, <2>4, <2>5, <2>6
<1>3. CASE Crash
  <2>1. RunStateOK' /\ ThreadsOK' /\ results' \in StepOutputs
        /\ executed' \subseteq Steps /\ queue' \subseteq Steps /\ batch' \subseteq Steps
        /\ \A s \in Steps : pc'[s] = "off"
    BY <1>3, NewRunStateType, LoadType DEF Crash
  <2>2. resumes' \in 0 .. MaxResumes /\ crashes' \in 0 .. MaxCrashes
    BY <1>3 DEF Crash
  <2>3. phase' \in Phases /\ mode' \in {"fresh", "resume"} /\ override' \subseteq {"stop"}
        /\ pipeline' \in Pipelines /\ record' \in Records
    BY <1>3 DEF Crash, Phases
  <2>4. QED
    BY <2>1, <2>2, <2>3
<1>4. QED
  BY <1>1, <1>2, <1>3

\* Every step keeps the types.
LEMMA TypedStep == Typed /\ [Next]_vars => Typed'
<1>. SUFFICES ASSUME Typed, [Next]_vars PROVE Typed'
  OBVIOUS
<1>1. CASE StartBatch \/ FinishBatch \/ EndRun \/ RaiseError
  BY <1>1, TypedMain
<1>2. ASSUME NEW s \in Steps, ResumeStep(s) \/ SkipReplay(s) PROVE Typed'
  BY <1>2, TypedReplay
<1>3. ASSUME NEW s \in Steps, Thread(s) PROVE Typed'
  BY <1>3, TypedThread
<1>4. CASE OperatorStop \/ OperatorResume \/ Crash
  BY <1>4, TypedEnvironment
<1>5. CASE UNCHANGED vars
  BY <1>5 DEF vars, runState, main, threads, bounds, Typed, TypeOK, RunStateOK,
              MainOK, ThreadsOK, MarksAgentOutput
<1>6. QED
  BY <1>1, <1>2, <1>3, <1>4, <1>5 DEF Next, Engine

\* The fields and locals of a run keep their types, through every interleaving
\* of its threads and every stop, crash and resume.
THEOREM TypeCorrect == Spec => []TypeOK
<1>1. Spec => []Typed
  BY TypedInit, TypedStep, PTL DEF Spec
<1>2. Typed => TypeOK
  BY DEF Typed
<1>3. QED
  BY <1>1, <1>2, PTL

-----------------------------------------------------------------------------
(* What the threads of a batch may do *)

Idle == {"off", "done", "raised"}

\* A thread belongs to a step of the batch.
ThreadsInBatch == \A s \in Steps : pc[s] # "off" => s \in batch

\* Between two batches no thread runs: FinishBatch joins them all.
NoThreadBetweenBatches ==
    /\ phase # "batch" => \A s \in Steps : pc[s] \in Idle
    /\ phase \in {"select", "final", "crashed"} => \A s \in Steps : pc[s] = "off"

\* select_lock_aware_batch never returns two steps that share a lock.
BatchKeepsLocks == \A s, t \in batch : s # t => ~LocksConflict(pipeline, s, t)

\* The main thread does not choose the next steps once a step halted the run.
NoChoiceAfterHalt == halted # {} => phase \in {"batch", "final", "ended"}

BatchInv == ThreadsInBatch /\ NoThreadBetweenBatches /\ BatchKeepsLocks /\ NoChoiceAfterHalt

\* The thread of a step changes its own program counter and leaves the main
\* thread, the pipeline and the bounds alone.
LEMMA ThreadEffect ==
    ASSUME Typed, NEW s \in Steps, Thread(s)
    PROVE  /\ pc[s] \notin Idle
           /\ \A t \in Steps : t # s => pc'[t] = pc[t]
           /\ halted \subseteq halted' /\ halted' \subseteq halted \cup {s}
           /\ UNCHANGED <<pipeline, phase, mode, executed, queue, batch, resumes, crashes>>
<1>. USE DEF Goto, Idle, main, bounds
<1>1. pc \in [Steps -> ThreadStates]
  BY DEF Typed, TypeOK, ThreadsOK
<1>2. CASE EnterStep(s) \/ PassOverride(s) \/ StartStep(s) \/ AgentReturns(s) \/ RetryStep(s)
  BY <1>1, <1>2 DEF EnterStep, PassOverride, StartStep, AgentReturns, RetryStep
<1>3. CASE SkipByCondition(s) \/ StopStep(s) \/ ContinueAfterFailure(s) \/ HaltRun(s)
  BY <1>1, <1>3 DEF SkipByCondition, StopStep, ContinueAfterFailure, HaltRun
<1>4. CASE MarkOutcome(s) \/ Advance(s)
  BY <1>1, <1>4 DEF MarkOutcome, Advance
<1>5. CASE EmitOutputs(s) \/ EmitRunState(s) \/ Persist(s)
  BY <1>1, <1>5 DEF EmitOutputs, EmitRunState, Persist
<1>6. QED
  BY <1>2, <1>3, <1>4, <1>5 DEF Thread

\* What a step of the thread of s leaves of the invariant.
LEMMA BatchInvThread ==
    ASSUME Typed, BatchInv, NEW s \in Steps, Thread(s)
    PROVE  BatchInv'
<1>. USE ThreadEffect DEF BatchInv
<1>1. s \in batch /\ phase = "batch"
  BY DEF ThreadsInBatch, NoThreadBetweenBatches, Idle
<1>2. ThreadsInBatch'
  BY <1>1 DEF ThreadsInBatch
<1>3. NoThreadBetweenBatches' /\ NoChoiceAfterHalt'
  BY <1>1 DEF NoThreadBetweenBatches, NoChoiceAfterHalt
<1>4. BatchKeepsLocks'
  BY DEF BatchKeepsLocks, LocksConflict
<1>5. QED
  BY <1>2, <1>3, <1>4

\* A batch that the main thread starts keeps the steps with a common lock apart.
LEMMA BatchInvStart ==
    ASSUME Typed, BatchInv, StartBatch
    PROVE  BatchInv'
<1>. PICK ready \in SUBSET Steps, b \in SUBSET Steps :
        /\ IsLockAwareBatch(pipeline, ready, b)
        /\ batch' = b
        /\ pc' = [s \in Steps |-> IF s \in Launched(b) THEN "queued" ELSE "off"]
  BY DEF StartBatch, ReadySteps, Typed, TypeOK, MainOK
<1>. phase = "select" /\ phase' = "batch" /\ UNCHANGED <<pipeline, halted>>
  BY DEF StartBatch
<1>1. Launched(b) \subseteq b
  BY DEF Launched
<1>2. ThreadsInBatch'
  BY <1>1 DEF ThreadsInBatch
<1>3. NoThreadBetweenBatches' /\ NoChoiceAfterHalt'
  BY DEF NoThreadBetweenBatches, NoChoiceAfterHalt
<1>4. ASSUME NEW s \in b, NEW t \in b, s # t
      PROVE  ~LocksConflict(pipeline, s, t)
  <2>1. s \in Nat /\ t \in Nat
    BY ConstantsAssumption DEF Steps
  <2>2. CASE s < t
    <3>1. ~LocksConflict(pipeline, t, s)
      BY <2>2 DEF IsLockAwareBatch
    <3>2. QED
      BY <3>1 DEF LocksConflict
  <2>3. CASE t < s
    BY <2>3 DEF IsLockAwareBatch
  <2>4. QED
    BY <1>4, <2>1, <2>2, <2>3
<1>5. BatchKeepsLocks'
  BY <1>4 DEF BatchKeepsLocks, LocksConflict
<1>6. QED
  BY <1>2, <1>3, <1>5 DEF BatchInv

\* The other actions start no second thread.
LEMMA BatchInvRest ==
    ASSUME Typed, BatchInv, Next, ~StartBatch, \A s \in Steps : ~Thread(s)
    PROVE  BatchInv'
<1>. USE DEF BatchInv, ThreadsInBatch, NoThreadBetweenBatches, BatchKeepsLocks,
             NoChoiceAfterHalt, LocksConflict, Idle
<1>1. CASE FinishBatch
  BY <1>1 DEF FinishBatch, BatchStops
<1>2. CASE EndRun
  BY <1>2 DEF EndRun, RunOver, threads
<1>3. CASE RaiseError
  BY <1>3 DEF RaiseError, NothingReady, BatchBroken, threads
<1>4. ASSUME NEW s \in Steps, ResumeStep(s) \/ SkipReplay(s) PROVE BatchInv'
  <2>1. /\ batch' = {s} /\ phase' = "batch" /\ phase = "select"
        /\ UNCHANGED <<pipeline, halted>>
        /\ \A t \in Steps : t # s => pc'[t] = pc[t]
    BY <1>4 DEF ResumeStep, SkipReplay, NextInOrder, Goto, Typed, TypeOK, ThreadsOK
  <2>2. QED
    BY <2>1
<1>5. CASE OperatorStop
  BY <1>5 DEF OperatorStop, main, threads
<1>6. CASE OperatorResume
  BY <1>6 DEF OperatorResume, Load
<1>7. CASE Crash
  BY <1>7 DEF Crash, Load
<1>8. QED
  BY <1>1, <1>2, <1>3, <1>4, <1>5, <1>6, <1>7 DEF Next, Engine

\* The batches keep their invariant through every step.
LEMMA BatchInvStep == Typed /\ BatchInv /\ [Next]_vars => BatchInv'
<1>. SUFFICES ASSUME Typed, BatchInv, [Next]_vars PROVE BatchInv'
  OBVIOUS
<1>1. CASE UNCHANGED vars
  BY <1>1 DEF vars, main, threads, BatchInv, ThreadsInBatch, NoThreadBetweenBatches,
              BatchKeepsLocks, NoChoiceAfterHalt, LocksConflict
<1>2. CASE Next
  BY <1>2, BatchInvThread, BatchInvStart, BatchInvRest
<1>3. QED
  BY <1>1, <1>2

\* The types and the batches together are an inductive invariant of a run.
LEMMA Inductive == Spec => [](Typed /\ BatchInv)
<1>1. Init => BatchInv
  BY DEF Init, BatchInv, ThreadsInBatch, NoThreadBetweenBatches, BatchKeepsLocks,
         NoChoiceAfterHalt, Idle
<1>2. QED
  BY <1>1, TypedInit, TypedStep, BatchInvStep, PTL DEF Spec

\* Steps that share a resource lock never execute at the same time, for every
\* pipeline and every number of workers, although the code takes no lock.
THEOREM LocksExclude == Spec => []LockExclusion
<1>1. Typed /\ BatchInv => LockExclusion
  BY DEF BatchInv, ThreadsInBatch, BatchKeepsLocks, LockExclusion, Executing
<1>2. QED
  BY <1>1, Inductive, PTL

\* No thread is left when run() returns or raises.
THEOREM ThreadsEndWithRun == Spec => []NoThreadOutlivesRun
<1>1. Typed /\ BatchInv => NoThreadOutlivesRun
  BY DEF BatchInv, NoThreadBetweenBatches, NoThreadOutlivesRun, Active, Idle
<1>2. QED
  BY <1>1, Inductive, PTL

\* Once a step halts the run, no step outside its batch begins.
THEOREM HaltIsFinal == Spec => HaltStopsRun
<1>. DEFINE Halting == halted # {} /\ resumes' = resumes
                         => \A s \in Steps \ batch : pc'[s] = "off"
<1>1. ASSUME Typed, BatchInv, [Next]_vars PROVE [Halting]_vars
  <2>. SUFFICES ASSUME halted # {}, resumes' = resumes, NEW s \in Steps \ batch, Next
                PROVE  pc'[s] = "off"
    BY <1>1
  <2>1. pc[s] = "off" /\ phase # "select"
    BY <1>1 DEF BatchInv, ThreadsInBatch, NoChoiceAfterHalt
  <2>2. ASSUME NEW t \in Steps, Thread(t) PROVE pc'[s] = "off"
    BY <1>1, <2>1, <2>2, ThreadEffect DEF Idle
  <2>3. CASE StartBatch \/ \E t \in Steps : ResumeStep(t) \/ SkipReplay(t)
    BY <2>1, <2>3 DEF StartBatch, ResumeStep, SkipReplay, NextInOrder
  <2>4. CASE FinishBatch \/ EndRun \/ RaiseError
    BY <2>1, <2>4 DEF FinishBatch, EndRun, RaiseError, threads
  <2>5. CASE OperatorStop \/ OperatorResume
    <3>1. resumes \in Nat
      BY <1>1, ConstantsAssumption DEF Typed, TypeOK
    <3>2. QED
      BY <2>1, <2>5, <3>1 DEF OperatorStop, OperatorResume, threads, Load
  <2>6. CASE Crash
    BY <2>6 DEF Crash, Load
  <2>7. QED
    BY <2>2, <2>3, <2>4, <2>5, <2>6 DEF Next, Engine
<1>2. QED
  BY <1>1, Inductive, PTL DEF Spec, HaltStopsRun

-----------------------------------------------------------------------------
(* The bound on the attempts of a step, over stops, crashes and resumes: for *)
(* every pipeline, a step is attempted at most retry_limit + 1 times and     *)
(* once more for each resume.                                                *)

\* The retries the policy of a step allows.
Limit(s) == IF Action(s) = "retry" THEN pipeline.retryLimit[s] ELSE 0

\* The attempt that the counter of a resumed step does not count.
Slack == IF resumes = 0 THEN 0 ELSE 1

\* A step is in one batch only: the queue, which a resumed run does not use, and
\* the batch hold steps not executed.
ChosenOnce ==
    /\ queue \cap (executed \cup batch) = {}
    /\ batch \cap executed = {}
    /\ mode = "resume" => queue = {}

\* A step that is not yet started has an attempt to spare ...
SpareBeforeStart ==
    \A s \in Steps \ executed : pc[s] \in {"off", "queued", "override"} =>
        /\ attempts[s] <= Limit(s) + resumes
        /\ resumes = 0 => attempts[s] = 0

\* ... and so has one that is about to be retried, as its counter tells; ...
SpareAtStart ==
    \A s \in Steps : pc[s] = "start" =>
        /\ attempts[s] <= Limit(s) + resumes
        /\ attempts[s] <= retry[s] + Slack

\* ... an attempt is spent by starting.
SpentWhileExecuting ==
    \A s \in Steps : pc[s] \in {"agent", "mark", "policy"} =>
        attempts[s] <= retry[s] + 1 + Slack

\* The bound, which the record and the checkpoints under way must keep as well,
\* for a resume reads the attempts from there.
Bounded(counts) == \A s \in Steps : counts[s] <= Limit(s) + 1 + resumes

SavedBounded ==
    /\ \A saved \in record.result : Bounded(saved.runState.attempts)
    /\ \A t \in Steps : \A rs \in payload[t].runState : Bounded(rs.attempts)

AttemptsInv ==
    /\ ChosenOnce /\ SpareBeforeStart /\ SpareAtStart /\ SpentWhileExecuting
    /\ Bounded(attempts) /\ SavedBounded

-----------------------------------------------------------------------------

\* The limit of a step is a number.
LEMMA LimitType ==
    ASSUME Typed, NEW s \in Steps
    PROVE  Limit(s) \in Nat
<1>1. pipeline \in PipelineDefinitions
  BY ConstantsAssumption DEF Typed, TypeOK
<1>2. QED
  BY <1>1 DEF Limit, PipelineDefinitions

\* The steps of a thread that neither start an attempt nor choose a counter.
LEMMA QuietThread ==
    ASSUME Typed, BatchInv, AttemptsInv, NEW s \in Steps,
           \/ EnterStep(s) \/ SkipByCondition(s) \/ StopStep(s) \/ AgentReturns(s)
           \/ MarkOutcome(s) \/ ContinueAfterFailure(s) \/ HaltRun(s) \/ Advance(s)
    PROVE  AttemptsInv'
<1>1. /\ pc \in [Steps -> ThreadStates] /\ attempts \in [Steps -> Nat]
      /\ status \in [Steps -> Statuses]
  BY DEF Typed, TypeOK, RunStateOK, ThreadsOK
<1>2. Thread(s)
  BY DEF Thread
<1>3. /\ UNCHANGED <<pipeline, mode, executed, queue, batch, resumes>>
      /\ \A t \in Steps : t # s => pc'[t] = pc[t]
  BY <1>2, ThreadEffect
<1>4. UNCHANGED <<attempts, retry, payload, record>>
  <2>1. CASE EnterStep(s) \/ AgentReturns(s) \/ HaltRun(s) \/ Advance(s)
    BY <2>1 DEF EnterStep, AgentReturns, HaltRun, Advance, runState
  <2>2. CASE SkipByCondition(s) \/ StopStep(s) \/ ContinueAfterFailure(s)
    BY <1>1, <2>2 DEF SkipByCondition, StopStep, ContinueAfterFailure, Mark
  <2>3. CASE MarkOutcome(s)
    <3>1. results[s] # "RUNNING"
      BY <2>3 DEF MarkOutcome, Typed, MarksAgentOutput, AgentStatuses
    <3>2. QED
      BY <1>1, <2>3, <3>1 DEF MarkOutcome, Mark
  <2>4. QED
    BY <2>1, <2>2, <2>3
<1>5. \/ pc[s] = "queued" /\ pc'[s] = "override"
      \/ pc[s] \in {"agent", "mark"} /\ pc'[s] \in {"mark", "policy"}
      \/ pc'[s] \in {"advance", "emit", "raised"}
  BY <1>1 DEF EnterStep, SkipByCondition, StopStep, AgentReturns, MarkOutcome,
              AfterOutcome, ContinueAfterFailure, HaltRun, Advance, Goto
<1>6. \A t \in Steps : Limit(t)' = Limit(t)
  BY <1>3 DEF Limit, Action
<1>7. Slack' = Slack
  BY <1>3 DEF Slack
<1>8. ChosenOnce'
  BY <1>3 DEF AttemptsInv, ChosenOnce
<1>9. SpareBeforeStart'
  BY <1>3, <1>4, <1>5, <1>6 DEF AttemptsInv, SpareBeforeStart
<1>10. SpareAtStart' /\ SpentWhileExecuting'
  BY <1>3, <1>4, <1>5, <1>6, <1>7 DEF AttemptsInv, SpareAtStart, SpentWhileExecuting
<1>11. Bounded(attempts)' /\ SavedBounded'
  BY <1>3, <1>4, <1>6 DEF AttemptsInv, Bounded, SavedBounded
<1>12. QED
  BY <1>8, <1>9, <1>10, <1>11 DEF AttemptsInv

\* The counter of a step is set from its attempts, or counts one retry more.
LEMMA CountingThread ==
    ASSUME Typed, BatchInv, AttemptsInv, NEW s \in Steps, PassOverride(s) \/ RetryStep(s)
    PROVE  AttemptsInv'
<1>1. /\ pc \in [Steps -> ThreadStates] /\ attempts \in [Steps -> Nat]
      /\ retry \in [Steps -> Nat] /\ resumes \in Nat /\ Limit(s) \in Nat
  BY LimitType, ConstantsAssumption DEF Typed, TypeOK, RunStateOK, ThreadsOK
<1>2. Thread(s)
  BY DEF Thread
<1>3. /\ UNCHANGED <<pipeline, mode, executed, queue, batch, resumes>>
      /\ \A t \in Steps : t # s => pc'[t] = pc[t]
  BY <1>2, ThreadEffect
<1>4. /\ UNCHANGED <<attempts, payload, record>> /\ pc'[s] = "start"
      /\ \A t \in Steps : t # s => retry'[t] = retry[t]
  BY <1>1 DEF PassOverride, RetryStep, Goto, runState
<1>5. \A t \in Steps : Limit(t)' = Limit(t)
  BY <1>3 DEF Limit, Action
<1>6. Slack' = Slack
  BY <1>3 DEF Slack
<1>7. attempts[s] <= Limit(s) + resumes /\ attempts[s] <= retry'[s] + Slack
  <2>1. CASE PassOverride(s)
    <3>1. s \in batch /\ s \notin executed /\ pc[s] = "override"
      BY <2>1 DEF PassOverride, BatchInv, ThreadsInBatch, AttemptsInv, ChosenOnce
    <3>2. attempts[s] <= Limit(s) + resumes /\ (resumes = 0 => attempts[s] = 0)
      BY <3>1 DEF AttemptsInv, SpareBeforeStart
    <3>3. retry'[s] = IF attempts[s] = 0 THEN 0 ELSE attempts[s] - 1
      BY <1>1, <2>1 DEF PassOverride, InitialRetry
    <3>4. QED
      BY <1>1, <3>2, <3>3 DEF Slack
  <2>2. CASE RetryStep(s)
    <3>1. /\ pc[s] = "policy" /\ retry'[s] = retry[s] + 1
          /\ Action(s) = "retry" /\ RetryLeft(s)
      BY <1>1, <2>2 DEF RetryStep
    <3>2. retry[s] + 1 <= Limit(s)
      BY <3>1 DEF RetryLeft, ShouldRetry, Limit
    <3>3. attempts[s] <= retry[s] + 1 + Slack
      BY <3>1 DEF AttemptsInv, SpentWhileExecuting
    <3>4. QED
      BY <1>1, <3>1, <3>2, <3>3 DEF Slack
  <2>3. QED
    BY <2>1, <2>2
<1>8. ChosenOnce'
  BY <1>3 DEF AttemptsInv, ChosenOnce
<1>9. SpareBeforeStart' /\ SpareAtStart' /\ SpentWhileExecuting'
  BY <1>3, <1>4, <1>5, <1>6, <1>7
     DEF AttemptsInv, SpareBeforeStart, SpareAtStart, SpentWhileExecuting
<1>10. Bounded(attempts)' /\ SavedBounded'
  BY <1>3, <1>4, <1>5 DEF AttemptsInv, Bounded, SavedBounded
<1>11. QED
  BY <1>8, <1>9, <1>10 DEF AttemptsInv

\* Starting a step spends the attempt it has to spare.
LEMMA StartingThread ==
    ASSUME Typed, BatchInv, AttemptsInv, NEW s \in Steps, StartStep(s)
    PROVE  AttemptsInv'
<1>1. /\ pc \in [Steps -> ThreadStates] /\ attempts \in [Steps -> Nat]
      /\ retry \in [Steps -> Nat] /\ resumes \in Nat /\ Limit(s) \in Nat
  BY LimitType, ConstantsAssumption DEF Typed, TypeOK, RunStateOK, ThreadsOK
<1>2. Thread(s)
  BY DEF Thread
<1>3. /\ UNCHANGED <<pipeline, mode, executed, queue, batch, resumes>>
      /\ \A t \in Steps : t # s => pc'[t] = pc[t]
  BY <1>2, ThreadEffect
<1>4. /\ UNCHANGED <<retry, payload, record>>
      /\ pc[s] = "start" /\ pc'[s] = "agent"
      /\ attempts'[s] = attempts[s] + 1
      /\ \A t \in Steps : t # s => attempts'[t] = attempts[t]
  BY <1>1 DEF StartStep, Mark, Goto
<1>5. \A t \in Steps : Limit(t)' = Limit(t)
  BY <1>3 DEF Limit, Action
<1>6. Slack' = Slack
  BY <1>3 DEF Slack
<1>7. attempts[s] <= Limit(s) + resumes /\ attempts[s] <= retry[s] + Slack
  BY <1>4 DEF AttemptsInv, SpareAtStart
<1>8. ChosenOnce'
  BY <1>3 DEF AttemptsInv, ChosenOnce
<1>9. SpareBeforeStart' /\ SpareAtStart'
  BY <1>3, <1>4, <1>5, <1>6 DEF AttemptsInv, SpareBeforeStart, SpareAtStart
<1>10. attempts'[s] <= retry'[s] + 1 + Slack' /\ attempts'[s] <= Limit(s)' + 1 + resumes'
  BY <1>1, <1>3, <1>4, <1>5, <1>6, <1>7 DEF Slack
<1>11. SpentWhileExecuting'
  BY <1>3, <1>4, <1>6, <1>10 DEF AttemptsInv, SpentWhileExecuting
<1>12. Bounded(attempts)'
  BY <1>3, <1>4, <1>5, <1>10 DEF AttemptsInv, Bounded
<1>13. SavedBounded'
  BY <1>3, <1>4, <1>5 DEF AttemptsInv, Bounded, SavedBounded
<1>14. QED
  BY <1>8, <1>9, <1>11, <1>12, <1>13 DEF AttemptsInv

\* A checkpoint takes the attempts to the record, two steps later.
LEMMA CheckpointingThread ==
    ASSUME Typed, BatchInv, AttemptsInv, NEW s \in Steps,
           EmitOutputs(s) \/ EmitRunState(s) \/ Persist(s)
    PROVE  AttemptsInv'
<1>1. /\ pc \in [Steps -> ThreadStates] /\ payload \in [Steps -> Payloads]
      /\ record \in Records
  BY DEF Typed, TypeOK, ThreadsOK
<1>2. Thread(s)
  BY DEF Thread
<1>3. /\ UNCHANGED <<pipeline, mode, executed, queue, batch, resumes>>
      /\ \A t \in Steps : t # s => pc'[t] = pc[t]
  BY <1>2, ThreadEffect
<1>4. UNCHANGED <<attempts, retry>> /\ pc'[s] \in {"snapshot", "persist", "done"}
  BY <1>1 DEF EmitOutputs, EmitRunState, Persist, runState, Goto
<1>5. \A t \in Steps : Limit(t)' = Limit(t)
  BY <1>3 DEF Limit, Action
<1>6. Slack' = Slack
  BY <1>3 DEF Slack
<1>7. ChosenOnce'
  BY <1>3 DEF AttemptsInv, ChosenOnce
<1>8. SpareBeforeStart' /\ SpareAtStart' /\ SpentWhileExecuting' /\ Bounded(attempts)'
  BY <1>3, <1>4, <1>5, <1>6
     DEF AttemptsInv, SpareBeforeStart, SpareAtStart, SpentWhileExecuting, Bounded
<1>9. SavedBounded'
  <2>1. CASE EmitOutputs(s)
    <3>1. record' = record /\ payload'[s].runState = {}
          /\ \A t \in Steps : t # s => payload'[t] = payload[t]
      BY <1>1, <2>1 DEF EmitOutputs
    <3>2. QED
      BY <1>3, <1>5, <3>1 DEF AttemptsInv, SavedBounded, Bounded
  <2>2. CASE EmitRunState(s)
    <3>1. record' = record /\ payload' = [payload EXCEPT ![s].runState = {RunStateSnapshot}]
      BY <2>2 DEF EmitRunState
    <3>2. payload'[s].runState = {RunStateSnapshot}
          /\ \A t \in Steps : t # s => payload'[t] = payload[t]
      BY <1>1, <3>1 DEF Payloads
    <3>3. RunStateSnapshot.attempts = attempts
      BY DEF RunStateSnapshot
    <3>4. QED
      BY <1>3, <1>5, <3>1, <3>2, <3>3 DEF AttemptsInv, SavedBounded, Bounded
  <2>3. CASE Persist(s)
    <3>1. payload' = payload
          /\ \A saved \in record'.result : saved.runState \in payload[s].runState
      BY <2>3 DEF Persist
    <3>2. QED
      BY <1>3, <1>5, <3>1 DEF AttemptsInv, SavedBounded, Bounded
  <2>4. QED
    BY <2>1, <2>2, <2>3
<1>10. QED
  BY <1>7, <1>8, <1>9 DEF AttemptsInv

\* Every step of a thread keeps the bound.
LEMMA AttemptsThread ==
    ASSUME Typed, BatchInv, AttemptsInv, NEW s \in Steps, Thread(s)
    PROVE  AttemptsInv'
BY QuietThread, CountingThread, StartingThread, CheckpointingThread DEF Thread

\* The main thread chooses steps that were not executed, each of them once.
LEMMA AttemptsMain ==
    ASSUME Typed, BatchInv, AttemptsInv,
           \/ StartBatch \/ FinishBatch \/ EndRun \/ RaiseError \/ OperatorStop
           \/ \E s \in Steps : ResumeStep(s) \/ SkipReplay(s)
    PROVE  AttemptsInv'
<1>1. /\ pc \in [Steps -> ThreadStates] /\ record \in Records
      /\ executed \subseteq Steps /\ queue \subseteq Steps /\ batch \subseteq Steps
  BY DEF Typed, TypeOK, MainOK, ThreadsOK
<1>2. UNCHANGED <<pipeline, attempts, retry, resumes>>
  BY DEF StartBatch, FinishBatch, EndRun, RaiseError, OperatorStop, ResumeStep,
         SkipReplay, runState, main, threads, bounds
<1>3. (\A s \in Steps : Limit(s)' = Limit(s)) /\ Slack' = Slack
  BY <1>2 DEF Limit, Action, Slack
<1>4. Bounded(attempts)'
  BY <1>2, <1>3 DEF AttemptsInv, Bounded
<1>5. SavedBounded'
  <2>1. /\ \A t \in Steps : payload'[t].runState \subseteq payload[t].runState
        /\ \A saved \in record'.result :
              saved \in record.result \/ saved.runState.attempts = attempts
    <3>1. CASE EndRun
      BY <3>1 DEF EndRun, threads, RunStateSnapshot
    <3>2. CASE FinishBatch
      BY <3>2 DEF FinishBatch, NothingEmitted
    <3>3. CASE RaiseError \/ OperatorStop
      BY <1>1, <3>3 DEF RaiseError, OperatorStop, threads, Records
    <3>4. CASE StartBatch \/ \E s \in Steps : ResumeStep(s) \/ SkipReplay(s)
      BY <3>4 DEF StartBatch, ResumeStep, SkipReplay
    <3>5. QED
      BY <3>1, <3>2, <3>3, <3>4
  <2>2. QED
    BY <1>2, <1>3, <2>1 DEF AttemptsInv, SavedBounded, Bounded
<1>6. ChosenOnce' /\ executed \subseteq executed'
  <2>1. CASE StartBatch
    <3>1. PICK b \in SUBSET Steps :
            /\ \A s \in b : s \in (IF queue = {} THEN ReadySteps(pipeline, executed) ELSE queue)
            /\ batch' = b
            /\ queue' = (IF queue = {} THEN ReadySteps(pipeline, executed) ELSE queue) \ b
            /\ executed' = executed /\ mode = "fresh" /\ mode' = mode
      BY <1>1, <2>1 DEF StartBatch, ReadySteps
    <3>2. ReadySteps(pipeline, executed) \cap executed = {}
      BY DEF ReadySteps
    <3>3. QED
      BY <3>1, <3>2 DEF AttemptsInv, ChosenOnce
  <2>2. CASE FinishBatch
    BY <2>2 DEF FinishBatch, AttemptsInv, ChosenOnce
  <2>3. CASE EndRun \/ RaiseError \/ OperatorStop
    BY <2>3 DEF EndRun, RaiseError, OperatorStop, main, AttemptsInv, ChosenOnce
  <2>4. ASSUME NEW s \in Steps, ResumeStep(s) \/ SkipReplay(s)
        PROVE  ChosenOnce' /\ executed \subseteq executed'
    <3>1. s \notin executed /\ batch' = {s} /\ UNCHANGED <<mode, executed, queue>>
      BY <2>4 DEF ResumeStep, SkipReplay, NextInOrder
    <3>2. queue = {}
      BY <2>4 DEF ResumeStep, SkipReplay, NextInOrder, AttemptsInv, ChosenOnce
    <3>3. QED
      BY <3>1, <3>2 DEF AttemptsInv, ChosenOnce
  <2>5. QED
    BY <2>1, <2>2, <2>3, <2>4
<1>7. \A s \in Steps : pc'[s] \in {"off", "queued", "emit"} \/ pc'[s] = pc[s]
  BY <1>1 DEF StartBatch, FinishBatch, EndRun, RaiseError, OperatorStop, ResumeStep,
              SkipReplay, threads, Goto
<1>8. SpareBeforeStart'
  <2>1. ASSUME NEW s \in Steps \ executed', pc'[s] \in {"off", "queued", "override"}
        PROVE  pc[s] \in {"off", "queued", "override"}
    <3>1. CASE FinishBatch
      BY <2>1, <3>1 DEF FinishBatch, BatchInv, ThreadsInBatch
    <3>2. CASE EndRun \/ RaiseError \/ OperatorStop
      BY <2>1, <3>2 DEF EndRun, RaiseError, OperatorStop, threads
    <3>3. CASE StartBatch \/ \E t \in Steps : ResumeStep(t) \/ SkipReplay(t)
      BY <3>3 DEF StartBatch, ResumeStep, SkipReplay, NextInOrder, BatchInv,
                  NoThreadBetweenBatches
    <3>4. QED
      BY <3>1, <3>2, <3>3
  <2>2. QED
    BY <1>2, <1>3, <1>6, <2>1 DEF AttemptsInv, SpareBeforeStart
<1>9. SpareAtStart' /\ SpentWhileExecuting'
  BY <1>2, <1>3, <1>7 DEF AttemptsInv, SpareAtStart, SpentWhileExecuting
<1>10. QED
  BY <1>4, <1>5, <1>6, <1>8, <1>9 DEF AttemptsInv

\* A resume takes the attempts from the record and grants one more; a crash
\* forgets what is in memory.
LEMMA AttemptsLoad ==
    ASSUME Typed, BatchInv, AttemptsInv, OperatorResume \/ Crash
    PROVE  AttemptsInv'
<1>1. resumes \in Nat /\ \A s \in Steps : Limit(s) \in Nat
  BY LimitType, ConstantsAssumption DEF Typed, TypeOK
<1>2. pipeline' = pipeline
  BY DEF OperatorResume, Crash
<1>3. \A s \in Steps : Limit(s)' = Limit(s)
  BY <1>2 DEF Limit, Action
<1>4. PICK saved, outputs : Load(saved, outputs)
  BY DEF OperatorResume, Crash
<1>5. /\ queue' = {} /\ batch' = {}
      /\ \A s \in Steps : pc'[s] = "off" /\ payload'[s].runState = {}
  BY <1>4 DEF Load, NothingEmitted
<1>6. ChosenOnce' /\ SpareAtStart' /\ SpentWhileExecuting'
  BY <1>5 DEF ChosenOnce, SpareAtStart, SpentWhileExecuting
<1>7. SpareBeforeStart' /\ Bounded(attempts)' /\ SavedBounded'
  <2>1. CASE OperatorResume
    <3>1. resumes' = resumes + 1 /\ resumes' # 0
      BY <1>1, <2>1 DEF OperatorResume
    <3>2. \A r \in record'.result : r \in record.result
      BY <2>1 DEF OperatorResume, Typed, TypeOK, Records
    <3>3. PICK r \in record.result : attempts' = r.runState.attempts
      BY <2>1 DEF OperatorResume, Load
    <3>4. \A s \in Steps : attempts'[s] \in Nat
      <4>1. attempts' \in [Steps -> Nat]
        BY <3>3 DEF Typed, TypeOK, Records, RunStates
      <4>2. QED
        BY <4>1
    <3>5. \A s \in Steps : attempts'[s] <= Limit(s) + 1 + resumes
      BY <3>3 DEF AttemptsInv, SavedBounded, Bounded
    <3>6. SpareBeforeStart' /\ Bounded(attempts)'
      BY <1>1, <1>3, <3>1, <3>4, <3>5 DEF SpareBeforeStart, Bounded
    <3>7. ASSUME NEW r2 \in record.result, NEW s \in Steps
          PROVE  r2.runState.attempts[s] <= Limit(s) + 1 + resumes'
      <4>1. r2.runState.attempts[s] \in Nat
        BY DEF Typed, TypeOK, Records, RunStates
      <4>2. r2.runState.attempts[s] <= Limit(s) + 1 + resumes
        BY DEF AttemptsInv, SavedBounded, Bounded
      <4>3. QED
        BY <1>1, <3>1, <4>1, <4>2
    <3>8. SavedBounded'
      BY <1>3, <1>5, <3>2, <3>7 DEF SavedBounded, Bounded
    <3>9. QED
      BY <3>6, <3>8
  <2>2. CASE Crash
    <3>1. UNCHANGED <<record, resumes>> /\ \A s \in Steps : attempts'[s] = 0
      BY <2>2 DEF Crash, Load, NewRunState
    <3>2. SpareBeforeStart' /\ Bounded(attempts)'
      BY <1>1, <1>3, <3>1 DEF SpareBeforeStart, Bounded
    <3>3. SavedBounded'
      BY <1>3, <1>5, <3>1 DEF AttemptsInv, SavedBounded, Bounded
    <3>4. QED
      BY <3>2, <3>3
  <2>3. QED
    BY <2>1, <2>2
<1>8. QED
  BY <1>6, <1>7 DEF AttemptsInv

\* A new run has attempted nothing.
LEMMA AttemptsInit == Init => AttemptsInv
<1>. SUFFICES ASSUME Init PROVE AttemptsInv
  OBVIOUS
<1>1. /\ \A s \in Steps : attempts[s] = 0 /\ pc[s] = "off" /\ payload[s].runState = {}
      /\ resumes = 0 /\ record.result = {} /\ queue = {} /\ batch = {}
  BY DEF Init, NewRunState, NothingEmitted
<1>2. \A s \in Steps : Limit(s) \in Nat
  BY TypedInit, LimitType
<1>3. QED
  BY <1>1, <1>2 DEF AttemptsInv, ChosenOnce, SpareBeforeStart, SpareAtStart,
                    SpentWhileExecuting, Bounded, SavedBounded

\* Every step of the system keeps the bound.
LEMMA AttemptsStep == Typed /\ BatchInv /\ AttemptsInv /\ [Next]_vars => AttemptsInv'
<1>. SUFFICES ASSUME Typed, BatchInv, AttemptsInv, [Next]_vars PROVE AttemptsInv'
  OBVIOUS
<1>1. CASE UNCHANGED vars
  BY <1>1 DEF vars, runState, main, threads, bounds, AttemptsInv, ChosenOnce,
              SpareBeforeStart, SpareAtStart, SpentWhileExecuting, Bounded,
              SavedBounded, Limit, Action, Slack
<1>2. CASE Next
  BY <1>2, AttemptsThread, AttemptsMain, AttemptsLoad DEF Next, Engine
<1>3. QED
  BY <1>1, <1>2

\* What is known of the threads, of the batches and of the attempts in every
\* state of a run.
LEMMA RunInvariants == Spec => [](Typed /\ BatchInv /\ AttemptsInv)
BY AttemptsInit, AttemptsStep, Inductive, PTL DEF Spec

\* A step is attempted at most retry_limit + 1 times and once more for each
\* resume, however often the run is stopped, crashes and is resumed.
THEOREM RetriesBounded == Spec => []AttemptsBounded
<1>1. AttemptsInv /\ Typed => AttemptsBounded
  <2>. SUFFICES ASSUME AttemptsInv, Typed, NEW s \in Steps
                PROVE  attempts[s] <= resumes + 1 + Limit(s)
    BY DEF AttemptsBounded, Limit
  <2>1. attempts[s] \in Nat /\ resumes \in Nat /\ Limit(s) \in Nat
    BY LimitType, ConstantsAssumption DEF Typed, TypeOK, RunStateOK
  <2>2. attempts[s] <= Limit(s) + 1 + resumes
    BY DEF AttemptsInv, Bounded
  <2>3. QED
    BY <2>1, <2>2
<1>2. QED
  BY <1>1, RunInvariants, PTL

-----------------------------------------------------------------------------
(* What a step finds when it starts, and what the record of a linear run   *)
(* holds, through every stop, crash and resume.  StepInv says of every     *)
(* pipeline that the steps passed are finished; LinearInv ties the three   *)
(* copies of the progress of a linear run together: memory, the checkpoint *)
(* on its way and the record.                                              *)

Emitting == {"emit", "snapshot", "persist"}

\* The places of a thread from the end of its step on.
Returning == {"advance", "done"} \cup Emitting

\* A step that completed, or was skipped, and left an output.
Finished(s) == status[s] \in Completed /\ results[s] # "NONE"

\* A failed step left the output of its agent.
OutputAtPolicy == \A s \in Steps : pc[s] = "policy" => results[s] # "NONE"

\* The steps passed are finished, except the ones that halted the run.
PassedAreFinished ==
    (mode = "fresh" \/ Linear) /\ phase \in {"select", "batch"} =>
        /\ \A s \in executed : Finished(s)
        /\ \A s \in Steps \ halted : pc[s] \in Returning => Finished(s)

\* A new run chooses steps whose dependencies were executed.
ChosenAreReady ==
    mode = "fresh" =>
        \A s \in queue \cup batch : Dependencies(pipeline, s) \subseteq executed

StepInv == OutputAtPolicy /\ PassedAreFinished /\ ChosenAreReady

-----------------------------------------------------------------------------
(* Linear pipelines *)

\* The thread of the one step of the batch, and where the cursor is meanwhile.
UnderWay(t) ==
    /\ batch = {t} /\ executed = 1 .. t - 1 /\ pc[t] # "off"
    /\ halted \subseteq {t}
    /\ t \in halted => pc[t] \in Emitting \cup {"done"}
    /\ cursor = IF t \notin halted /\ pc[t] \in Emitting \cup {"done"} THEN t ELSE t - 1

\* The steps are executed one by one, in the order of the file.
OneByOne ==
    /\ queue = {}
    /\ phase = "select" => executed = 1 .. cursor /\ batch = {}
    /\ phase = "batch" => \E t \in Steps : UnderWay(t)

\* Below the cursor is what is finished, above it nothing that succeeded.
Frontier ==
    /\ \A s \in Steps : s <= cursor => Finished(s)
    /\ \A s \in Steps : s > cursor /\ pc[s] # "advance" => ~StepSucceeded(status[s])
    /\ \A s \in Steps : s > cursor + 1 => status[s] = "PENDING" /\ results[s] = "NONE"

\* A run is halted as failed or blocked, and only a halt ends it early.
HaltedFails ==
    /\ phase = "final" => halted # {}
    /\ halted # {} /\ phase \in {"batch", "final"} => runStatus \in Unsuccessful

\* A checkpoint on its way to the record holds what is in memory.
CheckpointIsCurrent ==
    \A s \in Steps :
        /\ pc[s] \in {"snapshot", "persist"} =>
              payload[s].status = runStatus /\ payload[s].results = results
        /\ pc[s] = "persist" => payload[s].runState = {RunStateSnapshot}

\* The record counts the steps up to c as done.
Covers(c) ==
    /\ \A saved \in record.result : saved.runState.cursor = c
    /\ record.result = {} => c = 0

\* The record is the last checkpoint: it lags memory only while one is written.
RecordFollows ==
    /\ phase \in {"select", "final", "ended"} => Covers(cursor)
    /\ phase = "batch" => \A t \in batch :
          Covers(IF pc[t] \in Emitting THEN t - 1 ELSE cursor)
    /\ \A a, b \in record.result : a = b
    /\ phase # "crashed" => \A saved \in record.result, s \in Steps :
          saved.runState.attempts[s] <= attempts[s]

\* What a process reads back from the record is a frontier.
RecordIsSound ==
    \A saved \in record.result, s \in Steps :
        /\ s <= saved.runState.cursor =>
              saved.runState.status[s] \in Completed /\ saved.results[s] # "NONE"
        /\ s > saved.runState.cursor => ~StepSucceeded(saved.runState.status[s])
        /\ s > saved.runState.cursor + 1 =>
              saved.runState.status[s] = "PENDING" /\ saved.results[s] = "NONE"

\* A success is the last thing a run records, with every step done.
SuccessIsLast ==
    /\ StepSucceeded(record.status) =>
          phase = "ended" /\ \A saved \in record.result : saved.runState.cursor = N
    /\ StepSucceeded(runStatus) => StepSucceeded(record.status)
    /\ \A saved \in record.result :
          StepSucceeded(saved.runState.runStatus) => StepSucceeded(record.status)

\* "SKIPPED" is the status of a step, never that of a run.
RunIsNotSkipped ==
    /\ runStatus # "SKIPPED" /\ record.status # "SKIPPED"
    /\ \A saved \in record.result : saved.runState.runStatus # "SKIPPED"

\* Between two steps a record that says FAILED says what memory says.
FailureIsCurrent ==
    /\ record.status = "FAILED"
    /\ phase = "select" \/ (phase = "batch" /\ \A t \in batch : pc[t] = "done")
    => runStatus = "FAILED"

LinearInv ==
    Linear => /\ OneByOne /\ Frontier /\ HaltedFails /\ CheckpointIsCurrent
              /\ RecordFollows /\ RecordIsSound
              /\ SuccessIsLast /\ RunIsNotSkipped /\ FailureIsCurrent

RecordInv == StepInv /\ LinearInv

-----------------------------------------------------------------------------
(* What a step of a thread does *)

\* The thread of s works on its step ...
Works(s) ==
    /\ pc[s] \notin Returning /\ pc'[s] \notin Returning \cup {"off"}
    /\ UNCHANGED <<cursor, halted, payload, record>>
    /\ runStatus' \in {runStatus, "RUNNING"} \cup Unsuccessful
    /\ status'[s] = status[s] \/ ~StepSucceeded(status'[s])

\* ... until the step is finished ...
Finishes(s) ==
    /\ pc[s] \notin Returning /\ pc'[s] = "advance"
    /\ UNCHANGED <<cursor, halted, payload, record>>
    /\ runStatus' \in {runStatus, "RUNNING"} \cup Unsuccessful
    /\ Finished(s)'

\* ... or it halts the run, as failed or blocked; ...
Halts(s) ==
    /\ pc[s] \notin Returning /\ pc'[s] = "emit"
    /\ UNCHANGED <<cursor, payload, record>> /\ halted' = halted \cup {s}
    /\ runStatus' \in Unsuccessful
    /\ status'[s] = status[s] \/ ~StepSucceeded(status'[s])

\* ... then it moves the cursor and writes its checkpoint.
Checkpoints(s) ==
    /\ pc[s] \in Returning
    /\ UNCHANGED <<status, attempts, inputHash, runStatus, results, halted>>
    /\ \/ Advance(s) \/ EmitOutputs(s) \/ EmitRunState(s) \/ Persist(s)

\* Every step of a thread is one of these, and concerns its own step only.
LEMMA ThreadCases ==
    ASSUME Typed, OutputAtPolicy, NEW s \in Steps, Thread(s)
    PROVE  /\ Works(s) \/ Finishes(s) \/ Halts(s) \/ Checkpoints(s)
           /\ \A t \in Steps \ {s} : /\ status'[t] = status[t] /\ results'[t] = results[t]
                                     /\ payload'[t] = payload[t]
           /\ \A t \in Steps : attempts[t] <= attempts'[t]
<1>1. /\ pc \in [Steps -> ThreadStates] /\ status \in [Steps -> Statuses]
      /\ attempts \in [Steps -> Nat] /\ results \in [Steps -> Outputs]
      /\ payload \in [Steps -> Payloads]
  BY DEF Typed, TypeOK, RunStateOK, ThreadsOK, StepOutputs
<1>. USE <1>1 DEF Goto, Returning, Emitting, runState, main
<1>2. CASE EnterStep(s) \/ PassOverride(s) \/ RetryStep(s)
  BY <1>2 DEF EnterStep, PassOverride, RetryStep, Works
<1>3. CASE AgentReturns(s)
  BY <1>3 DEF AgentReturns, Works
<1>4. CASE StartStep(s)
  BY <1>4 DEF StartStep, Mark, Works, StepSucceeded
<1>5. CASE SkipByCondition(s)
  BY <1>5 DEF SkipByCondition, Mark, Works, Finishes, Finished, Completed
<1>6. CASE StopStep(s)
  BY <1>6 DEF StopStep, Mark, Works, Halts, StepSucceeded, Unsuccessful
<1>7. CASE MarkOutcome(s)
  <2>1. results[s] \in AgentStatuses
    BY <1>7 DEF MarkOutcome, Typed, MarksAgentOutput
  <2>2. CASE StepSucceeded(results[s])
    BY <1>7, <2>1, <2>2 DEF MarkOutcome, Mark, AfterOutcome, Finishes, Finished,
                            StepSucceeded, Completed, Unsuccessful
  <2>3. CASE ~StepSucceeded(results[s])
    BY <1>7, <2>1, <2>3 DEF MarkOutcome, Mark, AfterOutcome, Works, AgentStatuses,
                            StepSucceeded, Unsuccessful
  <2>4. QED
    BY <2>2, <2>3
<1>8. CASE ContinueAfterFailure(s)
  <2>1. results[s] # "NONE"
    BY <1>8 DEF ContinueAfterFailure, OutputAtPolicy
  <2>2. QED
    BY <1>8, <2>1 DEF ContinueAfterFailure, Mark, Finishes, Finished, Completed
<1>9. CASE HaltRun(s)
  BY <1>9 DEF HaltRun, Halts, Unsuccessful
<1>10. CASE Advance(s) \/ EmitOutputs(s)
  BY <1>10 DEF Advance, EmitOutputs, Checkpoints
<1>11. CASE EmitRunState(s) \/ Persist(s)
  BY <1>11 DEF EmitRunState, Persist, Checkpoints
<1>12. QED
  BY <1>2, <1>3, <1>4, <1>5, <1>6, <1>7, <1>8, <1>9, <1>10, <1>11 DEF Thread

\* What a step of a thread leaves of the invariant on the steps.
LEMMA StepInvThread ==
    ASSUME Typed, BatchInv, AttemptsInv, StepInv, NEW s \in Steps, Thread(s)
    PROVE  StepInv'
<1>. USE DEF StepInv
<1>1. /\ s \in batch /\ s \notin executed /\ halted \subseteq halted'
      /\ UNCHANGED <<pipeline, phase, mode, executed, queue, batch>>
      /\ \A t \in Steps \ {s} : pc'[t] = pc[t]
  BY ThreadEffect DEF BatchInv, ThreadsInBatch, Idle, AttemptsInv, ChosenOnce
<1>2. /\ Works(s) \/ Finishes(s) \/ Halts(s) \/ Checkpoints(s)
      /\ \A t \in Steps \ {s} : status'[t] = status[t] /\ results'[t] = results[t]
  BY ThreadCases
<1>3. OutputAtPolicy'
  <2>1. pc'[s] = "policy" => results'[s] # "NONE"
    <3>. SUFFICES ASSUME pc'[s] = "policy" PROVE results'[s] # "NONE"
      OBVIOUS
    <3>1. MarkOutcome(s)
      BY DEF Thread, EnterStep, SkipByCondition, PassOverride, StopStep, StartStep,
             AgentReturns, RetryStep, ContinueAfterFailure, HaltRun, Advance,
             EmitOutputs, EmitRunState, Persist, Goto, Typed, TypeOK, ThreadsOK
    <3>2. results[s] \in AgentStatuses /\ results' = results
      BY <3>1 DEF MarkOutcome, Typed, MarksAgentOutput
    <3>3. QED
      BY <3>2 DEF AgentStatuses
  <2>2. QED
    BY <1>1, <1>2, <2>1 DEF OutputAtPolicy
<1>4. PassedAreFinished'
  <2>. SUFFICES ASSUME (mode = "fresh" \/ Linear)', (phase \in {"select", "batch"})'
                PROVE  /\ \A t \in executed : Finished(t)'
                       /\ \A t \in Steps \ halted' : pc'[t] \in Returning => Finished(t)'
    BY <1>1 DEF PassedAreFinished
  <2>1. /\ \A t \in executed : Finished(t)
        /\ \A t \in Steps \ halted : pc[t] \in Returning => Finished(t)
    BY <1>1 DEF PassedAreFinished, Linear
  <2>2. \A t \in executed : t \in Steps \ {s}
    BY <1>1 DEF Typed, TypeOK, MainOK
  <2>3. s \notin halted' /\ pc'[s] \in Returning => Finished(s)'
    BY <1>1, <1>2, <2>1 DEF Works, Finishes, Halts, Checkpoints, Finished
  <2>4. QED
    BY <1>1, <1>2, <2>1, <2>2, <2>3 DEF Finished
<1>5. ChosenAreReady'
  BY <1>1 DEF ChosenAreReady, Dependencies
<1>6. QED
  BY <1>3, <1>4, <1>5

\* The main thread passes to other steps when those of the batch are finished.
LEMMA StepInvMain ==
    ASSUME Typed, BatchInv, AttemptsInv, StepInv,
           \/ StartBatch \/ FinishBatch \/ EndRun \/ RaiseError
           \/ OperatorStop \/ Crash
           \/ \E s \in Steps : ResumeStep(s) \/ SkipReplay(s)
    PROVE  StepInv'
<1>. USE DEF StepInv
<1>1. pc \in [Steps -> ThreadStates] /\ batch \subseteq Steps
  BY DEF Typed, TypeOK, MainOK, ThreadsOK
<1>2. CASE StartBatch
  <2>. DEFINE ready == IF queue = {} THEN ReadySteps(pipeline, executed) ELSE queue
  <2>1. PICK b \in SUBSET ready :
          /\ batch' = b /\ queue' = ready \ b
          /\ \A s \in Steps : pc'[s] \in {"queued", "off"}
    BY <1>2 DEF StartBatch
  <2>2. /\ mode = "fresh" /\ phase = "select"
        /\ UNCHANGED <<pipeline, status, results, mode, executed, halted>>
    BY <1>2 DEF StartBatch, runState
  <2>3. ChosenAreReady'
    BY <2>1, <2>2 DEF ChosenAreReady, ReadySteps, Dependencies
  <2>4. PassedAreFinished'
    BY <2>1, <2>2 DEF PassedAreFinished, Finished, Returning, Emitting
  <2>5. QED
    BY <2>1, <2>3, <2>4 DEF OutputAtPolicy
<1>3. CASE FinishBatch
  <2>1. /\ phase = "batch" /\ \A s \in batch : pc[s] = "done"
        /\ executed' = executed \cup batch /\ batch' = {}
        /\ phase' = "select" => halted = {}
        /\ phase' \in {"select", "final"}
        /\ \A s \in Steps : pc'[s] = "off"
        /\ UNCHANGED <<pipeline, status, results, mode, queue, halted>>
    BY <1>3 DEF FinishBatch, BatchStops, runState
  <2>2. PassedAreFinished'
    BY <1>1, <2>1 DEF PassedAreFinished, Linear, Finished, Returning, Emitting
  <2>3. ChosenAreReady' /\ OutputAtPolicy'
    BY <2>1 DEF ChosenAreReady, Dependencies, OutputAtPolicy
  <2>4. QED
    BY <2>2, <2>3
<1>4. CASE EndRun \/ RaiseError
  BY <1>4 DEF EndRun, RaiseError, main, threads, runState, OutputAtPolicy,
              PassedAreFinished, ChosenAreReady, Dependencies
<1>5. CASE OperatorStop
  BY <1>5 DEF OperatorStop, main, threads, runState, OutputAtPolicy,
              PassedAreFinished, Finished, Linear, ChosenAreReady, Dependencies
<1>6. CASE Crash
  BY <1>6 DEF Crash, Load, OutputAtPolicy, PassedAreFinished, ChosenAreReady
<1>7. ASSUME NEW s \in Steps, ResumeStep(s) \/ SkipReplay(s) PROVE StepInv'
  <2>1. /\ mode = "resume" /\ phase = "select"
        /\ UNCHANGED <<pipeline, status, results, mode, executed, halted>>
        /\ \A t \in Steps \ {s} : pc'[t] = pc[t]
        /\ pc'[s] = "queued" \/ (pc'[s] = "emit" /\ Finished(s))
    BY <1>1, <1>7 DEF ResumeStep, SkipReplay, NextInOrder, Replayable, runState, Goto, Finished
  <2>2. PassedAreFinished'
    BY <2>1 DEF PassedAreFinished, Finished, Linear, Returning, Emitting
  <2>3. QED
    BY <2>1, <2>2 DEF ChosenAreReady, OutputAtPolicy
<1>8. QED
  BY <1>2, <1>3, <1>4, <1>5, <1>6, <1>7

\* A resume finds finished what the record counts as done.
LEMMA StepInvResume ==
    ASSUME Typed, LinearInv, OperatorResume
    PROVE  StepInv'
<1>1. PICK saved \in record.result : Load(saved.runState, saved.results)
  BY DEF OperatorResume
<1>2. mode' = "resume" /\ pipeline' = pipeline /\ \A s \in Steps : pc'[s] = "off"
  BY <1>1 DEF OperatorResume, Load
<1>3. PassedAreFinished'
  <2>. SUFFICES ASSUME Linear, NEW s \in executed' PROVE Finished(s)'
    BY <1>2 DEF PassedAreFinished, Linear, Returning, Emitting
  <2>1. saved.runState.cursor \in 0 .. N
    BY DEF Typed, TypeOK, Records, RunStates
  <2>2. s \in Steps /\ s <= saved.runState.cursor
    BY <1>1, <2>1, ConstantsAssumption DEF Load, StepsBelow, Steps
  <2>3. QED
    BY <1>1, <2>2 DEF LinearInv, RecordIsSound, Load, Finished
<1>4. QED
  BY <1>2, <1>3 DEF StepInv, OutputAtPolicy, ChosenAreReady

-----------------------------------------------------------------------------
(* The thread of a linear run *)

\* The thread that takes a step is that of the step under way, and no other
\* thread is there.
LEMMA OneThread ==
    ASSUME Typed, BatchInv, LinearInv, Linear, NEW s \in Steps, Thread(s)
    PROVE  /\ phase = "batch" /\ UnderWay(s) /\ queue = {}
           /\ \A t \in Steps \ {s} : pc[t] = "off" /\ pc'[t] = "off"
           /\ UNCHANGED <<pipeline, phase, mode, executed, queue, batch>>
           /\ s \in 1 .. N /\ cursor \in 0 .. N /\ ~StepSucceeded(record.status)
<1>1. s \in batch /\ phase = "batch"
  BY ThreadEffect DEF BatchInv, ThreadsInBatch, NoThreadBetweenBatches, Idle
<1>2. UnderWay(s) /\ queue = {}
  BY <1>1 DEF LinearInv, OneByOne, UnderWay
<1>3. \A t \in Steps \ {s} : pc[t] = "off"
  BY <1>2 DEF UnderWay, BatchInv, ThreadsInBatch
<1>4. ~StepSucceeded(record.status)
  BY <1>1 DEF LinearInv, SuccessIsLast
<1>5. QED
  BY <1>1, <1>2, <1>3, <1>4, ThreadEffect DEF Steps, Typed, TypeOK, RunStateOK

\* Until the step returns its record stays as it was.
LEMMA LinearWorks ==
    ASSUME Typed, BatchInv, StepInv, LinearInv, Linear, NEW s \in Steps, Thread(s),
           Works(s) \/ Finishes(s) \/ Halts(s)
    PROVE  LinearInv'
<1>1. /\ phase = "batch" /\ UnderWay(s) /\ queue = {}
      /\ \A t \in Steps \ {s} : pc[t] = "off" /\ pc'[t] = "off"
      /\ UNCHANGED <<pipeline, phase, mode, executed, queue, batch>>
      /\ s \in 1 .. N /\ cursor \in 0 .. N /\ ~StepSucceeded(record.status)
  BY OneThread
<1>2. /\ \A t \in Steps \ {s} : status'[t] = status[t] /\ results'[t] = results[t]
      /\ \A t \in Steps : attempts[t] <= attempts'[t]
  BY ThreadCases DEF StepInv
<1>3. /\ UNCHANGED <<cursor, payload, record>>
      /\ pc[s] \notin Emitting \cup {"done", "advance"}
      /\ pc'[s] \notin {"off", "snapshot", "persist", "done"}
      /\ pc'[s] \in Emitting => s \in halted' /\ runStatus' \in Unsuccessful
      /\ halted' \in {halted, {s}} /\ (halted' # halted => pc'[s] = "emit")
      /\ pc'[s] = "advance" \/ status'[s] = status[s] \/ ~StepSucceeded(status'[s])
      /\ runStatus' \in {runStatus, "RUNNING"} \cup Unsuccessful
  BY <1>1 DEF Works, Finishes, Halts, Returning, Emitting, UnderWay
<1>4. cursor = s - 1 /\ halted = {} /\ Covers(s - 1)
  BY <1>1, <1>3 DEF UnderWay, LinearInv, RecordFollows
<1>5. OneByOne' /\ HaltedFails' /\ CheckpointIsCurrent' /\ FailureIsCurrent'
  <2>1. UnderWay(s)'
    BY <1>1, <1>3, <1>4 DEF UnderWay, Emitting
  <2>2. HaltedFails'
    BY <1>1, <1>3, <1>4 DEF HaltedFails, Emitting
  <2>3. CheckpointIsCurrent'
    BY <1>1, <1>3 DEF CheckpointIsCurrent
  <2>4. FailureIsCurrent'
    BY <1>1, <1>3 DEF FailureIsCurrent, UnderWay
  <2>5. QED
    BY <1>1, <2>1, <2>2, <2>3, <2>4 DEF OneByOne
<1>6. Frontier'
  BY <1>1, <1>2, <1>3, <1>4 DEF LinearInv, Frontier, Finished, Steps
<1>7. RecordFollows'
  <2>1. Covers(cursor)'
    BY <1>3, <1>4 DEF Covers
  <2>2. \A saved \in record.result, t \in Steps : saved.runState.attempts[t] <= attempts'[t]
    <3>. SUFFICES ASSUME NEW saved \in record.result, NEW t \in Steps
                  PROVE  saved.runState.attempts[t] <= attempts'[t]
      OBVIOUS
    <3>1. saved.runState.attempts[t] <= attempts[t] /\ attempts[t] <= attempts'[t]
      BY <1>1, <1>2 DEF LinearInv, RecordFollows
    <3>2. saved.runState.attempts[t] \in Nat /\ attempts[t] \in Nat /\ attempts'[t] \in Nat
      BY TypedThread DEF Typed, TypeOK, RunStateOK, Records, RunStates
    <3>3. QED
      BY <3>1, <3>2
  <2>3. \A a, b \in record.result : a = b
    BY DEF LinearInv, RecordFollows
  <2>4. batch' = {s} /\ Covers(s - 1)'
    BY <1>1, <1>3, <1>4 DEF UnderWay, Covers
  <2>5. QED
    BY <1>1, <1>3, <1>4, <2>1, <2>2, <2>3, <2>4 DEF RecordFollows, Emitting
<1>8. RecordIsSound' /\ SuccessIsLast' /\ RunIsNotSkipped'
  BY <1>1, <1>3 DEF LinearInv, RecordIsSound, SuccessIsLast, RunIsNotSkipped,
                    StepSucceeded, Unsuccessful
<1>9. QED
  BY <1>5, <1>6, <1>7, <1>8 DEF LinearInv

\* advance_index counts the step that is finished.
LEMMA LinearAdvance ==
    ASSUME Typed, BatchInv, StepInv, LinearInv, Linear, NEW s \in Steps, Advance(s)
    PROVE  LinearInv'
<1>0. Thread(s)
  BY DEF Thread
<1>1. /\ phase = "batch" /\ UnderWay(s) /\ queue = {}
      /\ \A t \in Steps \ {s} : pc[t] = "off" /\ pc'[t] = "off"
      /\ UNCHANGED <<pipeline, phase, mode, executed, queue, batch>>
      /\ s \in 1 .. N /\ cursor \in 0 .. N /\ ~StepSucceeded(record.status)
  BY <1>0, OneThread
<1>2. /\ UNCHANGED <<status, attempts, inputHash, runStatus, results, halted, payload, record>>
      /\ pc[s] = "advance" /\ pc'[s] = "emit"
      /\ cursor' = IF cursor < N THEN cursor + 1 ELSE cursor
  BY DEF Advance, Goto, Typed, TypeOK, ThreadsOK
<1>3. cursor = s - 1 /\ cursor' = s /\ halted = {} /\ Covers(s - 1)
  BY <1>1, <1>2, ConstantsAssumption DEF UnderWay, Emitting, LinearInv, RecordFollows
<1>4. Finished(s)
  BY <1>1, <1>2, <1>3 DEF StepInv, PassedAreFinished, Returning
<1>5. UnderWay(s)'
  BY <1>1, <1>2, <1>3 DEF UnderWay, Emitting
<1>6. OneByOne' /\ HaltedFails' /\ CheckpointIsCurrent' /\ FailureIsCurrent'
  BY <1>1, <1>2, <1>3, <1>5
     DEF OneByOne, HaltedFails, CheckpointIsCurrent, FailureIsCurrent, UnderWay
<1>7. Frontier'
  BY <1>1, <1>2, <1>3, <1>4 DEF LinearInv, Frontier, Finished, Steps
<1>8. RecordFollows'
  BY <1>1, <1>2, <1>3 DEF LinearInv, RecordFollows, Covers, UnderWay, Emitting
<1>9. RecordIsSound' /\ SuccessIsLast' /\ RunIsNotSkipped'
  BY <1>1, <1>2 DEF LinearInv, RecordIsSound, SuccessIsLast, RunIsNotSkipped
<1>10. QED
  BY <1>6, <1>7, <1>8, <1>9 DEF LinearInv

\* A checkpoint is put together from what is in memory.
LEMMA LinearEmits ==
    ASSUME Typed, BatchInv, StepInv, LinearInv, Linear, NEW s \in Steps,
           EmitOutputs(s) \/ EmitRunState(s)
    PROVE  LinearInv'
<1>0. Thread(s)
  BY DEF Thread
<1>1. /\ phase = "batch" /\ UnderWay(s) /\ queue = {}
      /\ \A t \in Steps \ {s} : pc[t] = "off" /\ pc'[t] = "off"
      /\ UNCHANGED <<pipeline, phase, mode, executed, queue, batch>>
      /\ s \in 1 .. N /\ cursor \in 0 .. N /\ ~StepSucceeded(record.status)
  BY <1>0, OneThread
<1>2. /\ pc \in [Steps -> ThreadStates] /\ payload \in [Steps -> Payloads]
  BY DEF Typed, TypeOK, ThreadsOK
<1>3. /\ UNCHANGED <<status, attempts, inputHash, cursor, runStatus, results, halted, record>>
      /\ pc[s] \in {"emit", "snapshot"} /\ pc'[s] \in {"snapshot", "persist"}
      /\ pc[s] = "emit" => pc'[s] = "snapshot"
  BY <1>2 DEF EmitOutputs, EmitRunState, runState, Goto
<1>4. UnderWay(s)'
  BY <1>1, <1>3 DEF UnderWay, Emitting
<1>5. OneByOne' /\ HaltedFails' /\ FailureIsCurrent'
  BY <1>1, <1>3, <1>4 DEF LinearInv, OneByOne, HaltedFails, FailureIsCurrent, UnderWay
<1>6. CheckpointIsCurrent'
  <2>1. /\ payload'[s].status = runStatus /\ payload'[s].results = results
        /\ pc'[s] = "persist" => payload'[s].runState = {RunStateSnapshot}
    <3>1. CASE EmitOutputs(s)
      BY <1>2, <3>1 DEF EmitOutputs, Goto
    <3>2. CASE EmitRunState(s)
      <4>1. pc[s] = "snapshot" /\ payload' = [payload EXCEPT ![s].runState = {RunStateSnapshot}]
        BY <3>2 DEF EmitRunState
      <4>2. /\ payload'[s].status = payload[s].status /\ payload'[s].results = payload[s].results
            /\ payload'[s].runState = {RunStateSnapshot}
        BY <1>2, <4>1 DEF Payloads
      <4>3. QED
        BY <4>1, <4>2 DEF LinearInv, CheckpointIsCurrent
    <3>3. QED
      BY <3>1, <3>2
  <2>2. RunStateSnapshot' = RunStateSnapshot
    BY <1>3 DEF RunStateSnapshot
  <2>3. QED
    BY <1>1, <1>3, <2>1, <2>2 DEF CheckpointIsCurrent
<1>7. Frontier'
  BY <1>1, <1>3 DEF LinearInv, Frontier, Finished
<1>8. RecordFollows'
  BY <1>1, <1>3 DEF LinearInv, RecordFollows, Covers, UnderWay, Emitting
<1>9. RecordIsSound' /\ SuccessIsLast' /\ RunIsNotSkipped'
  BY <1>1, <1>3 DEF LinearInv, RecordIsSound, SuccessIsLast, RunIsNotSkipped
<1>10. QED
  BY <1>5, <1>6, <1>7, <1>8, <1>9 DEF LinearInv

\* A frontier in memory, between two moves of the cursor, makes a sound record.
LEMMA SoundSnapshot ==
    ASSUME Frontier, \A s \in Steps : pc[s] # "advance"
    PROVE  \A s \in Steps :
             /\ s <= RunStateSnapshot.cursor =>
                   RunStateSnapshot.status[s] \in Completed /\ results[s] # "NONE"
             /\ s > RunStateSnapshot.cursor => ~StepSucceeded(RunStateSnapshot.status[s])
             /\ s > RunStateSnapshot.cursor + 1 =>
                   RunStateSnapshot.status[s] = "PENDING" /\ results[s] = "NONE"
BY DEF Frontier, Finished, RunStateSnapshot

\* The callback replaces the record by what is in memory.
LEMMA LinearPersist ==
    ASSUME Typed, BatchInv, StepInv, LinearInv, Linear, NEW s \in Steps, Persist(s)
    PROVE  /\ LinearInv'
           /\ record' = [status |-> runStatus,
                         result |-> {[runState |-> RunStateSnapshot, results |-> results]}]
           /\ Covers(s - 1) /\ cursor \in {s - 1, s}
<1>0. Thread(s)
  BY DEF Thread
<1>1. /\ phase = "batch" /\ UnderWay(s) /\ queue = {}
      /\ \A t \in Steps \ {s} : pc[t] = "off" /\ pc'[t] = "off"
      /\ UNCHANGED <<pipeline, phase, mode, executed, queue, batch>>
      /\ s \in 1 .. N /\ cursor \in 0 .. N /\ ~StepSucceeded(record.status)
  BY <1>0, OneThread
<1>2. /\ UNCHANGED <<status, attempts, inputHash, cursor, runStatus, results, halted, payload>>
      /\ pc[s] = "persist" /\ pc'[s] = "done"
  BY DEF Persist, runState, Goto, Typed, TypeOK, ThreadsOK
<1>3. record' = [status |-> runStatus,
                 result |-> {[runState |-> RunStateSnapshot, results |-> results]}]
  <2>1. /\ payload[s].status = runStatus /\ payload[s].results = results
        /\ payload[s].runState = {RunStateSnapshot}
    BY <1>2 DEF LinearInv, CheckpointIsCurrent
  <2>2. {[runState |-> rs, results |-> payload[s].results] : rs \in payload[s].runState}
          = {[runState |-> RunStateSnapshot, results |-> results]}
    BY <2>1
  <2>3. QED
    BY <2>1, <2>2 DEF Persist
<1>4. Covers(s - 1) /\ cursor \in {s - 1, s}
  BY <1>1, <1>2 DEF LinearInv, RecordFollows, UnderWay, Emitting
<1>5. UnderWay(s)'
  BY <1>1, <1>2 DEF UnderWay, Emitting
<1>6. OneByOne' /\ HaltedFails' /\ CheckpointIsCurrent'
  BY <1>1, <1>2, <1>5 DEF LinearInv, OneByOne, HaltedFails, CheckpointIsCurrent
<1>7. FailureIsCurrent'
  BY <1>2, <1>3 DEF FailureIsCurrent
<1>8. Frontier'
  BY <1>1, <1>2 DEF LinearInv, Frontier, Finished
<1>9. \A saved \in record'.result : saved.runState = RunStateSnapshot /\ saved.results = results
  BY <1>3
<1>10. RecordFollows'
  <2>1. \A t \in Steps : attempts[t] \in Nat
    BY DEF Typed, TypeOK, RunStateOK
  <2>2. Covers(cursor)'
    <3>1. record'.result # {}
      BY <1>3
    <3>2. \A saved \in record'.result : saved.runState.cursor = cursor
      BY <1>9 DEF RunStateSnapshot
    <3>3. QED
      BY <1>2, <3>1, <3>2 DEF Covers
  <2>3. \A saved \in record'.result, t \in Steps : saved.runState.attempts[t] <= attempts[t]
    BY <1>9, <2>1 DEF RunStateSnapshot
  <2>4. \A a, b \in record'.result : a = b
    BY <1>3
  <2>5. QED
    BY <1>1, <1>2, <2>2, <2>3, <2>4 DEF RecordFollows, UnderWay, Emitting
<1>11. RecordIsSound'
  <2>1. \A t \in Steps : pc[t] # "advance"
    BY <1>1, <1>2
  <2>2. QED
    BY <1>9, <2>1, SoundSnapshot DEF LinearInv, RecordIsSound
<1>12. SuccessIsLast' /\ RunIsNotSkipped'
  BY <1>1, <1>2, <1>3, <1>9
     DEF LinearInv, SuccessIsLast, RunIsNotSkipped, RunStateSnapshot
<1>13. QED
  BY <1>3, <1>4, <1>6, <1>7, <1>8, <1>10, <1>11, <1>12 DEF LinearInv

\* Every step of a thread keeps the invariant of a linear run.
LEMMA LinearThread ==
    ASSUME Typed, BatchInv, StepInv, LinearInv, NEW s \in Steps, Thread(s)
    PROVE  LinearInv'
<1>1. CASE Linear
  <2>1. Works(s) \/ Finishes(s) \/ Halts(s) \/ Checkpoints(s)
    BY ThreadCases DEF StepInv
  <2>2. QED
    BY <1>1, <2>1, LinearWorks, LinearAdvance, LinearEmits, LinearPersist DEF Checkpoints
<1>2. CASE ~Linear
  BY <1>2, ThreadEffect DEF LinearInv, Linear
<1>3. QED
  BY <1>1, <1>2

-----------------------------------------------------------------------------
(* The main thread of a linear run *)

\* Between two batches: everything up to the cursor was executed.
LEMMA LinearSelect ==
    ASSUME Typed, BatchInv, LinearInv, Linear, phase = "select"
    PROVE  /\ queue = {} /\ batch = {} /\ halted = {}
           /\ cursor \in 0 .. N /\ executed = 1 .. cursor
           /\ \A t \in Steps : pc[t] = "off"
           /\ Covers(cursor) /\ ~StepSucceeded(record.status)
BY DEF Typed, TypeOK, RunStateOK, BatchInv, NoThreadBetweenBatches, NoChoiceAfterHalt,
       LinearInv, OneByOne, RecordFollows, SuccessIsLast

\* The next step to execute is the one above the cursor.
LEMMA NextStep ==
    ASSUME Typed, BatchInv, LinearInv, Linear, phase = "select"
    PROVE  /\ ReadySteps(pipeline, executed) \subseteq {cursor + 1}
           /\ \A s \in Steps : NextInOrder(s) => s = cursor + 1
<1>1. cursor \in 0 .. N /\ executed = 1 .. cursor
  BY LinearSelect
<1>2. ASSUME NEW s \in ReadySteps(pipeline, executed) PROVE s = cursor + 1
  <2>1. s \in 1 .. N /\ s > cursor /\ Dependencies(pipeline, s) \subseteq 1 .. cursor
    BY <1>1, ConstantsAssumption DEF ReadySteps, Steps
  <2>2. CASE s > 1
    <3>1. s - 1 \in Dependencies(pipeline, s)
      BY <2>1, <2>2 DEF Dependencies, Linear
    <3>2. QED
      BY <1>1, <2>1, <3>1
  <2>3. CASE s = 1
    BY <1>1, <2>1, <2>3
  <2>4. QED
    BY <2>1, <2>2, <2>3
<1>3. ASSUME NEW s \in Steps, NextInOrder(s) PROVE s = cursor + 1
  <2>1. s \in 1 .. N /\ s > cursor /\ \A t \in (1 .. N) \ (1 .. cursor) : s <= t
    BY <1>1, <1>3, ConstantsAssumption DEF NextInOrder, Steps
  <2>2. cursor + 1 \in (1 .. N) \ (1 .. cursor)
    BY <1>1, <2>1, ConstantsAssumption
  <2>3. QED
    BY <1>1, <2>1, <2>2
<1>4. QED
  BY <1>2, <1>3

\* The one step that is ready makes a batch of its own.
LEMMA LinearStart ==
    ASSUME Typed, BatchInv, LinearInv, Linear,
           StartBatch \/ \E s \in Steps : ResumeStep(s)
    PROVE  LinearInv'
<1>0. phase = "select"
  BY DEF StartBatch, ResumeStep, NextInOrder
<1>1. /\ queue = {} /\ batch = {} /\ halted = {}
      /\ cursor \in 0 .. N /\ executed = 1 .. cursor
      /\ \A t \in Steps : pc[t] = "off"
      /\ Covers(cursor) /\ ~StepSucceeded(record.status)
  BY <1>0, LinearSelect
<1>2. /\ phase' = "batch"
      /\ UNCHANGED <<pipeline, status, attempts, inputHash, cursor, runStatus, results,
                     executed, halted, payload, record>>
  BY DEF StartBatch, ResumeStep, runState
<1>. DEFINE s == cursor + 1
<1>3. /\ s \in Steps /\ batch' = {s} /\ queue' = {}
      /\ pc'[s] = "queued" /\ \A t \in Steps \ {s} : pc'[t] = "off"
  <2>1. CASE StartBatch
    <3>1. PICK b \in SUBSET ReadySteps(pipeline, executed) :
            /\ ReadySteps(pipeline, executed) # {}
            /\ IsLockAwareBatch(pipeline, ReadySteps(pipeline, executed), b)
            /\ batch' = b /\ queue' = ReadySteps(pipeline, executed) \ b
            /\ pc' = [t \in Steps |-> IF t \in Launched(b) THEN "queued" ELSE "off"]
      BY <1>1, <2>1 DEF StartBatch
    <3>2. ReadySteps(pipeline, executed) = {s} /\ s \in Steps
      BY <1>0, <3>1, NextStep DEF ReadySteps
    <3>3. b = {s}
      <4>1. ~(s < s)
        BY <1>1
      <4>2. s \in b
        BY <3>1, <3>2, <4>1 DEF IsLockAwareBatch
      <4>3. QED
        BY <3>1, <3>2, <4>2
    <3>4. Launched(b) = {s}
      BY <1>1, <3>3 DEF Launched
    <3>5. QED
      BY <3>1, <3>2, <3>3, <3>4
  <2>2. ASSUME NEW t \in Steps, ResumeStep(t) PROVE <1>3!:
    <3>1. t = s /\ batch' = {t} /\ queue' = queue /\ pc' = [pc EXCEPT ![t] = "queued"]
      BY <1>0, <2>2, NextStep DEF ResumeStep, Goto
    <3>2. QED
      BY <1>1, <3>1 DEF Typed, TypeOK, ThreadsOK
  <2>3. QED
    BY <2>1, <2>2
<1>4. UnderWay(s)'
  BY <1>1, <1>2, <1>3 DEF UnderWay, Emitting
<1>5. OneByOne' /\ HaltedFails' /\ CheckpointIsCurrent' /\ FailureIsCurrent'
  BY <1>1, <1>2, <1>3, <1>4
     DEF OneByOne, HaltedFails, CheckpointIsCurrent, FailureIsCurrent
<1>6. Frontier'
  BY <1>1, <1>2, <1>3 DEF LinearInv, Frontier, Finished
<1>7. RecordFollows'
  BY <1>0, <1>1, <1>2, <1>3 DEF LinearInv, RecordFollows, Covers, Emitting
<1>8. RecordIsSound' /\ SuccessIsLast' /\ RunIsNotSkipped'
  BY <1>1, <1>2 DEF LinearInv, RecordIsSound, SuccessIsLast, RunIsNotSkipped
<1>9. QED
  BY <1>5, <1>6, <1>7, <1>8 DEF LinearInv

\* A step that is not replayed goes below the cursor as it is.
LEMMA LinearSkip ==
    ASSUME Typed, BatchInv, LinearInv, Linear, NEW s \in Steps, SkipReplay(s)
    PROVE  LinearInv'
<1>0. phase = "select" /\ s = cursor + 1
  BY NextStep DEF SkipReplay, NextInOrder
<1>1. /\ queue = {} /\ batch = {} /\ halted = {}
      /\ cursor \in 0 .. N /\ executed = 1 .. cursor
      /\ \A t \in Steps : pc[t] = "off"
      /\ Covers(cursor) /\ ~StepSucceeded(record.status)
  BY <1>0, LinearSelect
<1>2. /\ phase' = "batch" /\ batch' = {s} /\ cursor' = s
      /\ pc'[s] = "emit" /\ \A t \in Steps \ {s} : pc'[t] = "off"
      /\ Finished(s)
      /\ UNCHANGED <<pipeline, status, attempts, inputHash, runStatus, results,
                     executed, queue, halted, payload, record>>
  BY <1>0, <1>1 DEF SkipReplay, Replayable, Finished, Goto, Typed, TypeOK, ThreadsOK
<1>4. UnderWay(s)'
  BY <1>0, <1>1, <1>2 DEF UnderWay, Emitting
<1>5. OneByOne' /\ HaltedFails' /\ CheckpointIsCurrent' /\ FailureIsCurrent'
  BY <1>1, <1>2, <1>4
     DEF OneByOne, HaltedFails, CheckpointIsCurrent, FailureIsCurrent
<1>6. Frontier'
  BY <1>0, <1>1, <1>2, ConstantsAssumption DEF LinearInv, Frontier, Finished, Steps
<1>7. RecordFollows'
  BY <1>0, <1>1, <1>2 DEF LinearInv, RecordFollows, Covers, Emitting
<1>8. RecordIsSound' /\ SuccessIsLast' /\ RunIsNotSkipped'
  BY <1>1, <1>2 DEF LinearInv, RecordIsSound, SuccessIsLast, RunIsNotSkipped
<1>9. QED
  BY <1>5, <1>6, <1>7, <1>8 DEF LinearInv

\* When the threads are joined the record is up to date.
LEMMA LinearFinish ==
    ASSUME Typed, BatchInv, LinearInv, Linear, FinishBatch
    PROVE  LinearInv'
<1>1. PICK t \in Steps : UnderWay(t)
  BY DEF FinishBatch, LinearInv, OneByOne
<1>2. /\ phase = "batch" /\ pc[t] = "done" /\ batch = {t} /\ executed' = executed \cup {t}
      /\ \A s \in Steps \ {t} : pc[s] = "off"
      /\ phase' = IF halted # {} THEN "final" ELSE "select"
      /\ batch' = {} /\ \A s \in Steps : pc'[s] = "off"
      /\ UNCHANGED <<pipeline, status, attempts, inputHash, cursor, runStatus, results,
                     queue, halted, record>>
  BY <1>1 DEF FinishBatch, UnderWay, BatchStops, BatchInv, ThreadsInBatch, runState
<1>3. t \in 1 .. N /\ executed' = 1 .. t /\ (halted = {} => cursor = t)
  <2>1. executed = 1 .. t - 1 /\ (halted = {} => cursor = t) /\ t \in 1 .. N
    BY <1>1, <1>2 DEF UnderWay, Steps
  <2>2. (1 .. t - 1) \cup {t} = 1 .. t
    BY <2>1, ConstantsAssumption
  <2>3. QED
    BY <1>2, <2>1, <2>2
<1>4. OneByOne' /\ CheckpointIsCurrent'
  BY <1>2, <1>3 DEF LinearInv, OneByOne, CheckpointIsCurrent
<1>5. HaltedFails' /\ FailureIsCurrent'
  BY <1>2 DEF LinearInv, HaltedFails, FailureIsCurrent
<1>6. Frontier'
  BY <1>2 DEF LinearInv, Frontier, Finished
<1>7. RecordFollows'
  <2>1. Covers(cursor)
    BY <1>2 DEF LinearInv, RecordFollows, Emitting
  <2>2. QED
    BY <1>2, <2>1 DEF LinearInv, RecordFollows, Covers
<1>8. RecordIsSound' /\ SuccessIsLast' /\ RunIsNotSkipped'
  BY <1>2 DEF LinearInv, RecordIsSound, SuccessIsLast, RunIsNotSkipped
<1>9. QED
  BY <1>4, <1>5, <1>6, <1>7, <1>8 DEF LinearInv

\* The final record: a success only when the cursor is at the end.
LEMMA LinearEnd ==
    ASSUME Typed, BatchInv, LinearInv, Linear, EndRun
    PROVE  /\ LinearInv' /\ Covers(cursor) /\ UNCHANGED cursor
           /\ record'.status = FinalStatus /\ record'.status # "SKIPPED"
           /\ \A saved \in record'.result : saved.runState.cursor = cursor
           /\ record'.result # {}
           /\ StepSucceeded(FinalStatus) => cursor = N /\ record.status # "FAILED"
<1>1. /\ phase \in {"select", "final"} /\ phase' = "ended"
      /\ runStatus' = FinalStatus
      /\ record' = [status |-> FinalStatus,
                    result |-> {[runState |-> [RunStateSnapshot EXCEPT !.runStatus = FinalStatus],
                                 results  |-> results]}]
      /\ UNCHANGED <<pipeline, status, attempts, inputHash, cursor, results, executed,
                     queue, batch, pc, halted, payload>>
  BY DEF EndRun, RunOver, threads
<1>2. Covers(cursor) /\ (\A t \in Steps : pc[t] = "off") /\ ~StepSucceeded(record.status)
  BY <1>1 DEF LinearInv, RecordFollows, SuccessIsLast, BatchInv, NoThreadBetweenBatches
<1>3. \A saved \in record'.result :
         /\ saved.runState.status = status /\ saved.runState.attempts = attempts
         /\ saved.runState.cursor = cursor /\ saved.runState.runStatus = FinalStatus
         /\ saved.results = results
  BY <1>1 DEF RunStateSnapshot
<1>4. record'.result # {} /\ record'.status = FinalStatus
  BY <1>1
<1>5. FinalStatus \in {runStatus, "PARTIAL_SUCCESS", "SUCCESS"}
  BY DEF FinalStatus
<1>6. StepSucceeded(FinalStatus) => cursor = N /\ record.status # "FAILED"
  <2>. SUFFICES ASSUME StepSucceeded(FinalStatus)
                PROVE  cursor = N /\ record.status # "FAILED"
    OBVIOUS
  <2>1. runStatus \notin Unsuccessful
    BY DEF FinalStatus, StepSucceeded, Unsuccessful
  <2>2. phase = "select" /\ executed = Steps
    BY <1>1, <2>1 DEF LinearInv, HaltedFails, EndRun, RunOver
  <2>3. cursor \in 0 .. N /\ 1 .. N = 1 .. cursor
    BY <2>2, LinearSelect DEF Steps
  <2>4. N \in 1 .. N
    BY ConstantsAssumption
  <2>5. cursor = N
    BY <2>3, <2>4, ConstantsAssumption
  <2>6. QED
    BY <2>1, <2>2, <2>5 DEF LinearInv, FailureIsCurrent, Unsuccessful
<1>7. OneByOne' /\ HaltedFails' /\ CheckpointIsCurrent' /\ FailureIsCurrent'
  BY <1>1, <1>2 DEF LinearInv, OneByOne, HaltedFails, CheckpointIsCurrent, FailureIsCurrent
<1>8. Frontier'
  BY <1>1 DEF LinearInv, Frontier, Finished
<1>9. RecordFollows'
  <2>1. \A t \in Steps : attempts[t] \in Nat
    BY DEF Typed, TypeOK, RunStateOK
  <2>2. \A saved \in record'.result, t \in Steps : saved.runState.attempts[t] <= attempts[t]
    BY <1>3, <2>1
  <2>3. \A a, b \in record'.result : a = b
    BY <1>1
  <2>4. Covers(cursor)'
    BY <1>1, <1>3, <1>4 DEF Covers
  <2>5. QED
    BY <1>1, <2>2, <2>3, <2>4 DEF RecordFollows
<1>10. RecordIsSound'
  <2>1. \A s \in Steps : /\ s <= cursor => Finished(s)
                         /\ s > cursor => ~StepSucceeded(status[s])
                         /\ s > cursor + 1 => status[s] = "PENDING" /\ results[s] = "NONE"
    BY <1>2 DEF LinearInv, Frontier
  <2>2. QED
    BY <1>3, <2>1 DEF RecordIsSound, Finished
<1>11. SuccessIsLast'
  BY <1>1, <1>3, <1>4, <1>6 DEF SuccessIsLast
<1>12. RunIsNotSkipped' /\ FinalStatus # "SKIPPED"
  BY <1>1, <1>3, <1>4, <1>5 DEF LinearInv, RunIsNotSkipped
<1>13. QED
  BY <1>1, <1>2, <1>3, <1>4, <1>6, <1>7, <1>8, <1>9, <1>10, <1>11, <1>12 DEF LinearInv

\* The status of the record changes, what it holds does not.
LEMMA LinearMarks ==
    ASSUME Typed, BatchInv, LinearInv, Linear, RaiseError \/ OperatorStop
    PROVE  /\ LinearInv' /\ ~StepSucceeded(record.status)
           /\ record'.result = record.result /\ record'.status \in {"FAILED", "BLOCKED"}
<1>1. /\ UNCHANGED <<pipeline, status, attempts, inputHash, cursor, runStatus, results,
                     executed, queue, batch, pc, halted, payload>>
      /\ record'.result = record.result
      /\ \/ record'.status = "FAILED" /\ phase' = "ended" /\ phase \in {"select", "batch"}
         \/ record'.status = "BLOCKED" /\ phase' = phase /\ record.status = "RUNNING"
  BY DEF RaiseError, NothingReady, BatchBroken, OperatorStop, runState, main, threads,
         Typed, TypeOK, Records
<1>2. ~StepSucceeded(record.status)
  BY <1>1 DEF LinearInv, SuccessIsLast, StepSucceeded
<1>3. OneByOne' /\ HaltedFails' /\ CheckpointIsCurrent' /\ FailureIsCurrent'
  BY <1>1 DEF LinearInv, OneByOne, UnderWay, HaltedFails, CheckpointIsCurrent,
              RunStateSnapshot, FailureIsCurrent
<1>4. Frontier'
  BY <1>1 DEF LinearInv, Frontier, Finished
<1>5. RecordFollows'
  <2>1. phase' = "ended" /\ phase = "batch" => Covers(cursor)
    <3>. SUFFICES ASSUME BatchBroken PROVE Covers(cursor)
      BY <1>1 DEF RaiseError, NothingReady, OperatorStop, main
    <3>1. PICK t \in Steps : UnderWay(t)
      BY DEF BatchBroken, LinearInv, OneByOne
    <3>2. pc[t] \notin Emitting /\ batch = {t} /\ phase = "batch"
      BY <3>1 DEF BatchBroken, UnderWay, Emitting
    <3>3. QED
      BY <3>2 DEF LinearInv, RecordFollows
  <2>2. QED
    BY <1>1, <2>1 DEF LinearInv, RecordFollows, Covers
<1>6. RecordIsSound' /\ SuccessIsLast' /\ RunIsNotSkipped'
  BY <1>1, <1>2 DEF LinearInv, RecordIsSound, SuccessIsLast, RunIsNotSkipped, StepSucceeded
<1>7. QED
  BY <1>1, <1>2, <1>3, <1>4, <1>5, <1>6 DEF LinearInv

\* A process starts from a sound record, ...
LEMMA LinearResume ==
    ASSUME Typed, BatchInv, LinearInv, Linear, OperatorResume
    PROVE  /\ LinearInv' /\ record'.result = record.result /\ record'.status = "RUNNING"
<1>1. PICK saved \in record.result : Load(saved.runState, saved.results)
  BY DEF OperatorResume
<1>2. /\ phase' = "select" /\ pipeline' = pipeline
      /\ record'.result = record.result /\ record'.status = "RUNNING"
      /\ ~StepSucceeded(record.status)
  BY DEF OperatorResume, Resumable, Unsuccessful, StepSucceeded, Typed, TypeOK, Records
<1>3. /\ status' = saved.runState.status /\ attempts' = saved.runState.attempts
      /\ cursor' = saved.runState.cursor /\ runStatus' = saved.runState.runStatus
      /\ results' = saved.results
      /\ executed' = 1 .. cursor' /\ queue' = {} /\ batch' = {} /\ halted' = {}
      /\ \A s \in Steps : pc'[s] = "off"
  BY <1>1 DEF Load, StepsBelow
<1>4. \A a, b \in record.result : a = b
  BY DEF LinearInv, RecordFollows
<1>5. OneByOne' /\ HaltedFails' /\ CheckpointIsCurrent' /\ FailureIsCurrent'
  BY <1>2, <1>3 DEF OneByOne, HaltedFails, CheckpointIsCurrent, FailureIsCurrent
<1>6. Frontier'
  BY <1>3 DEF LinearInv, RecordIsSound, Frontier, Finished
<1>7. RecordFollows'
  <2>1. \A r \in record.result : r = saved
    BY <1>4
  <2>2. \A s \in Steps : saved.runState.attempts[s] \in Nat
    BY DEF Typed, TypeOK, Records, RunStates
  <2>3. Covers(cursor)'
    BY <1>1, <1>2, <1>3, <2>1 DEF Covers
  <2>4. \A r \in record.result, s \in Steps : r.runState.attempts[s] <= attempts'[s]
    BY <1>3, <2>1, <2>2
  <2>5. QED
    BY <1>2, <1>4, <2>3, <2>4 DEF RecordFollows
<1>8. RecordIsSound' /\ SuccessIsLast' /\ RunIsNotSkipped'
  BY <1>2, <1>3 DEF LinearInv, RecordIsSound, SuccessIsLast, RunIsNotSkipped, StepSucceeded
<1>9. QED
  BY <1>2, <1>5, <1>6, <1>7, <1>8 DEF LinearInv

\* ... and a process that dies leaves the record as it is.
LEMMA LinearCrash ==
    ASSUME Typed, LinearInv, Linear, Crash
    PROVE  LinearInv'
<1>1. /\ phase \notin {"ended", "crashed"} /\ phase' = "crashed"
      /\ UNCHANGED <<pipeline, record>>
      /\ \A s \in Steps : status'[s] = "PENDING" /\ results'[s] = "NONE" /\ pc'[s] = "off"
      /\ cursor' = 0 /\ runStatus' = "PENDING"
      /\ queue' = {} /\ halted' = {}
  BY DEF Crash, Load, NewRunState, NoOutputs
<1>2. OneByOne' /\ HaltedFails' /\ CheckpointIsCurrent' /\ FailureIsCurrent'
  BY <1>1 DEF OneByOne, HaltedFails, CheckpointIsCurrent, FailureIsCurrent
<1>3. Frontier'
  BY <1>1, ConstantsAssumption DEF Frontier, StepSucceeded, Steps
<1>4. RecordFollows' /\ RecordIsSound'
  BY <1>1 DEF LinearInv, RecordFollows, RecordIsSound
<1>5. SuccessIsLast' /\ RunIsNotSkipped'
  BY <1>1 DEF LinearInv, SuccessIsLast, RunIsNotSkipped, StepSucceeded
<1>6. QED
  BY <1>2, <1>3, <1>4, <1>5 DEF LinearInv

-----------------------------------------------------------------------------
(* The invariant and what follows from it *)

\* A run starts with an empty record.
LEMMA RecordInvInit == Init => RecordInv
<1>. SUFFICES ASSUME Init PROVE RecordInv
  OBVIOUS
<1>1. /\ \A s \in Steps : status[s] = "PENDING" /\ results[s] = "NONE" /\ pc[s] = "off"
      /\ cursor = 0 /\ runStatus = "PENDING"
      /\ record = [status |-> "RUNNING", result |-> {}]
      /\ phase = "select" /\ executed = {} /\ queue = {} /\ batch = {} /\ halted = {}
  BY DEF Init, NewRunState, NoOutputs
<1>2. StepInv
  BY <1>1 DEF StepInv, OutputAtPolicy, PassedAreFinished, ChosenAreReady, Returning, Emitting
<1>3. Frontier
  BY <1>1, ConstantsAssumption DEF Frontier, StepSucceeded, Steps
<1>4. OneByOne /\ HaltedFails /\ CheckpointIsCurrent /\ FailureIsCurrent
  BY <1>1 DEF OneByOne, HaltedFails, CheckpointIsCurrent, FailureIsCurrent
<1>5. RecordFollows /\ RecordIsSound /\ SuccessIsLast /\ RunIsNotSkipped
  BY <1>1 DEF RecordFollows, Covers, RecordIsSound, SuccessIsLast, RunIsNotSkipped,
              StepSucceeded
<1>6. QED
  BY <1>2, <1>3, <1>4, <1>5 DEF RecordInv, LinearInv

\* No action changes the definition a run loaded.
LEMMA PipelineStays == Typed /\ [Next]_vars => UNCHANGED pipeline
BY ThreadEffect
   DEF Next, Engine, vars, StartBatch, FinishBatch, EndRun, RaiseError, ResumeStep,
       SkipReplay, OperatorStop, OperatorResume, Crash

\* Every step keeps the record.
LEMMA RecordInvStep ==
    Typed /\ BatchInv /\ AttemptsInv /\ RecordInv /\ [Next]_vars => RecordInv'
<1>. SUFFICES ASSUME Typed, BatchInv, AttemptsInv, StepInv, LinearInv, [Next]_vars
              PROVE  StepInv' /\ LinearInv'
  BY DEF RecordInv
<1>1. CASE UNCHANGED vars
  BY <1>1 DEF vars, runState, main, threads, bounds, StepInv, OutputAtPolicy,
              PassedAreFinished, ChosenAreReady, Dependencies, Finished, Linear,
              LinearInv, OneByOne, UnderWay, Frontier, HaltedFails, CheckpointIsCurrent,
              RunStateSnapshot, RecordFollows, Covers, RecordIsSound, SuccessIsLast,
              RunIsNotSkipped, FailureIsCurrent
<1>2. CASE Next
  <2>1. StepInv'
    BY <1>2, StepInvThread, StepInvMain, StepInvResume DEF Next, Engine
  <2>2. ASSUME Linear PROVE LinearInv'
    BY <1>2, <2>2, LinearThread, LinearStart, LinearSkip, LinearFinish, LinearEnd,
       LinearMarks, LinearResume, LinearCrash DEF Next, Engine
  <2>3. ASSUME ~Linear PROVE LinearInv'
    BY <2>3, PipelineStays DEF LinearInv, Linear
  <2>4. QED
    BY <2>1, <2>2, <2>3
<1>3. QED
  BY <1>1, <1>2

\* What is known of every state of a run.
LEMMA RecordInductive == Spec => [](Typed /\ BatchInv /\ RecordInv)
BY RecordInvInit, RecordInvStep, RunInvariants, PTL DEF Spec

\* The steps below the cursor are completed, those above the next are untouched.
THEOREM CursorAtFrontier == Spec => []CursorIsFrontier
<1>1. RecordInv => CursorIsFrontier
  BY DEF RecordInv, LinearInv, Frontier, Finished, CursorIsFrontier
<1>2. QED
  BY <1>1, RecordInductive, PTL

\* Every record of a linear run is a sound place to resume from: below its
\* cursor everything is completed, with outputs, above it nothing succeeded.
THEOREM RecordResumable == Spec => []RecordIsResumePoint
<1>1. Typed /\ RecordInv => RecordIsResumePoint
  <2>. SUFFICES ASSUME Typed, RecordInv, Linear, NEW saved \in record.result, NEW s \in Steps
                PROVE  IF s <= saved.runState.cursor
                       THEN saved.runState.status[s] \in Completed /\ saved.results[s] # "NONE"
                       ELSE ~StepSucceeded(saved.runState.status[s])
    BY DEF RecordIsResumePoint
  <2>1. s \in Int /\ saved.runState.cursor \in Int
    BY ConstantsAssumption DEF Steps, Typed, TypeOK, Records, RunStates
  <2>2. QED
    BY <2>1 DEF RecordInv, LinearInv, RecordIsSound
<1>2. QED
  BY <1>1, RecordInductive, PTL

\* The step that executes is the one above the cursor of memory.
LEMMA ExecutingAboveCursor ==
    ASSUME Typed, BatchInv, RecordInv, Linear, NEW s \in Executing
    PROVE  /\ s \in Steps /\ phase = "batch" /\ UnderWay(s)
           /\ cursor = s - 1 /\ Covers(s - 1)
<1>1. s \in Steps /\ s \in batch /\ phase = "batch" /\ pc[s] \notin Emitting \cup {"done"}
  BY DEF Executing, Emitting, BatchInv, ThreadsInBatch, NoThreadBetweenBatches, Idle
<1>2. UnderWay(s)
  BY <1>1 DEF RecordInv, LinearInv, OneByOne, UnderWay
<1>3. cursor = s - 1 /\ Covers(s - 1)
  BY <1>1, <1>2 DEF UnderWay, RecordInv, LinearInv, RecordFollows
<1>4. QED
  BY <1>1, <1>2, <1>3

\* No crash, stop, resume or retry executes a step that the record counts as
\* done.
THEOREM DoneIsNotRerun == Spec => []RecordedStepsNotRerun
<1>1. Typed /\ BatchInv /\ RecordInv => RecordedStepsNotRerun
  <2>. SUFFICES ASSUME Typed, BatchInv, RecordInv, Linear,
                       NEW saved \in record.result, NEW s \in Executing
                PROVE  s > saved.runState.cursor
    BY DEF RecordedStepsNotRerun
  <2>1. saved.runState.cursor = s - 1 /\ s \in Int
    BY ExecutingAboveCursor, ConstantsAssumption DEF Covers, Steps
  <2>2. QED
    BY <2>1
<1>2. QED
  BY <1>1, RecordInductive, PTL

\* A linear run recorded as successful has completed every step.
THEOREM SuccessCompletes == Spec => []SuccessIsComplete
<1>1. RecordInv => SuccessIsComplete
  <2>. SUFFICES ASSUME RecordInv, Linear, StepSucceeded(record.status),
                       NEW saved \in record.result, NEW s \in Steps
                PROVE  saved.runState.status[s] \in Completed
    BY DEF SuccessIsComplete
  <2>1. saved.runState.cursor = N /\ s <= N
    BY ConstantsAssumption DEF RecordInv, LinearInv, SuccessIsLast, Steps
  <2>2. QED
    BY <2>1 DEF RecordInv, LinearInv, RecordIsSound
<1>2. QED
  BY <1>1, RecordInductive, PTL

\* The agent of a step runs when its dependencies are finished: in a new run
\* because the batches follow the graph, in a resumed one because what lies
\* below the cursor is finished.
THEOREM DependenciesAreFirst == Spec => []DependenciesFirst
<1>1. Typed /\ BatchInv /\ RecordInv => DependenciesFirst
  <2>. SUFFICES ASSUME Typed, BatchInv, RecordInv,
                       mode = "fresh" \/ (Linear /\ InFileOrder),
                       NEW s \in Executing, NEW d \in Dependencies(pipeline, s)
                PROVE  Finished(d)
    BY DEF DependenciesFirst, Finished
  <2>1. CASE mode = "fresh"
    <3>1. s \in batch /\ phase = "batch"
      BY DEF Executing, BatchInv, ThreadsInBatch, NoThreadBetweenBatches, Idle
    <3>2. d \in executed
      BY <2>1, <3>1 DEF RecordInv, StepInv, ChosenAreReady
    <3>3. QED
      BY <2>1, <3>1, <3>2 DEF RecordInv, StepInv, PassedAreFinished
  <2>2. CASE Linear /\ InFileOrder
    <3>1. s \in Steps /\ cursor = s - 1
      BY <2>2, ExecutingAboveCursor
    <3>2. d \in 1 .. s - 1
      BY <2>2, <3>1 DEF InFileOrder
    <3>3. d \in Steps /\ d <= cursor
      BY <3>1, <3>2, ConstantsAssumption DEF Steps
    <3>4. QED
      BY <2>2, <3>3 DEF RecordInv, LinearInv, Frontier
  <2>3. QED
    BY <2>1, <2>2
<1>2. QED
  BY <1>1, RecordInductive, PTL

-----------------------------------------------------------------------------
(* The record advances, and implements DurableRun *)

\* What a step of the system may do to the record of a linear run: leave it,
\* mark it, or replace it by what is in memory.
LEMMA RecordMoves ==
    ASSUME Typed, BatchInv, RecordInv, Linear, [Next]_vars
    PROVE  \/ UNCHANGED record
           \/ /\ record'.result = record.result /\ ~StepSucceeded(record.status)
              /\ record'.status \in {"RUNNING", "FAILED", "BLOCKED"}
           \/ \E c \in Nat :
                /\ Covers(c) /\ cursor \in {c, c + 1}
                /\ phase # "crashed" /\ ~StepSucceeded(record.status)
                /\ record'.result # {}
                /\ \A new \in record'.result : /\ new.runState.cursor = cursor
                                               /\ new.runState.attempts = attempts
                /\ record'.status # "SKIPPED"
                /\ StepSucceeded(record'.status) =>
                      c = N /\ cursor = N /\ record.status # "FAILED"
<1>. USE DEF RecordInv
<1>1. CASE UNCHANGED vars
  BY <1>1 DEF vars
<1>2. CASE RaiseError \/ OperatorStop
  BY <1>2, LinearMarks
<1>3. CASE OperatorResume
  BY <1>3, LinearResume DEF OperatorResume, Resumable, Unsuccessful, StepSucceeded
<1>4. CASE EndRun
  <2>1. cursor \in Nat /\ phase # "crashed" /\ ~StepSucceeded(record.status)
    BY <1>4 DEF Typed, TypeOK, RunStateOK, EndRun, RunOver, LinearInv, SuccessIsLast
  <2>2. \A new \in record'.result : new.runState.attempts = attempts
    BY <1>4 DEF EndRun, RunStateSnapshot
  <2>3. QED
    BY <1>4, <2>1, <2>2, LinearEnd
<1>5. ASSUME NEW s \in Steps, Persist(s)
      PROVE  \E c \in Nat :
                /\ Covers(c) /\ cursor \in {c, c + 1}
                /\ phase # "crashed" /\ ~StepSucceeded(record.status)
                /\ record'.result # {}
                /\ \A new \in record'.result : /\ new.runState.cursor = cursor
                                               /\ new.runState.attempts = attempts
                /\ record'.status # "SKIPPED"
                /\ StepSucceeded(record'.status) =>
                      c = N /\ cursor = N /\ record.status # "FAILED"
  <2>1. /\ record' = [status |-> runStatus,
                      result |-> {[runState |-> RunStateSnapshot, results |-> results]}]
        /\ Covers(s - 1) /\ cursor \in {s - 1, s}
    BY <1>5, LinearPersist
  <2>2. phase = "batch" /\ ~StepSucceeded(record.status)
    BY <1>5, OneThread DEF Thread
  <2>3. runStatus # "SKIPPED" /\ ~StepSucceeded(runStatus)
    BY <2>2 DEF LinearInv, RunIsNotSkipped, SuccessIsLast
  <2>4. s - 1 \in Nat /\ s = (s - 1) + 1
    BY ConstantsAssumption DEF Steps
  <2>5. \A new \in record'.result : new.runState = RunStateSnapshot
    BY <2>1
  <2>6. record'.result # {} /\ record'.status = runStatus
    BY <2>1
  <2>. DEFINE c == s - 1
  <2>7. c \in Nat /\ Covers(c) /\ cursor \in {c, c + 1}
    BY <2>1, <2>4
  <2>. HIDE DEF c
  <2>8. QED
    BY <2>2, <2>3, <2>5, <2>6, <2>7 DEF RunStateSnapshot
<1>6. CASE \/ StartBatch \/ FinishBatch \/ Crash
           \/ \E s \in Steps : ResumeStep(s) \/ SkipReplay(s)
  BY <1>6 DEF StartBatch, FinishBatch, Crash, ResumeStep, SkipReplay
<1>7. ASSUME NEW s \in Steps, Thread(s), ~Persist(s) PROVE UNCHANGED record
  BY <1>7 DEF Thread, EnterStep, SkipByCondition, PassOverride, StopStep, StartStep,
              AgentReturns, MarkOutcome, RetryStep, ContinueAfterFailure, HaltRun,
              Advance, EmitOutputs, EmitRunState
<1>8. QED
  BY <1>1, <1>2, <1>3, <1>4, <1>5, <1>6, <1>7 DEF Next, Engine

\* Neither the cursor nor an attempt counter of a linear run's record goes back,
\* through any number of crashes, stops and resumes.
THEOREM RecordOnlyAdvances == Spec => RecordAdvances
<1>. DEFINE Advancing ==
       Linear => \A old \in record.result, new \in record'.result :
          /\ old.runState.cursor <= new.runState.cursor
          /\ \A s \in Steps : old.runState.attempts[s] <= new.runState.attempts[s]
<1>1. ASSUME Typed, BatchInv, RecordInv, [Next]_vars, Linear,
             NEW old \in record.result, NEW new \in record'.result, NEW s \in Steps
      PROVE  /\ old.runState.cursor <= new.runState.cursor
             /\ old.runState.attempts[s] <= new.runState.attempts[s]
  <2>1. old.runState.cursor \in Nat /\ old.runState.attempts[s] \in Nat
    BY <1>1, ConstantsAssumption DEF Typed, TypeOK, Records, RunStates
  <2>2. CASE record'.result = record.result
    <3>1. new = old
      BY <1>1, <2>2 DEF RecordInv, LinearInv, RecordFollows
    <3>2. QED
      BY <2>1, <3>1
  <2>3. CASE \E c \in Nat : /\ Covers(c) /\ cursor \in {c, c + 1} /\ phase # "crashed"
                            /\ \A r \in record'.result : /\ r.runState.cursor = cursor
                                                         /\ r.runState.attempts = attempts
    <3>1. old.runState.cursor <= cursor
      BY <2>3 DEF Covers
    <3>2. old.runState.attempts[s] <= attempts[s]
      BY <1>1, <2>3 DEF RecordInv, LinearInv, RecordFollows
    <3>3. QED
      BY <2>3, <3>1, <3>2
  <2>4. QED
    BY <1>1, <2>2, <2>3, RecordMoves
<1>2. ASSUME Typed, BatchInv, RecordInv, [Next]_vars PROVE [Advancing]_vars
  <2>1. Steps # {}
    BY ConstantsAssumption DEF Steps
  <2>2. QED
    BY <1>1, <1>2, <2>1
<1>3. QED
  BY <1>2, RecordInductive, PTL DEF Spec, RecordAdvances

\* The steps that the checkpoints of a set count as done, when all have the
\* same cursor.
LEMMA CountOfCursors ==
    ASSUME NEW R, NEW c \in Nat,
           \A saved \in R : saved.runState.cursor = c,
           R = {} => c = 0
    PROVE  Cardinality(UNION {1 .. saved.runState.cursor : saved \in R}) = c
<1>1. UNION {1 .. saved.runState.cursor : saved \in R} = 1 .. c
  <2>1. CASE R = {}
    BY <2>1
  <2>2. CASE R # {}
    BY <2>2
  <2>3. QED
    BY <2>1, <2>2
<1>2. Cardinality(1 .. c) = c
  BY FS_Interval
<1>3. QED
  BY <1>1, <1>2

\* The number of steps a record counts as done is its cursor.
LEMMA RecordedCount ==
    ASSUME NEW c \in Nat, Covers(c)
    PROVE  Cardinality(Recorded) = c
BY CountOfCursors DEF Covers, Recorded

\* A record of a linear run counts some steps as done.
LEMMA RecordCounts ==
    ASSUME Typed, RecordInv, Linear
    PROVE  \E c \in 0 .. N : Covers(c)
<1>1. CASE record.result = {}
  BY <1>1, ConstantsAssumption DEF Covers
<1>2. CASE record.result # {}
  <2>1. PICK saved \in record.result : TRUE
    BY <1>2
  <2>2. saved.runState.cursor \in 0 .. N
    BY DEF Typed, TypeOK, Records, RunStates
  <2>3. \A a, b \in record.result : a = b
    BY DEF RecordInv, LinearInv, RecordFollows
  <2>4. Covers(saved.runState.cursor)
    BY <1>2, <2>1, <2>3 DEF Covers
  <2>5. QED
    BY <2>2, <2>4
<1>3. QED
  BY <1>1, <1>2

\* When every pipeline is linear the record of a run makes durable progress:
\* each step of the run, crashes and resumes included, is a step of DurableRun
\* or leaves the record's count and status alone.
THEOREM DurableProgress ==
    ASSUME \A p \in Pipelines : p.explicit = {}
    PROVE  Spec => ImplementsDurableRun
<1>1. Init => DurableRun!Init
  <2>. SUFFICES ASSUME Init PROVE DurableRun!Init
    OBVIOUS
  <2>1. record = [status |-> "RUNNING", result |-> {}]
    BY DEF Init
  <2>2. Cardinality(Recorded) = 0
    BY <2>1, RecordedCount DEF Covers
  <2>3. QED
    BY <2>1, <2>2 DEF DurableRun!Init
<1>2. ASSUME Typed, BatchInv, RecordInv, RecordInv', Typed', [Next]_vars
      PROVE  DurableRun!Next \/ UNCHANGED <<Cardinality(Recorded),
                 IF record.status = "PARTIAL_SUCCESS" THEN "SUCCESS" ELSE record.status>>
  <2>. DEFINE done    == Cardinality(Recorded)
              outcome == IF record.status = "PARTIAL_SUCCESS" THEN "SUCCESS" ELSE record.status
  <2>1. Linear
    BY <1>2 DEF Typed, TypeOK, Linear
  <2>2. done \in 0 .. N
    BY <1>2, <2>1, RecordCounts, RecordedCount, ConstantsAssumption
  <2>3. record.status \in Statuses \ {"SKIPPED"} /\ record'.status \in Statuses
    BY <1>2, <2>1 DEF Typed, TypeOK, Records, RecordInv, LinearInv, RunIsNotSkipped
  <2>4. CASE UNCHANGED record
    BY <2>4 DEF Recorded
  <2>5. CASE /\ record'.result = record.result /\ ~StepSucceeded(record.status)
             /\ record'.status \in {"RUNNING", "FAILED", "BLOCKED"}
    <3>1. done' = done
      BY <2>5 DEF Recorded
    <3>2. outcome \in DurableRun!Unfinished /\ outcome' \in DurableRun!Unfinished
      BY <2>3, <2>5 DEF DurableRun!Unfinished, StepSucceeded, Statuses
    <3>3. DurableRun!Progress
      BY <2>2, <3>1, <3>2 DEF DurableRun!Progress
    <3>4. QED
      BY <3>3 DEF DurableRun!Next
  <2>6. ASSUME NEW c \in Nat,
               Covers(c), cursor \in {c, c + 1}, ~StepSucceeded(record.status),
               record'.result # {},
               \A new \in record'.result : new.runState.cursor = cursor,
               record'.status # "SKIPPED",
               StepSucceeded(record'.status) =>
                  c = N /\ cursor = N /\ record.status # "FAILED"
        PROVE  DurableRun!Next
    <3>1. done = c
      BY <2>6, RecordedCount
    <3>2. done' = cursor /\ done' \in 0 .. N
      <4>1. cursor \in 0 .. N
        BY <1>2 DEF Typed, TypeOK, RunStateOK
      <4>2. done' = cursor
        BY <2>6, <4>1, CountOfCursors DEF Recorded
      <4>3. QED
        BY <4>1, <4>2
    <3>3. outcome \in DurableRun!Unfinished
      BY <2>3, <2>6 DEF DurableRun!Unfinished, StepSucceeded, Statuses
    <3>4. CASE StepSucceeded(record'.status)
      <4>1. outcome' = "SUCCESS" /\ outcome # "FAILED" /\ done = N /\ done' = done
        BY <2>6, <3>1, <3>2, <3>4 DEF StepSucceeded
      <4>2. QED
        BY <3>3, <4>1 DEF DurableRun!Succeed, DurableRun!Next
    <3>5. CASE ~StepSucceeded(record'.status)
      <4>1. outcome' \in DurableRun!Unfinished
        BY <2>3, <2>6, <3>5 DEF DurableRun!Unfinished, StepSucceeded, Statuses
      <4>2. done' \in {done, done + 1} /\ done' <= N
        BY <2>6, <3>1, <3>2, ConstantsAssumption
      <4>3. QED
        BY <3>3, <4>1, <4>2 DEF DurableRun!Progress, DurableRun!Next
    <3>6. QED
      BY <3>4, <3>5
  <2>7. QED
    BY <1>2, <2>1, <2>4, <2>5, <2>6, RecordMoves
<1>3. QED
  BY <1>1, <1>2, RecordInductive, PTL DEF Spec, ImplementsDurableRun, DurableRun!Spec
==============================================================================
