------------------------------ MODULE RunEngine ------------------------------
(***************************************************************************)
(* One run of a pipeline: OrchestratorEngine.run with its worker threads   *)
(* (orchestrator/engine.py), the step executor's marking of the run state  *)
(* (orchestrator/executor.py, orchestrator/state.py), the stop override    *)
(* (orchestrator/override.py) and the run record that the gateway's        *)
(* checkpoint callback writes (scheduler/gateway.py), through stops,       *)
(* process crashes, resumes and retries of the same run.                   *)
(*                                                                         *)
(* The main thread of run() is `phase`; the thread that executes step s is *)
(* pc[s].  Each action is one critical section of the code: a call under   *)
(* the lock of the run state, of the context or of the checkpoint, so that *)
(* the threads of a batch interleave where the code lets them.             *)
(***************************************************************************)
EXTENDS StepGraph, FiniteSets

CONSTANTS Pipelines,    \* the pipeline definitions considered
          Workers,      \* max_parallel_workers
          Outcomes,     \* the statuses agents return
          MaxResumes,   \* bound on the resume and retry commands
          MaxCrashes    \* bound on the process crashes

ASSUME ConstantsAssumption ==
    /\ N \in Nat \ {0}
    /\ Pipelines \subseteq PipelineDefinitions
    /\ Workers \in Nat \ {0}
    /\ Outcomes \subseteq AgentStatuses
    /\ MaxResumes \in Nat
    /\ MaxCrashes \in Nat

VARIABLES
    pipeline,    \* the definition this run loaded
    \* PipelineRunState
    status, attempts, inputHash, cursor, runStatus,
    results,     \* ExecutionContext.step_results, by the status of the output
    \* the main thread
    phase, mode, executed, queue, batch,
    \* the threads that execute steps
    pc, retry, halted, payload,
    override,    \* the requests RUN_OVERRIDE_REGISTRY holds for this run: {} or {"stop"}
    record,      \* the run record in the repository
    resumes, crashes

runState == <<status, attempts, inputHash, cursor, runStatus>>
main     == <<phase, mode, executed, queue, batch>>
threads  == <<pc, retry, halted, payload>>
bounds   == <<resumes, crashes>>
vars     == <<pipeline, runState, results, main, threads, override, record, bounds>>

-----------------------------------------------------------------------------
(* Types *)

\* "STOPPED" is the output a stop leaves for a step (its status field says
\* BLOCKED), "NONE" the absence of an output.
Outputs == AgentStatuses \cup {"SKIPPED", "STOPPED", "NONE"}

StepOutputs == [Steps -> Outputs]

\* An optional value is a set of at most one element.
RunStates ==
    [status    : [Steps -> Statuses],
     attempts  : [Steps -> Nat],
     inputHash : [Steps -> SUBSET StepOutputs],
     cursor    : 0 .. N,
     runStatus : Statuses]

\* What a checkpoint hands to the callback.
Payloads == [status : Statuses, results : StepOutputs, runState : SUBSET RunStates]

Records == [status : Statuses,
            result : SUBSET [runState : RunStates, results : StepOutputs]]

Phases == {"select", "batch", "final", "ended", "crashed"}

ThreadStates == {"off", "queued", "override", "start", "agent", "mark", "policy",
                 "advance", "emit", "snapshot", "persist", "done", "raised"}

NothingEmitted == [status |-> "PENDING",
                   results |-> [s \in Steps |-> "NONE"], runState |-> {}]

-----------------------------------------------------------------------------
(* Helpers *)

Active == {s \in Steps : pc[s] \notin {"off", "queued", "done", "raised"}}

\* The thread pool takes the steps in the order they were submitted.
HasWorker(s) ==
    /\ Cardinality(Active) < Workers
    /\ \A t \in batch : t < s => pc[t] # "queued"

\* The steps of a batch that are executed: with one worker only the first is.
Launched(b) == IF Workers > 1 THEN b ELSE {s \in b : \A t \in b : s <= t}

\* calculate_step_input_hash: an input is told apart by the outputs it sees.
Visible(before) == [t \in Steps |-> IF t \in before THEN results[t] ELSE "NONE"]

\* Mutants: the retries are saved in place of the attempts; no cursor is saved.
SnapshotOfRetries ==
    [status |-> status, attempts |-> [s \in Steps |-> InitialRetry(attempts[s])],
     inputHash |-> inputHash, cursor |-> cursor, runStatus |-> runStatus]
SnapshotWithoutCursor ==
    [status |-> status, attempts |-> attempts, inputHash |-> inputHash,
     cursor |-> 0, runStatus |-> runStatus]

\* run_state.to_dict
RunStateSnapshot ==
    [status |-> status, attempts |-> attempts, inputHash |-> inputHash,
     cursor |-> cursor, runStatus |-> runStatus]

\* mark_step_status, when the transition is allowed
Mark(s, st) ==
    /\ status' = [status EXCEPT ![s] = st]
    /\ attempts' = [attempts EXCEPT ![s] = IF st = "RUNNING" THEN @ + 1 ELSE @]

\* Mutant: the status of the run is not looked at.
FinalStatusOfOutputs ==
    IF \E s \in Steps : results[s] = "PARTIAL_SUCCESS"
    THEN "PARTIAL_SUCCESS" ELSE "SUCCESS"

\* _derive_final_status
FinalStatus ==
    IF runStatus \in Unsuccessful THEN runStatus
    ELSE IF \E s \in Steps : results[s] = "PARTIAL_SUCCESS"
         THEN "PARTIAL_SUCCESS"
         ELSE "SUCCESS"

Goto(s, label) == pc' = [pc EXCEPT ![s] = label]

-----------------------------------------------------------------------------
(* A new run, as run_pipeline creates it *)

NewRunState ==
    [status    |-> [s \in Steps |-> "PENDING"],
     attempts  |-> [s \in Steps |-> 0],
     inputHash |-> [s \in Steps |-> {}],
     cursor    |-> 0,
     runStatus |-> "PENDING"]

NoOutputs == [s \in Steps |-> "NONE"]

Init ==
    /\ pipeline \in Pipelines
    /\ status = NewRunState.status
    /\ attempts = NewRunState.attempts
    /\ inputHash = NewRunState.inputHash
    /\ cursor = NewRunState.cursor
    /\ runStatus = NewRunState.runStatus
    /\ results = NoOutputs
    /\ phase = "select" /\ mode = "fresh"
    /\ executed = {} /\ queue = {} /\ batch = {}
    /\ pc = [s \in Steps |-> "off"]
    /\ retry = [s \in Steps |-> 0]
    /\ halted = {}
    /\ payload = [s \in Steps |-> NothingEmitted]
    /\ override = {}
    /\ record = [status |-> "RUNNING", result |-> {}]
    /\ resumes = 0 /\ crashes = 0

\* Mutant: the resumed run starts one step early.
StepsBelowOffByOne(index) == 1 .. index - 1

\* The steps a resumed run leaves out: pipeline.steps[start_step_index:]
StepsBelow(index) == 1 .. index

\* PipelineRunState.from_dict, the outputs read with it and the local
\* variables of a call of run(): what a process has in memory of a run.
Load(saved, outputs) ==
    /\ status' = saved.status
    /\ attempts' = saved.attempts
    /\ inputHash' = saved.inputHash
    /\ cursor' = saved.cursor
    /\ runStatus' = saved.runStatus
    /\ results' = outputs
    /\ executed' = StepsBelow(saved.cursor)
    /\ queue' = {} /\ batch' = {}
    /\ pc' = [s \in Steps |-> "off"]
    /\ retry' = [s \in Steps |-> 0]
    /\ halted' = {}
    /\ payload' = [s \in Steps |-> NothingEmitted]

-----------------------------------------------------------------------------
(* The main thread *)

\* _execute_with_parallelism: the ready steps are computed when the queue of
\* the previous ones is used up; a batch is taken from the queue.
StartBatch ==
    /\ phase = "select" /\ mode = "fresh" /\ executed # Steps
    /\ LET ready == IF queue = {} THEN ReadySteps(pipeline, executed) ELSE queue
       IN /\ ready # {}
          /\ \E b \in SUBSET ready :
               /\ IsLockAwareBatch(pipeline, ready, b)
               /\ batch' = b
               /\ queue' = ready \ b
               /\ pc' = [s \in Steps |-> IF s \in Launched(b) THEN "queued" ELSE "off"]
    /\ phase' = "batch"
    /\ UNCHANGED <<pipeline, runState, results, mode, executed, retry, halted,
                   payload, override, record, bounds>>

\* The resumed run goes through the steps in the order of the file.
NextInOrder(s) ==
    /\ phase = "select" /\ mode = "resume"
    /\ s \in Steps \ executed
    /\ \A t \in Steps \ executed : s <= t

\* A step is not replayed when it completed on the input it would get now.
Replayable(s) ==
    /\ status[s] \in Completed
    /\ inputHash[s] = {Visible(1 .. s - 1)}
    /\ results[s] # "NONE"

ResumeStep(s) ==
    /\ NextInOrder(s)
    /\ ~Replayable(s)
    /\ batch' = {s}
    /\ Goto(s, "queued")
    /\ phase' = "batch"
    /\ UNCHANGED <<pipeline, runState, results, mode, executed, queue, retry,
                   halted, payload, override, record, bounds>>

SkipReplay(s) ==
    /\ NextInOrder(s)
    /\ Replayable(s)
    /\ cursor' = IF cursor < s THEN s ELSE cursor
    /\ batch' = {s}
    /\ Goto(s, "emit")
    /\ phase' = "batch"
    /\ UNCHANGED <<pipeline, status, attempts, inputHash, runStatus, results,
                   mode, executed, queue, retry, halted, payload, override,
                   record, bounds>>

\* Mutant: the run stops only when all the steps of the batch ask for it.
BatchStopsIfAll == batch # {} /\ batch \subseteq halted

\* should_stop or step_should_stop, over the futures of the batch
BatchStops == halted # {}

\* The threads of the batch are joined; a stop ends the run.
FinishBatch ==
    /\ phase = "batch"
    /\ \A s \in batch : pc[s] = "done"
    /\ executed' = executed \cup batch
    /\ phase' = IF BatchStops THEN "final" ELSE "select"
    /\ batch' = {}
    /\ pc' = [s \in Steps |-> "off"]
    /\ payload' = [s \in Steps |-> NothingEmitted]
    /\ UNCHANGED <<pipeline, runState, results, mode, queue, retry, halted,
                   override, record, bounds>>

\* Mutant: run() returns as soon as a step stops the run.
RunOverAtHalt == phase = "batch" /\ halted # {}

RunOver ==
    \/ phase = "final"
    \/ phase = "select" /\ executed = Steps

\* The end of run and of run_pipeline: final status, last checkpoint, record.
EndRun ==
    /\ RunOver
    /\ runStatus' = FinalStatus
    /\ record' = [status |-> FinalStatus,
                  result |-> {[runState |-> [RunStateSnapshot EXCEPT !.runStatus = FinalStatus],
                               results  |-> results]}]
    /\ phase' = "ended"
    /\ UNCHANGED <<pipeline, status, attempts, inputHash, cursor, results, mode,
                   executed, queue, batch, threads, override, bounds>>

\* No step is ready, as in a cycle of dependencies; or, once the threads are
\* joined, one of them raised, or a step of the batch was never executed and
\* has no output.  The handlers of run_pipeline record the run as FAILED and
\* leave its last checkpoint.
NothingReady ==
    /\ phase = "select" /\ mode = "fresh" /\ executed # Steps
    /\ queue = {} /\ ReadySteps(pipeline, executed) = {}

\* Mutant: the exception of a thread is not noticed.
BatchBrokenUnnoticed ==
    /\ phase = "batch"
    /\ \A s \in batch : pc[s] \in {"done", "off"}
    /\ \E s \in batch : pc[s] # "done"

BatchBroken ==
    /\ phase = "batch"
    /\ \A s \in batch : pc[s] \in {"done", "raised", "off"}
    /\ \E s \in batch : pc[s] # "done"

RaiseError ==
    /\ NothingReady \/ BatchBroken
    /\ record' = [record EXCEPT !.status = "FAILED"]
    /\ phase' = "ended"
    /\ UNCHANGED <<pipeline, runState, results, mode, executed, queue, batch,
                   threads, override, bounds>>

-----------------------------------------------------------------------------
(* The thread of step s: _execute_step_with_policy *)

\* The condition of the step is absent or holds.
EnterStep(s) ==
    /\ pc[s] = "queued" /\ HasWorker(s)
    /\ Goto(s, "override")
    /\ UNCHANGED <<pipeline, runState, results, main, retry, halted, payload,
                   override, record, bounds>>

\* The condition of the step does not hold.
SkipByCondition(s) ==
    /\ pc[s] = "queued" /\ HasWorker(s)
    /\ s \in pipeline.conditional
    /\ IF CanTransition(status[s], "SKIPPED")
       THEN /\ Mark(s, "SKIPPED")
            /\ results' = [results EXCEPT ![s] = "SKIPPED"]
            /\ Goto(s, "advance")
       ELSE /\ Goto(s, "raised")
            /\ UNCHANGED <<status, attempts, results>>
    /\ UNCHANGED <<pipeline, inputHash, cursor, runStatus, main, retry, halted,
                   payload, override, record, bounds>>

PassOverride(s) ==
    /\ pc[s] = "override"
    /\ "stop" \notin override
    /\ retry' = [retry EXCEPT ![s] = InitialRetry(attempts[s])]
    /\ Goto(s, "start")
    /\ UNCHANGED <<pipeline, runState, results, main, halted, payload, override,
                   record, bounds>>

StopStep(s) ==
    /\ pc[s] = "override"
    /\ "stop" \in override
    /\ runStatus' = "BLOCKED"
    /\ IF CanTransition(status[s], "SKIPPED")
       THEN /\ Mark(s, "SKIPPED")
            /\ results' = [results EXCEPT ![s] = "STOPPED"]
            /\ halted' = halted \cup {s}
            /\ Goto(s, "emit")
       ELSE /\ Goto(s, "raised")
            /\ UNCHANGED <<status, attempts, results, halted>>
    /\ UNCHANGED <<pipeline, inputHash, cursor, main, retry, payload, override,
                   record, bounds>>

\* execute_step up to the call of the agent.  Every status may become RUNNING.
StartStep(s) ==
    /\ pc[s] = "start"
    /\ Mark(s, "RUNNING")
    /\ inputHash' = [inputHash EXCEPT ![s] = {Visible(Steps)}]
    /\ runStatus' = "RUNNING"
    /\ Goto(s, "agent")
    /\ UNCHANGED <<pipeline, cursor, results, main, retry, halted, payload,
                   override, record, bounds>>

\* The agent returns, raises or times out; its output is recorded ...
AgentReturns(s) ==
    /\ pc[s] = "agent"
    /\ \E o \in Outcomes : results' = [results EXCEPT ![s] = o]
    /\ Goto(s, "mark")
    /\ UNCHANGED <<pipeline, runState, main, retry, halted, payload, override,
                   record, bounds>>

\* Mutant: the cursor is not advanced.
AfterOutcomeNoAdvance(s) == IF StepSucceeded(results[s]) THEN "emit" ELSE "policy"

AfterOutcome(s) == IF StepSucceeded(results[s]) THEN "advance" ELSE "policy"

\* ... and then the step is marked with its status.
MarkOutcome(s) ==
    /\ pc[s] = "mark"
    /\ Mark(s, results[s])
    /\ runStatus' = IF results[s] \in Unsuccessful THEN results[s] ELSE runStatus
    /\ Goto(s, AfterOutcome(s))
    /\ UNCHANGED <<pipeline, inputHash, cursor, results, main, retry, halted,
                   payload, override, record, bounds>>

Action(s) == PolicyAction(pipeline.onFailure[s])

RetryLeft(s) == ShouldRetry(retry[s] + 1, pipeline.retryLimit[s])

RetryStep(s) ==
    /\ pc[s] = "policy"
    /\ Action(s) = "retry" /\ RetryLeft(s)
    /\ retry' = [retry EXCEPT ![s] = @ + 1]
    /\ Goto(s, "start")
    /\ UNCHANGED <<pipeline, runState, results, main, halted, payload, override,
                   record, bounds>>

ContinueAfterFailure(s) ==
    /\ pc[s] = "policy"
    /\ Action(s) = "continue"
    /\ runStatus' = IF runStatus \in Unsuccessful THEN "RUNNING" ELSE runStatus
    /\ Mark(s, "SKIPPED")
    /\ Goto(s, "advance")
    /\ UNCHANGED <<pipeline, inputHash, cursor, results, main, retry, halted,
                   payload, override, record, bounds>>

\* "block" and an exhausted "retry" block the run, "stop" fails it.
HaltRun(s) ==
    /\ pc[s] = "policy"
    /\ \/ Action(s) \in {"block", "stop"}
       \/ Action(s) = "retry" /\ ~RetryLeft(s)
    /\ runStatus' = IF Action(s) = "stop" THEN "FAILED" ELSE "BLOCKED"
    /\ halted' = halted \cup {s}
    /\ Goto(s, "emit")
    /\ UNCHANGED <<pipeline, status, attempts, inputHash, cursor, results, main,
                   retry, payload, override, record, bounds>>

\* advance_index
Advance(s) ==
    /\ pc[s] = "advance"
    /\ cursor' = IF cursor < N THEN cursor + 1 ELSE cursor
    /\ Goto(s, "emit")
    /\ UNCHANGED <<pipeline, status, attempts, inputHash, runStatus, results,
                   main, retry, halted, payload, override, record, bounds>>

\* _emit_checkpoint: the status and a copy of the outputs ...
EmitOutputs(s) ==
    /\ pc[s] = "emit"
    /\ payload' = [payload EXCEPT ![s] = [status |-> runStatus,
                                          results |-> results, runState |-> {}]]
    /\ Goto(s, "snapshot")
    /\ UNCHANGED <<pipeline, runState, results, main, retry, halted, override,
                   record, bounds>>

\* ... then a copy of the run state, neither under the checkpoint lock ...
EmitRunState(s) ==
    /\ pc[s] = "snapshot"
    /\ payload' = [payload EXCEPT ![s].runState = {RunStateSnapshot}]
    /\ Goto(s, "persist")
    /\ UNCHANGED <<pipeline, runState, results, main, retry, halted, override,
                   record, bounds>>

\* ... and the callback under that lock writes the record.
Persist(s) ==
    /\ pc[s] = "persist"
    /\ record' = [status |-> payload[s].status,
                  result |-> {[runState |-> rs, results |-> payload[s].results] :
                                 rs \in payload[s].runState}]
    /\ Goto(s, "done")
    /\ UNCHANGED <<pipeline, runState, results, main, retry, halted, payload,
                   override, bounds>>

-----------------------------------------------------------------------------
(* The operator and the process *)

\* override_run with action "stop"
OperatorStop ==
    /\ record.status = "RUNNING"
    /\ override' = {"stop"}
    /\ record' = [record EXCEPT !.status = "BLOCKED"]
    /\ UNCHANGED <<pipeline, runState, results, main, threads, bounds>>

\* Mutant: any run that is not running may be resumed.
ResumableIfOver == record.status # "RUNNING"

Resumable == record.status \in Unsuccessful

\* override_run with action "resume" (BLOCKED) or "retry" (FAILED or BLOCKED),
\* after the engine that executed the run before is gone: the run state and
\* the outputs of the last record, and the steps from the cursor on.
OperatorResume ==
    /\ phase \in {"ended", "crashed"}
    /\ Resumable
    /\ resumes < MaxResumes
    /\ resumes' = resumes + 1
    /\ override' = {}
    /\ \E saved \in record.result : Load(saved.runState, saved.results)
    /\ record' = [record EXCEPT !.status = "RUNNING"]
    /\ phase' = "select" /\ mode' = "resume"
    /\ UNCHANGED <<pipeline, crashes>>

\* The process dies and starts again: the record stays, memory is lost.
Crash ==
    /\ phase \notin {"ended", "crashed"}
    /\ crashes < MaxCrashes
    /\ crashes' = crashes + 1
    /\ phase' = "crashed" /\ mode' = "fresh"
    /\ Load(NewRunState, NoOutputs)
    /\ override' = {}
    /\ UNCHANGED <<pipeline, record, resumes>>

-----------------------------------------------------------------------------

Thread(s) ==
    \/ EnterStep(s) \/ SkipByCondition(s) \/ PassOverride(s) \/ StopStep(s)
    \/ StartStep(s) \/ AgentReturns(s) \/ MarkOutcome(s)
    \/ RetryStep(s) \/ ContinueAfterFailure(s) \/ HaltRun(s)
    \/ Advance(s) \/ EmitOutputs(s) \/ EmitRunState(s) \/ Persist(s)

Engine ==
    \/ StartBatch \/ FinishBatch \/ EndRun \/ RaiseError
    \/ \E s \in Steps : ResumeStep(s) \/ SkipReplay(s) \/ Thread(s)

Next == Engine \/ OperatorStop \/ OperatorResume \/ Crash

Spec == Init /\ [][Next]_vars

\* The threads of a live process are scheduled, and agents return.
FairSpec == Spec /\ WF_vars(Engine)

-----------------------------------------------------------------------------
(* Properties of every pipeline *)

\* Every variable has the type of the field or local it stands for.
RunStateOK ==
    /\ status \in [Steps -> Statuses]
    /\ attempts \in [Steps -> Nat]
    /\ inputHash \in [Steps -> SUBSET StepOutputs]
    /\ cursor \in 0 .. N
    /\ runStatus \in Statuses

MainOK ==
    /\ phase \in Phases /\ mode \in {"fresh", "resume"}
    /\ executed \subseteq Steps /\ queue \subseteq Steps /\ batch \subseteq Steps

ThreadsOK ==
    /\ pc \in [Steps -> ThreadStates]
    /\ retry \in [Steps -> Nat]
    /\ halted \subseteq Steps
    /\ payload \in [Steps -> Payloads]

TypeOK ==
    /\ pipeline \in Pipelines
    /\ RunStateOK /\ MainOK /\ ThreadsOK
    /\ results \in StepOutputs
    /\ override \subseteq {"stop"}
    /\ record \in Records
    /\ resumes \in 0 .. MaxResumes /\ crashes \in 0 .. MaxCrashes

\* The steps whose thread is between the override check and its outcome.
Executing == {s \in Steps : pc[s] \in {"start", "agent", "mark", "policy"}}

\* Two steps that declare the same resource lock never execute at the same
\* time, although no lock is ever taken: the batches keep them apart.
LockExclusion ==
    \A s, t \in Executing : s # t => ~LocksConflict(pipeline, s, t)

\* A pipeline in which every step waits for the one before it.
Linear == pipeline.explicit = {}

\* No step waits for one that comes after it in the file.
InFileOrder == \A s \in Steps : Dependencies(pipeline, s) \subseteq 1 .. s - 1

\* The agent of a step runs only when each step it depends on has completed
\* (or was skipped) and left an output: in a new run of any pipeline, and in
\* every run of a linear one whose steps depend on earlier ones.  A resumed run
\* does not look at the dependencies: it goes through the file.
DependenciesFirst ==
    mode = "fresh" \/ (Linear /\ InFileOrder) =>
        \A s \in Executing : \A d \in Dependencies(pipeline, s) :
            status[d] \in Completed /\ results[d] # "NONE"

\* However often a run is stopped, crashes and is resumed, a step is attempted
\* at most retry_limit + 1 times and once more for each resume: the retry
\* counter is carried over by the checkpoint.
AttemptsBounded ==
    \A s \in Steps :
        attempts[s] <= resumes + 1
                       + (IF Action(s) = "retry" THEN pipeline.retryLimit[s] ELSE 0)

\* In a new run the cursor is the number of completed steps, whatever the
\* order in which the threads of a batch finish.
CursorCountsCompleted ==
    mode = "fresh" /\ phase # "crashed" =>
        cursor = Cardinality({s \in Steps \ halted :
                                 status[s] \in Completed /\ pc[s] # "advance"})

\* When run() has returned or raised, no thread of it is left to execute a
\* step or to write a checkpoint over the final record.
NoThreadOutlivesRun == phase \in {"ended", "crashed"} => Active = {}

\* Once a step of a batch stops the run, no step outside the batch begins.
HaltStopsRun ==
    [][halted # {} /\ resumes' = resumes
          => \A s \in Steps \ batch : pc'[s] = "off"]_vars

\* A run always comes to an end (or dies with its process): the threads of a
\* batch all return, retries run out and the last batch is followed by the
\* final record.
RunEnds == phase \in {"select", "batch", "final"} ~> phase \in {"ended", "crashed"}

-----------------------------------------------------------------------------
(* Properties of linear pipelines: what a resume relies on *)

\* The steps below the cursor are completed, those above the next are untouched.
CursorIsFrontier ==
    Linear => \A s \in Steps :
        /\ s <= cursor => status[s] \in Completed
        /\ s > cursor + 1 => status[s] = "PENDING" /\ results[s] = "NONE"

\* Every record ever written is a sound place to resume from: what lies below
\* its cursor is completed, with outputs, and nothing at or above it succeeded.
RecordIsResumePoint ==
    Linear => \A saved \in record.result : \A s \in Steps :
        IF s <= saved.runState.cursor
        THEN saved.runState.status[s] \in Completed /\ saved.results[s] # "NONE"
        ELSE ~StepSucceeded(saved.runState.status[s])

\* A step that the record counts as done is never executed again, by no crash,
\* stop, resume or retry.
RecordedStepsNotRerun ==
    Linear => \A saved \in record.result :
        \A s \in Executing : s > saved.runState.cursor

\* The record only advances: neither its cursor nor an attempt counter of it
\* ever goes back.
RecordAdvances ==
    [][Linear => \A old \in record.result, new \in record'.result :
          /\ old.runState.cursor <= new.runState.cursor
          /\ \A s \in Steps : old.runState.attempts[s] <= new.runState.attempts[s]]_vars

\* When the thread of a step returns, the record covers what it did.
CheckpointAfterEveryStep ==
    Linear /\ phase = "batch" => \A s \in batch : pc[s] = "done" =>
        \E saved \in record.result :
            /\ saved.runState.status[s] = status[s]
            /\ saved.runState.cursor = cursor

\* A run recorded as successful has completed every step.
SuccessIsComplete ==
    Linear /\ StepSucceeded(record.status) =>
        \A saved \in record.result : \A s \in Steps :
            saved.runState.status[s] \in Completed

\* The run record implements a run that makes durable progress.
Recorded == UNION {1 .. saved.runState.cursor : saved \in record.result}

DurableRun == INSTANCE DurableRun WITH
    done    <- Cardinality(Recorded),
    outcome <- IF record.status = "PARTIAL_SUCCESS" THEN "SUCCESS" ELSE record.status

ImplementsDurableRun == DurableRun!Spec

-----------------------------------------------------------------------------
(* Expectations of the documents and tests that the code does not meet *)

\* A run in which a step used up its retries, or failed under a policy that
\* stops, does not end as a success.
HaltIsReported ==
    phase = "ended" /\ halted # {} => record.status \in Unsuccessful

\* A resumed run that ends in success has completed every step.
ResumeLeavesNoGap ==
    phase = "ended" /\ mode = "resume" /\ StepSucceeded(record.status) =>
        \A s \in Steps : status[s] \in Completed

\* A resumed run skips only steps that were executed: no step whose last
\* output is that of a stop is left behind by a successful run.
StoppedStepsAreRun ==
    phase = "ended" /\ StepSucceeded(record.status) =>
        \A s \in Steps : results[s] # "STOPPED"

\* A run whose agents all succeed, which no one stops, ends in success.
CleanRunSucceeds ==
    phase = "ended" /\ override = {} /\ (\A s \in Steps : ~(results[s] \in Unsuccessful))
        => StepSucceeded(record.status)

\* The retry counter of a step survives a restart: before each further attempt
\* of a step the record holds the attempts made.
RetriesAreRecorded ==
    \A s \in Steps : mode = "fresh" /\ pc[s] = "start" /\ attempts[s] > 0 =>
        \E saved \in record.result : saved.runState.attempts[s] = attempts[s]
=============================================================================
