----------------------------- MODULE RunGateway -----------------------------
(***************************************************************************)
(* The gateway's own state around the engine: run records, the idempotency *)
(* store, the override registry, the raw inputs kept for a retry, and the  *)
(* threads that serve requests.  The engine is reduced to its checkpoints: *)
(* a step ends, is stopped by the registry, or halts the run.  A thread    *)
(* works on a copy of the record, as the code does, so a stop and a resume *)
(* act on what they read and write over what came in between.              *)
(* MaxRuns bounds the runs, MaxOverrides the override requests,            *)
(* MaxRestarts the process' restarts.                                      *)
(***************************************************************************)
EXTENDS Naturals, FiniteSets

CONSTANTS Threads, Keys, Steps, MaxRuns, MaxOverrides, MaxRestarts

GatewayAssumption == IsFiniteSet(Threads) /\ Steps \in Nat /\ MaxRuns \in Nat

VARIABLES
    thread,         \* what each thread serves, and its copy of the record
    records,        \* RUN_REPOSITORY
    overrides,      \* RUN_OVERRIDE_REGISTRY: the runs asked to stop
    remembered,     \* IDEMPOTENCY_STORE: a run for each key, 0 for none
    runtimeInputs,  \* RUN_RUNTIME_INPUTS: the runs whose raw inputs are kept
    metrics,        \* RuntimeMetrics: runs started and results observed
    keyOf,          \* the key each run was created for
    answered,       \* history: runs whose request was answered as started
    precedes,       \* history: <<q, r>>: q was answered when r was created
    asked, restarts \* override requests and restarts so far

vars == <<thread, records, overrides, remembered, runtimeInputs, metrics,
          keyOf, answered, precedes, asked, restarts>>

RunIds == 1..MaxRuns
Resting == {"FAILED", "BLOCKED"}

\* The fields of a RunRecord that decide anything here: the status, how many
\* steps its run state has completed, and whether it holds step state at all.
Record(status, steps, saved) == [status |-> status, steps |-> steps, saved |-> saved]
NoRecord == Record("NONE", 0, FALSE)
NewRecord == Record("RUNNING", 0, FALSE)
Created == {r \in RunIds : records[r] # NoRecord}

Idle == [op |-> "idle", run |-> 0, copy |-> NoRecord, over |-> FALSE]
Serves(t, op) == thread[t].op = op
Free(t) == thread[t] = Idle
EngineOps == {"run", "rerun"}

Init ==
    /\ thread = [t \in Threads |-> Idle]
    /\ records = [r \in RunIds |-> NoRecord]
    /\ overrides = {}
    /\ remembered = [k \in Keys |-> 0]
    /\ runtimeInputs = {}
    /\ metrics = [started |-> 0, observed |-> 0]
    /\ keyOf = [r \in {} |-> 0]
    /\ answered = {} /\ precedes = {} /\ asked = 0 /\ restarts = 0

\* run_pipeline up to engine.run.  A key whose run is remembered and still in
\* the repository is answered as a duplicate, and nothing changes.
Submit(t, k) ==
    LET r == Cardinality(Created) + 1 IN
    /\ Free(t) /\ r \in RunIds
    /\ remembered[k] = 0
    /\ records' = [records EXCEPT ![r] = NewRecord]
    /\ runtimeInputs' = runtimeInputs \cup {r}
    /\ metrics' = [metrics EXCEPT !.started = @ + 1]
    /\ keyOf' = [q \in DOMAIN keyOf \cup {r} |-> IF q = r THEN k ELSE keyOf[q]]
    /\ precedes' = precedes \cup (answered \X {r})
    /\ thread' = [thread EXCEPT ![t] = [op |-> "run", run |-> r,
                        copy |-> NewRecord, over |-> FALSE]]
    /\ UNCHANGED <<overrides, remembered, answered, asked, restarts>>

\* The status a step leaves the run in: a stop that is registered blocks it.
StepVerdicts(r) == IF r \in overrides THEN {"BLOCKED"}
                   ELSE {"RUNNING", "BLOCKED", "FAILED"}

\* A step of the engine and its checkpoint, written over the record.
Checkpoint(t) ==
    LET r == thread[t].run IN
    /\ thread[t].op \in EngineOps /\ ~thread[t].over
    /\ \E verdict \in StepVerdicts(r) :
        LET done == thread[t].copy.steps + (IF verdict = "RUNNING" THEN 1 ELSE 0)
            copy == Record(verdict, done, TRUE) IN
        /\ records' = [records EXCEPT ![r] = copy]
        /\ thread' = [thread EXCEPT ![t].copy = copy,
                        ![t].over = verdict # "RUNNING" \/ done = Steps]
    /\ UNCHANGED <<overrides, remembered, runtimeInputs, metrics, keyOf,
                   answered, precedes, asked, restarts>>

\* Mutant: a run that completed keeps the status it ran with.
FinalStatusUnchanged(status) == status
FinalStatus(status) == IF status = "RUNNING" THEN "SUCCESS" ELSE status

\* Mutant: only a success is remembered.
RememberSuccess(r, status) ==
    IF status = "SUCCESS" THEN [remembered EXCEPT ![keyOf[r]] = r] ELSE remembered
Remember(r, status) == [remembered EXCEPT ![keyOf[r]] = r]

\* What follows engine.run when it returns: the final record, the inputs kept
\* only for a retry, and, for a new run, the key.
EndRun(t) ==
    LET r == thread[t].run
        status == FinalStatus(thread[t].copy.status) IN
    /\ thread[t].op \in EngineOps /\ thread[t].over
    /\ records' = [records EXCEPT ![r] = Record(status, thread[t].copy.steps, TRUE)]
    /\ runtimeInputs' = IF status \in Resting THEN runtimeInputs
                        ELSE runtimeInputs \ {r}
    /\ metrics' = [metrics EXCEPT !.observed = @ + 1]
    /\ IF Serves(t, "run")
       THEN /\ remembered' = Remember(r, status)
            /\ answered' = answered \cup {r}
       ELSE UNCHANGED <<remembered, answered>>
    /\ thread' = [thread EXCEPT ![t] = Idle]
    /\ UNCHANGED <<overrides, keyOf, precedes, asked, restarts>>

\* Mutant: an exception goes by the metrics.
FailureUnobserved == metrics
ObservedFailure == [metrics EXCEPT !.observed = @ + 1]

\* engine.run raises: the record is FAILED and a new run's key is forgotten
\* together with its inputs.
EngineRaises(t) ==
    LET r == thread[t].run IN
    /\ thread[t].op \in EngineOps
    /\ records' = [records EXCEPT ![r] = [thread[t].copy EXCEPT !.status = "FAILED"]]
    /\ runtimeInputs' = IF Serves(t, "run") THEN runtimeInputs \ {r}
                        ELSE runtimeInputs
    /\ metrics' = ObservedFailure
    /\ thread' = [thread EXCEPT ![t] = Idle]
    /\ UNCHANGED <<overrides, remembered, keyOf, answered, precedes, asked,
                   restarts>>

\* The states in which override_run accepts an action.
Accepts(op, record) ==
    \/ op = "stop" /\ record.status = "RUNNING"
    \/ op = "resume" /\ record.status = "BLOCKED" /\ record.saved
    \/ op = "retry" /\ record.status \in Resting /\ record.saved

\* override_run reads the record; a refused request ends here.
ReadForOverride(t, op, r) ==
    /\ Free(t) /\ asked < MaxOverrides
    /\ Accepts(op, records[r])
    /\ asked' = asked + 1
    /\ thread' = [thread EXCEPT ![t] =
                    [op |-> op, run |-> r, copy |-> records[r], over |-> FALSE]]
    /\ UNCHANGED <<records, overrides, remembered, runtimeInputs, metrics,
                   keyOf, answered, precedes, restarts>>

\* A stop registers the request and writes the copy it read, BLOCKED.
ApplyStop(t) ==
    LET r == thread[t].run IN
    /\ Serves(t, "stop")
    /\ overrides' = overrides \cup {r}
    /\ records' = [records EXCEPT ![r] = [thread[t].copy EXCEPT !.status = "BLOCKED"]]
    /\ thread' = [thread EXCEPT ![t] = Idle]
    /\ UNCHANGED <<remembered, runtimeInputs, metrics, keyOf, answered,
                   precedes, asked, restarts>>

\* A resume or a retry clears the request, writes the copy it read, RUNNING,
\* and starts an engine on the step state of that copy.
ApplyRerun(t) ==
    LET r == thread[t].run
        copy == [thread[t].copy EXCEPT !.status = "RUNNING"] IN
    /\ thread[t].op \in {"resume", "retry"}
    /\ overrides' = overrides \ {r}
    /\ records' = [records EXCEPT ![r] = copy]
    /\ metrics' = [metrics EXCEPT !.started = @ + 1]
    /\ thread' = [thread EXCEPT ![t] = [op |-> "rerun", run |-> r, copy |-> copy,
                                        over |-> copy.steps = Steps]]
    /\ UNCHANGED <<remembered, runtimeInputs, keyOf, answered, precedes,
                   asked, restarts>>

\* The time to live of a key is over: get and remember prune it.
KeyExpires(k) ==
    /\ remembered[k] # 0
    /\ remembered' = [remembered EXCEPT ![k] = 0]
    /\ answered' = {r \in answered : keyOf[r] # k}
    /\ precedes' = {p \in precedes : keyOf[p[1]] # k}
    /\ UNCHANGED <<thread, records, overrides, runtimeInputs, metrics, keyOf,
                   asked, restarts>>

\* The process dies and a new one starts: only the records survive.
Restart ==
    /\ restarts < MaxRestarts
    /\ restarts' = restarts + 1
    /\ thread' = [t \in Threads |-> Idle]
    /\ overrides' = {} /\ runtimeInputs' = {}
    /\ remembered' = [k \in Keys |-> 0]
    /\ metrics' = [started |-> 0, observed |-> 0]
    /\ answered' = {} /\ precedes' = {}
    /\ UNCHANGED <<records, keyOf, asked>>

Next ==
    \/ \E t \in Threads, k \in Keys : Submit(t, k)
    \/ \E t \in Threads : Checkpoint(t)
    \/ \E t \in Threads : EndRun(t)
    \/ \E t \in Threads : EngineRaises(t)
    \/ \E t \in Threads, op \in {"stop", "resume", "retry"}, r \in RunIds :
            ReadForOverride(t, op, r)
    \/ \E t \in Threads : ApplyStop(t)
    \/ \E t \in Threads : ApplyRerun(t)
    \/ \E k \in Keys : KeyExpires(k)
    \/ Restart

Spec == Init /\ [][Next]_vars

-----------------------------------------------------------------------------
At(r) == {t \in Threads : thread[t].run = r}

\* A run that is recorded as RUNNING has a thread that works on it: whatever
\* stops, resumes and failing engines write over each other, the last of them
\* leaves a final status (until the process dies).
RunningIsAttended ==
    restarts = 0 => \A r \in RunIds : records[r].status = "RUNNING" => At(r) # {}

\* A run that is created for a key whose earlier request was already answered
\* does not exist while the key lives: two runs of one key were in flight
\* together, or an earlier one raised.
DuplicatesOverlap == \A p \in precedes : keyOf[p[1]] # keyOf[p[2]]

Rerunning(t) == thread[t].op \in EngineOps

\* Every engine that was counted as started is counted once as observed, or
\* is still at work: no way out of run_pipeline or override_run skips or
\* repeats a metric.
StartsAreObserved ==
    metrics.started = metrics.observed + Cardinality({t \in Threads : Rerunning(t)})

\* What is accounted for of a submission: the run its key stands for, and the
\* engine it starts.
SubmissionsAreAccounted == DuplicatesOverlap /\ StartsAreObserved
=============================================================================
