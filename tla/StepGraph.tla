------------------------------ MODULE StepGraph ------------------------------
(***************************************************************************)
(* The dependency graph of a pipeline and the choice of what runs together *)
(* (orchestrator/parallel.py).  A step is its position in the pipeline     *)
(* file, 1..N.  A pipeline definition is what the loader keeps of a file:  *)
(* dependsOn[s] stands for depends_on and for the steps whose outputs the  *)
(* input of s names, explicit for the steps that declare depends_on at     *)
(* all, even empty.                                                        *)
(***************************************************************************)
EXTENDS StepStatus

CONSTANTS N,           \* the number of steps of a pipeline
          Resources    \* the names that resource_locks may use

Steps == 1 .. N

PipelineDefinitions ==
    [ dependsOn   : [Steps -> SUBSET Steps],
      explicit    : SUBSET Steps,
      locks       : [Steps -> SUBSET Resources],
      onFailure   : [Steps -> Policies],
      retryLimit  : [Steps -> Nat],
      conditional : SUBSET Steps ]

-----------------------------------------------------------------------------

\* build_step_dependency_graph: a step without depends_on waits for the step
\* before it; a reference to itself is dropped.
Dependencies(p, s) ==
    ((IF s > 1 /\ s \notin p.explicit THEN {s - 1} ELSE {}) \cup p.dependsOn[s])
      \ {s}

\* Mutant: a step is ready when one of its dependencies is over.
ReadyStepsEarly(p, executed) ==
    {s \in Steps \ executed :
        Dependencies(p, s) = {} \/ Dependencies(p, s) \cap executed # {}}

\* The steps _execute_with_parallelism may start once `executed` are over.
ReadySteps(p, executed) ==
    {s \in Steps \ executed : Dependencies(p, s) \subseteq executed}

LocksConflict(p, s, t) == p.locks[s] \cap p.locks[t] # {}

\* Mutant: the locks are ignored.
IsWholeBatch(p, ready, batch) == batch = ready

\* select_lock_aware_batch takes the ready steps in order and leaves out the
\* ones that share a lock with a step it took: said of the result, a ready
\* step is in the batch unless an earlier step of the batch shares a lock.
IsLockAwareBatch(p, ready, batch) ==
    /\ batch \subseteq ready
    /\ \A s \in ready :
         s \in batch <=> \A t \in batch : t < s => ~LocksConflict(p, s, t)
=============================================================================
