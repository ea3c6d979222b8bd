----------------------------- MODULE StepStatus -----------------------------
(***************************************************************************)
(* The step state machine (orchestrator/status.py), the on_failure         *)
(* policies (orchestrator/engine.py) and the retry policy                  *)
(* (orchestrator/retry.py): the pure decisions the engine is built from.   *)
(***************************************************************************)
EXTENDS Integers

Statuses == {"PENDING", "RUNNING", "SUCCESS", "PARTIAL_SUCCESS",
             "FAILED", "BLOCKED", "SKIPPED"}

\* The statuses the agent contract allows an agent to return.
AgentStatuses == {"SUCCESS", "PARTIAL_SUCCESS", "FAILED", "BLOCKED"}

\* The policy names a pipeline file uses.
Policies == {"stop_pipeline", "log_warning", "continue", "retry_step",
             "create_issue_for_human", "escalate_to_human", "skip_step",
             "trigger_fix_loop"}

-----------------------------------------------------------------------------

Successors(st) ==
    CASE st = "PENDING"         -> {"RUNNING", "SKIPPED", "BLOCKED"}
      [] st = "RUNNING"         -> {"SUCCESS", "PARTIAL_SUCCESS", "FAILED",
                                    "BLOCKED", "SKIPPED"}
      [] st = "SUCCESS"         -> {"RUNNING"}
      [] st = "PARTIAL_SUCCESS" -> {"RUNNING"}
      [] st = "FAILED"          -> {"RUNNING", "SKIPPED"}
      [] st = "BLOCKED"         -> {"RUNNING", "SKIPPED"}
      [] OTHER                  -> {"RUNNING"}

\* can_transition: marking a step with the status it has is always allowed.
CanTransition(from, to) == from = to \/ to \in Successors(from)

\* Mutant: whatever is not a failure counts as a success.
StepSucceededLoose(st) == st # "FAILED"

\* OrchestratorEngine._is_step_success
StepSucceeded(st) == st \in {"SUCCESS", "PARTIAL_SUCCESS"}

\* The statuses that sync_pipeline_state_from_run_state counts as completed
\* and that a resumed run may skip when the input is unchanged.
Completed == {"SUCCESS", "PARTIAL_SUCCESS", "SKIPPED"}

\* The statuses that mark_step_status copies to the run, and that
\* _derive_final_status leaves as they are.
Unsuccessful == {"FAILED", "BLOCKED"}

\* _resolve_policy_action over POLICY_ACTIONS; an unknown name means "stop".
PolicyAction(onFailure) ==
    CASE onFailure = "retry_step" -> "retry"
      [] onFailure \in {"log_warning", "continue", "skip_step",
                        "trigger_fix_loop"} -> "continue"
      [] onFailure \in {"create_issue_for_human", "escalate_to_human"} -> "block"
      [] OTHER -> "stop"

\* RetryPolicy.should_retry
ShouldRetry(attempt, limit) == attempt <= limit

\* Mutants: the counter is not clamped at zero; it starts again on a resume.
InitialRetryUnclamped(attempts) == attempts - 1
InitialRetryReset(attempts) == 0

\* The retry counter a (re)started step begins with.
InitialRetry(attempts) == IF attempts = 0 THEN 0 ELSE attempts - 1
=============================================================================
