----------------------------- MODULE MCRunEngine -----------------------------
(***************************************************************************)
(* Instances of RunEngine for TLC: the pipelines of each run.              *)
(***************************************************************************)
EXTENDS RunEngine

NoSteps == [s \in Steps |-> {}]

Pipeline(dependsOn, explicit, locks, onFailure, retryLimit, conditional) ==
    [dependsOn |-> dependsOn, explicit |-> explicit, locks |-> locks,
     onFailure |-> onFailure, retryLimit |-> [s \in Steps |-> retryLimit],
     conditional |-> conditional]

\* Three steps in a row: every combination of the policies' actions on the
\* first two, a last step that may retry or block; every step may be left out
\* by its condition.
LinearPipelines ==
    {Pipeline(NoSteps, {}, NoSteps, <<a, b, c>>, 1, Steps) :
        a \in {"retry_step", "continue"},
        b \in {"stop_pipeline", "retry_step", "create_issue_for_human"},
        c \in {"retry_step", "create_issue_for_human"}}

\* 1 and 2 are independent, 3 follows them.
Diamond(onFailure, cond) ==
    Pipeline([NoSteps EXCEPT ![3] = {1, 2}], Steps, NoSteps, onFailure, 1, cond)

\* 1 and 3 use the same resource, 2 another; none depends on another.
Contended ==
    Pipeline(NoSteps, Steps,
             [s \in Steps |-> IF s = 2 THEN {"r2"} ELSE {"r1"}],
             <<"create_issue_for_human", "continue", "stop_pipeline">>, 1, {})

\* 3 waits for 1 and for 2, which waits for 1.
Chain ==
    Pipeline([NoSteps EXCEPT ![2] = {1}, ![3] = {1, 2}], Steps, NoSteps,
             [s \in Steps |-> "stop_pipeline"], 1, {})

\* 1 waits for 3 explicitly, 2 and 3 for the step before them.
Cyclic ==
    Pipeline([NoSteps EXCEPT ![1] = {3}], {1}, NoSteps,
             [s \in Steps |-> "stop_pipeline"], 1, {})

\* The steps in a row, of which the last also reads the output of the first.
InARow ==
    Pipeline([NoSteps EXCEPT ![3] = {1}], {}, NoSteps,
             <<"continue", "retry_step", "stop_pipeline">>, 1, {2})

ParallelPipelines ==
    {Diamond(<<"stop_pipeline", "retry_step", "stop_pipeline">>, {}),
     Diamond(<<"stop_pipeline", "continue", "stop_pipeline">>, {2}),
     Contended, Chain, Cyclic, InARow}

\* The independent pair of a diamond, with policies that halt the run.
DiamondPipelines ==
    {Diamond(<<"create_issue_for_human", "retry_step", "stop_pipeline">>, {})}

\* Two steps in a row, of which the first asks for a human.
HumanPipelines ==
    {Pipeline(NoSteps, {}, NoSteps,
              <<"create_issue_for_human", "stop_pipeline">>, 1, {})}
=============================================================================
