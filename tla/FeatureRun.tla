----------------------------- MODULE FeatureRun -----------------------------
(***************************************************************************)
(* A run of feature_pipeline or ci_fix_pipeline from the code generator to *)
(* the pull request: the engine's plan with its fix loop, the agents, and  *)
(* the two ways a patch travels between them, as an entry of the context   *)
(* ("alias", the output mapping) and as an artifact of a step's result.    *)
(* Results are kept in the run record; aliases are not, so a resumed run   *)
(* starts without them.  MaxResumes bounds the resumes of a run.           *)
(***************************************************************************)
EXTENDS Naturals, Sequences

CONSTANTS MaxIterations, MaxResumes

VARIABLES
    pipeline, useLLM,      \* the pipeline, and the input use_llm
    phase, todo,           \* the engine's plan: the steps left in this phase
    iteration, cursor,     \* of the loop; current_step_index
    alias,                 \* entries of the context's state
    result,                \* the artifacts of the steps' last results
    runState, status,      \* run_status of the engine, status of the record
    stopping,              \* the operator asked for a stop
    made, fixes,           \* patches made, and those by the fix agent
    tested, reviewed,      \* history: the last test run, the last patch reviewed
    pulls,                 \* the pull requests, with what was known of them
    cutOff,                \* history: a publication the record does not know of
    resumes

vars == <<pipeline, useLLM, phase, todo, iteration, cursor, alias, result, runState,
          status, stopping, made, fixes, tested, reviewed, pulls, cutOff,
          resumes>>
context == <<alias, result>>
ends == <<runState, status>>
history == <<made, fixes, tested, reviewed, pulls, cutOff, resumes>>
given == <<pipeline, useLLM>>

Plan == <<"code_generator", "test_runner", "fix_agent", "review_agent",
           "memory_writer", "pr_merge_agent">>
None == "none"

\* A patch as its agent makes it, and as the executor hands it on: the contents of
\* its files have become diffs, and a patch without files names an unknown path.
MadePatch(n, empty) == [id |-> n, files |-> IF empty THEN "none" ELSE "contents"]
Normalised(patch) == [patch EXCEPT !.files = IF @ = "none" THEN "unknown" ELSE "diffs"]
NoPatch == [id |-> 0, files |-> "none"]

NoAlias == [code |-> NoPatch, fixed |-> NoPatch, tests |-> None, review |-> None]
NoResult == [code_generator |-> NoPatch, fix_agent |-> NoPatch,
             test_runner |-> None, review_agent |-> None,
             memory_writer |-> None, pr_merge_agent |-> None]

Init ==
    /\ pipeline \in {"feature_pipeline", "ci_fix_pipeline"}
    /\ useLLM \in BOOLEAN
    /\ phase = "loop" /\ todo = <<"code_generator", "test_runner">>
    /\ iteration = 0 /\ cursor = 0
    /\ alias = NoAlias /\ result = NoResult
    /\ runState = "RUNNING" /\ status = "RUNNING" /\ stopping = FALSE
    /\ made = 0 /\ fixes = 0
    /\ tested = [patch |-> NoPatch, written |-> NoPatch, end |-> None]
    /\ reviewed = NoPatch
    /\ pulls = <<>> /\ cutOff = FALSE /\ resumes = 0

-----------------------------------------------------------------------------
\* How the process of a test framework ends: all tests pass, some fail, no test
\* is collected (pytest alone tells), another exit status, a timeout, or no start,
\* as when the step refuses its input or no file of the patch was counted.
Ends == {"passed", "failures", "nothing collected", "odd exit", "timeout", "not started"}

ResultType(end) ==
    CASE end = "passed" -> "passed"
      [] end = "nothing collected" -> "collection_error"
      [] end = "timeout" -> "timeout"
      [] end = "not started" -> "infra_error"
      [] end \in {"failures", "odd exit"} -> "test_failures"
FailedTests(end) == IF end \in {"failures", "odd exit"} THEN 1 ELSE 0

\* What is not BLOCKED is mapped to the alias.
StatusOf(end) ==
    CASE ResultType(end) = "passed" -> "SUCCESS"
      [] ResultType(end) \in {"infra_error", "timeout"} -> "BLOCKED"
      [] OTHER -> "PARTIAL_SUCCESS"

\* Only contents are written to the workspace; a diff is counted as applied.
Written(patch) == IF patch.files = "contents" THEN patch ELSE NoPatch

\* Mutant: the loop looks at the failed tests alone.
FailedAlone == alias.tests # None /\ FailedTests(alias.tests) > 0
\* A missing alias is no reason to loop.
LoopCondition ==
    alias.tests # None /\ (FailedTests(alias.tests) > 0 \/ alias.tests # "passed")

First(p, q) == IF p # NoPatch THEN p ELSE q
FixOrCode == First(result.fix_agent, result.code_generator)
CodeOrFix == First(result.code_generator, result.fix_agent)

\* A template that is no plain name is rendered to text, which is no patch; the
\* agents then look for an artifact.
TestedPatch ==
    IF pipeline = "feature_pipeline" THEN First(alias.code, FixOrCode) ELSE FixOrCode
ReviewedPatch == First(alias.code, FixOrCode)
PublishedPatch ==
    IF pipeline = "feature_pipeline" THEN First(alias.fixed, CodeOrFix) ELSE CodeOrFix

SeenTests == IF alias.tests # None THEN alias.tests ELSE result.test_runner
SeenReview == IF alias.review # None THEN alias.review ELSE result.review_agent

TestsPassed(end) == end = "passed"

-----------------------------------------------------------------------------
\* The engine.
AtStep(step) == status = "RUNNING" /\ todo # <<>> /\ Head(todo) = step

\* The condition of fix_agent is looked at before a stop is.
Skipped(step) == step = "fix_agent" /\ ~LoopCondition
Executes(step) == AtStep(step) /\ ~Skipped(step) /\ ~stopping

Advanced == IF cursor < Len(Plan) THEN cursor + 1 ELSE cursor

StepEnds ==
    /\ todo' = Tail(todo) /\ cursor' = Advanced
    /\ runState' = "RUNNING"
    /\ UNCHANGED <<given, phase, iteration, status, stopping, resumes>>

Blocks ==
    /\ runState' = "BLOCKED" /\ status' = "BLOCKED"
    /\ UNCHANGED <<given, phase, todo, iteration, cursor, stopping, resumes>>

SkipByCondition ==
    /\ AtStep("fix_agent") /\ Skipped("fix_agent")
    /\ result' = [result EXCEPT !.fix_agent = NoPatch]
    /\ todo' = Tail(todo) /\ cursor' = Advanced
    /\ UNCHANGED <<given, phase, iteration, alias, ends, stopping, history>>

\* The loop comes after the first steps of the plan, and again while its condition
\* holds; a run that was resumed has the rest of the pipeline behind it by then.
Iterate ==
    /\ status = "RUNNING" /\ todo = <<>> /\ phase \in {"loop", "last loop"}
    /\ LoopCondition /\ iteration < MaxIterations
    /\ todo' = <<"fix_agent", "test_runner">>
    /\ iteration' = iteration + 1
    /\ UNCHANGED <<given, phase, cursor, context, ends, stopping, history>>

LeaveLoop ==
    /\ status = "RUNNING" /\ todo = <<>> /\ phase = "loop"
    /\ ~LoopCondition \/ iteration = MaxIterations
    /\ phase' = "after"
    /\ todo' = <<"review_agent", "memory_writer", "pr_merge_agent">>
    /\ UNCHANGED <<given, iteration, cursor, context, ends, stopping, history>>

AtEnd ==
    /\ status = "RUNNING" /\ todo = <<>>
    /\ phase = "last loop" => ~LoopCondition \/ iteration = MaxIterations
    /\ phase # "loop"

EndRun ==
    /\ AtEnd
    /\ status' = IF runState = "BLOCKED" THEN "BLOCKED" ELSE "SUCCESS"
    /\ UNCHANGED <<given, phase, todo, iteration, cursor, context, runState, stopping,
                   history>>

-----------------------------------------------------------------------------
\* The agents.  A model's answer is used if it parses, as it is or after the model
\* repaired it; where no model is asked, the patch is made by rule.
Answers == IF useLLM THEN {"parsed", "repaired", "unusable"} ELSE {"by rule"}
NewPatch(empty) == Normalised(MadePatch(made + 1, empty))

\* The filter may leave no file; that is a patch all the same.
GenerateCode ==
    /\ Executes("code_generator")
    /\ \E answer \in Answers \ {"unusable"}, empty \in BOOLEAN :
        /\ alias' = [alias EXCEPT !.code = NewPatch(empty)]
        /\ result' = [result EXCEPT !.code_generator = NewPatch(empty)]
    /\ made' = made + 1
    /\ StepEnds
    /\ UNCHANGED <<fixes, tested, reviewed, pulls, cutOff>>

\* Without an answer the step fails, is retried, and then blocks the run.  The empty
\* patch it returns is replaced before it is read.
GenerationFails ==
    /\ Executes("code_generator") /\ "unusable" \in Answers
    /\ Blocks
    /\ UNCHANGED <<context, made, fixes, tested, reviewed, pulls, cutOff>>

\* A run that was blocked, or raised, leaves the alias of an earlier one as it is;
\* the pipeline goes on in any case.
RunTests ==
    /\ Executes("test_runner")
    /\ \E end \in Ends \cup {None} :
        /\ tested' = [patch |-> TestedPatch, written |-> Written(TestedPatch), end |-> end]
        /\ result' = [result EXCEPT !.test_runner = end]
        /\ alias' = IF end # None /\ StatusOf(end) # "BLOCKED"
                    THEN [alias EXCEPT !.tests = end] ELSE alias
    /\ StepEnds
    /\ UNCHANGED <<made, fixes, reviewed, pulls, cutOff>>

\* The failures a fix is asked for come from the output of the test run, and that
\* is not in the step's result, which has the counts alone.
FailureInfo == {}

\* With a model there is nothing to ask about, and the agent fails.
FixFails ==
    /\ Executes("fix_agent") /\ useLLM /\ FailureInfo = {}
    /\ Blocks
    /\ UNCHANGED <<context, made, fixes, tested, reviewed, pulls, cutOff>>

Fix ==
    /\ Executes("fix_agent") /\ ~useLLM
    /\ made' = made + 1 /\ fixes' = fixes + 1
    /\ alias' = [alias EXCEPT !.fixed = NewPatch(FALSE)]
    /\ result' = [result EXCEPT !.fix_agent = NewPatch(FALSE)]
    /\ StepEnds
    /\ UNCHANGED <<tested, reviewed, pulls, cutOff>>

\* Tests that were not run, or ended oddly, verify nothing.
Unverified(end) == end \notin {"passed", "failures", None}

Review ==
    /\ Executes("review_agent")
    /\ \E decision \in {"approve", "request_changes"} :
        /\ decision = "approve" => ~Unverified(SeenTests)
        /\ alias' = [alias EXCEPT !.review = decision]
        /\ result' = [result EXCEPT !.review_agent = decision]
    /\ reviewed' = ReviewedPatch
    /\ StepEnds
    /\ UNCHANGED <<made, fixes, tested, pulls, cutOff>>

ReviewFails ==
    /\ Executes("review_agent") /\ useLLM
    /\ result' = [result EXCEPT !.review_agent = "error"]
    /\ Blocks
    /\ UNCHANGED <<alias, made, fixes, tested, reviewed, pulls, cutOff>>

WriteMemory ==
    /\ Executes("memory_writer")
    /\ StepEnds
    /\ UNCHANGED <<context, made, fixes, tested, reviewed, pulls, cutOff>>

-----------------------------------------------------------------------------
\* The pull request is opened whatever the tests and the review say; the gates
\* decide on the merge alone.
Approved == SeenReview = "approve" /\ TestsPassed(SeenTests)
Pull == [patch |-> PublishedPatch, tested |-> tested, reviewed |-> reviewed,
         review |-> SeenReview, approved |-> Approved, iteration |-> iteration,
         fixes |-> fixes, resumed |-> resumes > 0]
Merged == [result EXCEPT !.pr_merge_agent = "done"]

Merge ==
    /\ Executes("pr_merge_agent")
    /\ pulls' \in {pulls, Append(pulls, Pull)}
    /\ result' = Merged
    /\ StepEnds
    /\ UNCHANGED <<alias, made, fixes, tested, reviewed, cutOff>>

\* A connection lost for good is an exception, before or after the request.
MergeFails ==
    /\ Executes("pr_merge_agent")
    /\ \/ UNCHANGED <<pulls, cutOff>>
       \/ pulls' = Append(pulls, Pull) /\ cutOff' = TRUE
    /\ result' = [result EXCEPT !.pr_merge_agent = None]
    /\ Blocks
    /\ UNCHANGED <<alias, made, fixes, tested, reviewed>>

-----------------------------------------------------------------------------
\* The operator's stop is seen before the next step.  A step that had succeeded
\* cannot become SKIPPED: the engine raises, and the record keeps the last
\* checkpoint.
Stop ==
    /\ status = "RUNNING" /\ ~stopping /\ resumes < MaxResumes
    /\ stopping' = TRUE
    /\ UNCHANGED <<given, phase, todo, iteration, cursor, context, ends, history>>

HasSucceeded(step) ==
    CASE step \in {"code_generator", "fix_agent"} -> result[step] # NoPatch
      [] step = "test_runner" ->
            result[step] # None /\ StatusOf(result[step]) # "BLOCKED"
      [] step = "review_agent" -> result[step] \in {"approve", "request_changes"}
      [] OTHER -> result[step] = "done"

Erased(step) == IF step \in {"code_generator", "fix_agent"} THEN NoPatch ELSE None

Halt ==
    /\ status = "RUNNING" /\ todo # <<>> /\ stopping /\ ~Skipped(Head(todo))
    /\ IF HasSucceeded(Head(todo))
       THEN status' = "FAILED" /\ UNCHANGED <<result, runState>>
       ELSE /\ status' = "BLOCKED" /\ runState' = "BLOCKED"
            /\ result' = [result EXCEPT ![Head(todo)] = Erased(Head(todo))]
    /\ UNCHANGED <<given, phase, todo, iteration, cursor, alias, stopping, history>>

\* The process dies; its run stays RUNNING until an operator stops it.  In the
\* merge step it may have opened the pull request.
Crash ==
    /\ status = "RUNNING" /\ resumes < MaxResumes
    /\ \/ Executes("pr_merge_agent") /\ pulls' = Append(pulls, Pull)
       \/ UNCHANGED pulls
    /\ cutOff' = (cutOff \/ pulls' # <<>>)
    /\ status' = "BLOCKED"
    /\ UNCHANGED <<given, phase, todo, iteration, cursor, context, runState, stopping,
                   made, fixes, tested, reviewed, resumes>>

\* A resume or a retry: from the record, at its index, the rest in order.  No step of
\* the rest has succeeded on the same inputs, which would pass it over.
Resume ==
    /\ status \in {"BLOCKED", "FAILED"} /\ resumes < MaxResumes
    /\ resumes' = resumes + 1
    /\ status' = "RUNNING" /\ stopping' = FALSE
    /\ phase' = "last loop" /\ iteration' = 0
    /\ todo' = SubSeq(Plan, cursor + 1, Len(Plan))
    /\ alias' = NoAlias
    /\ UNCHANGED <<given, cursor, result, runState, made, fixes, tested, reviewed,
                   pulls, cutOff>>

Next ==
    \/ SkipByCondition \/ Iterate \/ LeaveLoop \/ EndRun
    \/ GenerateCode \/ GenerationFails \/ RunTests \/ Fix \/ FixFails
    \/ Review \/ ReviewFails \/ WriteMemory \/ Merge \/ MergeFails
    \/ Stop \/ Halt \/ Crash \/ Resume

Spec == Init /\ [][Next]_vars

-----------------------------------------------------------------------------
Pulls == {pulls[n] : n \in DOMAIN pulls}

\* A patch whose tests failed is published only when all iterations are used up,
\* or by a run that was interrupted (pr_merge_agent publishes before its gates).
FailingIsExhausted ==
    \A p \in Pulls : p.tested.end \in {"failures", "odd exit", "nothing collected"} =>
        p.resumed \/ p.iteration = MaxIterations

\* A patch is published without a review only by a run that was interrupted after
\* a fix: the iterations have advanced the index past the review.
UnreviewedIsInterrupted ==
    \A p \in Pulls : p.review \in {None, "error"} => p.resumed /\ p.fixes > 0

\* A second pull request of a run follows a publication that the record missed.
SecondIsCutOff == Len(pulls) > 1 => cutOff

\* The gates approve no patch whose last test run did not pass; and if there was no
\* fix, they approve the patch that the tests and the review were given.
ApprovedIsTested ==
    \A p \in Pulls : p.approved =>
        /\ p.tested.end = "passed"
        /\ p.fixes = 0 => p.patch = p.tested.patch /\ p.patch = p.reviewed

\* What a run publishes has failing tests, no review, or a pull request already,
\* in these cases alone, and what its gates approve has passed.
PublishedWithCare ==
    /\ FailingIsExhausted
    /\ UnreviewedIsInterrupted
    /\ SecondIsCutOff
    /\ ApprovedIsTested
=============================================================================
