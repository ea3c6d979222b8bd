------------------------------ MODULE IssuePlan ------------------------------
(***************************************************************************)
(* The plan of an issue, from the scan that makes it to the agent that     *)
(* writes code for it (agents/issue_pipeline_dispatcher.py, the planning   *)
(* agents, orchestrator/executor.py, agents/code_generator.py).            *)
(*                                                                         *)
(* A scan reads the issue's comments, makes a plan or takes the one it     *)
(* finds in them, writes a new one into the issue's planning comment, and  *)
(* dispatches a run with the plan and with the comments as it read them.   *)
(* In the run one step for each part passes the part through or builds it  *)
(* again, and the executor rewrites what the step returns on its way into  *)
(* the context.  Labels other than the ones read here, and keys that       *)
(* refuse a second run, are in IssueLifecycle.                             *)
(***************************************************************************)
EXTENDS Naturals, Sequences, FiniteSets

CONSTANTS Scans,        \* scans that may overlap
          EnrichPage,   \* comments a scan reads
          FindPage,     \* comments searched for the planning comment
          MaxComments,  \* bound: comments on the issue
          Spoilt,       \* the parts of a plan that people change
          MaxPlans,     \* bound: plans made
          MaxUpsets     \* bound: requests that fail, comments people change or delete

VARIABLES incident,     \* is it an incident of the CI?
          stage,        \* its stage label
          comments,     \* its comments, in order
          scan,         \* what each scan is doing
          run,          \* the latest run: runs share nothing, so one is enough to follow
          plans, made, upsets,
          events        \* what may explain two planning comments, or none

vars == <<incident, stage, comments, scan, run, plans, made, upsets, events>>

Parts == {"dod", "spec", "subtasks", "bdd", "tests"}

PlanAssumption == EnrichPage \in Nat /\ FindPage \in Nat /\ Spoilt \subseteq Parts

\* A part of a plan: which planning made it (0: none of them), and what is left
\* of it.  "thin" has lost what the executor's schema does not know, "bare" has no
\* test cases, "empty" is {}, "junk" has no field that means anything.
Part(id, form) == [plan |-> id, form |-> form]
Absent == Part(0, "absent")
NoPlan == [p \in Parts |-> Absent]

Note == [id |-> 0, marked |-> FALSE, readable |-> FALSE, plan |-> NoPlan]
Page(n, s) == SubSeq(s, 1, IF Len(s) < n THEN Len(s) ELSE n)

\* The places of the comments with the marker, and of those whose JSON parses.
Marked(s) == {i \in DOMAIN s : s[i].marked}
Readable(s) == {i \in DOMAIN s : s[i].readable}
Earliest(S) == CHOOSE i \in S : \A j \in S : i <= j

\* A dictionary with something in it.
Filled(part) == part.form \notin {"absent", "empty"}
REQUIRED_PLAN_KEYS == {"dod", "spec", "subtasks", "bdd"}
_plan_bundle_is_complete(plan) == \A p \in REQUIRED_PLAN_KEYS : Filled(plan[p])

\* What the dispatcher takes for the plan: the first comment with the marker,
\* whatever comes after it.  A key the JSON lacks is {}.
_load_plan_from_issue(read) ==
    IF Marked(read) = {} \/ ~read[Earliest(Marked(read))].readable THEN NoPlan
    ELSE read[Earliest(Marked(read))].plan

\* What the code generator takes for it: the first comment whose JSON parses.
_extract_plan_payload(read) ==
    IF Readable(read) = {} THEN NoPlan ELSE read[Earliest(Readable(read))].plan

\* What the planning agents build: each always can, from the issue's text and from
\* what the agents before it built, when it may do so without a model.
DodExtractor(id) == Part(id, "full")
SpecificationWriter(id) == Part(id, "full")
TaskDecomposer(id) == Part(id, "full")
BDDGenerator(id) == Part(id, "full")
TestGenerator(id) == Part(id, "full")
Made(id) == [dod |-> DodExtractor(id), spec |-> SpecificationWriter(id),
             subtasks |-> TaskDecomposer(id), bdd |-> BDDGenerator(id), tests |-> TestGenerator(id)]

\* The subtasks of a plan wait for each other: for those of an earlier category (0
\* backend, 1 frontend, 2 tests, 3 docs), and for the earlier ones of their own.
depends_on(work, i) ==
    {j \in DOMAIN work : work[j] < work[i] \/ (work[j] = work[i] /\ j < i)}

\* The groups that may be worked on at the same time, one after another.
find_parallelizable_tasks(work) ==
    LET Group(done) == {i \in DOMAIN work \ done : depends_on(work, i) \subseteq done}
        completed[n \in 0..Len(work)] ==
            IF n = 0 THEN {} ELSE completed[n - 1] \cup Group(completed[n - 1])
    IN  [n \in 1..Len(work) |-> Group(completed[n - 1])]

Idle == [pc |-> "idle", before |-> "opened", read |-> <<>>, plan |-> NoPlan, source |-> "none",
         found |-> 0, seen |-> {}]

NoRun == [at |-> "none", given |-> NoPlan, shown |-> NoPlan, source |-> "none", got |-> NoPlan]

Init ==
    /\ incident \in BOOLEAN
    /\ stage = "opened"
    /\ comments \in {<<>>, <<Note>>}
    /\ scan = [s \in Scans |-> Idle]
    /\ run = NoRun
    /\ plans = 0 /\ made = 0
    /\ upsets \in {0, MaxUpsets}  \* an issue may meet none at all
    /\ events = {}

TypeOK ==
    /\ incident \in BOOLEAN
    /\ stage \in {"opened", "planning", "ready"}
    /\ Len(comments) <= MaxComments
    /\ \A s \in Scans : scan[s].pc \in {"idle", "enrich", "plan", "find", "post", "dispatch"}
    /\ run.at \in {"none", "started", "generated"}
    /\ events \subseteq {"overlap", "page", "unposted", "touched"}

Rest == <<plans, made, events>>
Happened(what) == events' = events \cup what
Fails == upsets < MaxUpsets /\ upsets' = upsets + 1
Answers == UNCHANGED upsets
Goes(s, pc) == scan' = [scan EXCEPT ![s].pc = pc]
Ends(s) == scan' = [scan EXCEPT ![s] = Idle]

-----------------------------------------------------------------------------
\* A scan of the open issues reads the labels it will go by.
Begin(s) ==
    /\ scan[s].pc = "idle"
    /\ scan' = [scan EXCEPT ![s] = [Idle EXCEPT !.pc = "enrich", !.before = stage]]
    /\ UNCHANGED <<incident, stage, comments, run, upsets, Rest>>

\* The comments are read just before the planning; without them it goes on.
_enrich_issue_payload_with_comments(s) ==
    /\ scan[s].pc = "enrich"
    /\ \/ Answers /\ scan' = [scan EXCEPT ![s].pc = "plan", ![s].read = Page(EnrichPage, comments)]
       \/ Fails /\ Goes(s, "plan")
    /\ UNCHANGED <<incident, stage, comments, run, Rest>>

\* A scan writes a stage label, or fails to, which nobody looks at.
Label(to) ==
    \/ Answers /\ stage' = to
    \/ Fails /\ UNCHANGED stage

\* The specification wants a model's answer.  A failure that looks passing is
\* tried again without, any other ends the planning.
SpecIsMade(model) == model \in {"answers", "passing"}

\* The planning of an incident drops test cases about a user interface, which
\* may be all of them.
Sanitized(plan, all) ==
    IF incident /\ all THEN [plan EXCEPT !["tests"].form = "bare"] ELSE plan

_build_issue_plan(s, source, model) ==
    \/ /\ SpecIsMade(model)
       /\ plans < MaxPlans
       /\ plans' = plans + 1
       /\ \E all \in BOOLEAN : scan' = [scan EXCEPT ![s].plan = Sanitized(Made(plans + 1), all),
                                                    ![s].source = source, ![s].pc = "find"]
    \/ /\ ~SpecIsMade(model)
       /\ Ends(s)
       /\ UNCHANGED plans

\* An issue that is not ready is labelled and planned.
PlanOpened(s) ==
    /\ scan[s].pc = "plan" /\ scan[s].before # "ready"
    /\ Label("planning")
    /\ \E model \in {"answers", "passing", "broken"} : _build_issue_plan(s, "generated", model)
    /\ UNCHANGED <<incident, comments, run, made, events>>

\* A ready one is run with the plan of its comment, where that is complete.
TakePlan(s) ==
    LET plan == _load_plan_from_issue(scan[s].read) IN
    /\ scan[s].pc = "plan" /\ scan[s].before = "ready"
    /\ _plan_bundle_is_complete(plan)
    /\ scan' = [scan EXCEPT ![s].plan = plan, ![s].source = "issue", ![s].pc = "dispatch"]
    /\ UNCHANGED <<incident, stage, comments, run, upsets, Rest>>

PlanReady(s) ==
    /\ scan[s].pc = "plan" /\ scan[s].before = "ready"
    /\ ~_plan_bundle_is_complete(_load_plan_from_issue(scan[s].read))
    /\ \E model \in {"answers", "passing", "broken"} : _build_issue_plan(s, "regenerated", model)
    /\ UNCHANGED <<incident, stage, comments, run, upsets, made, events>>

\* The comment to write over: the first with the marker, on a longer page.
_find_planning_comment_id(read) ==
    IF Marked(read) = {} THEN 0 ELSE read[Earliest(Marked(read))].id

FindComment(s) ==
    /\ scan[s].pc = "find"
    /\ \/ /\ Answers
          /\ scan' = [scan EXCEPT ![s].pc = "post",
                        ![s].found = _find_planning_comment_id(Page(FindPage, comments)),
                        ![s].seen = {comments[i].id : i \in Marked(comments)}]
          /\ UNCHANGED events
       \/ Fails /\ Goes(s, "dispatch") /\ Happened({"unposted"})
    /\ UNCHANGED <<incident, stage, comments, run, plans, made>>

Written(s, id) == [id |-> id, marked |-> TRUE, readable |-> TRUE, plan |-> scan[s].plan]

\* Posting the comment.  One that is gone cannot be written over, and whatever
\* fails, the plan is dispatched.
UpdateComment(s) ==
    LET at == {i \in DOMAIN comments : comments[i].id = scan[s].found} IN
    /\ scan[s].pc = "post" /\ scan[s].found # 0
    /\ Goes(s, "dispatch")
    /\ \/ /\ at # {}
          /\ Answers
          /\ comments' = [i \in DOMAIN comments |->
                            IF i \in at THEN Written(s, scan[s].found) ELSE comments[i]]
          /\ UNCHANGED events
       \/ at = {} /\ Answers /\ Happened({"unposted"}) /\ UNCHANGED comments
       \/ Fails /\ Happened({"unposted"}) /\ UNCHANGED comments
    /\ UNCHANGED <<incident, stage, run, plans, made>>

\* How another comment with the marker can be there when a scan found none: it lay
\* beyond the page, or was opened since.
Missed(s) ==
    LET ids == {comments[i].id : i \in Marked(comments)} IN
    (IF ids \cap scan[s].seen # {} THEN {"page"} ELSE {})
        \cup (IF ids \ scan[s].seen # {} THEN {"overlap"} ELSE {})

OpenComment(s) ==
    /\ scan[s].pc = "post" /\ scan[s].found = 0
    /\ Goes(s, "dispatch")
    /\ \/ /\ Answers
          /\ Len(comments) < MaxComments
          /\ made' = made + 1
          /\ comments' = Append(comments, Written(s, made + 1))
          /\ Happened(Missed(s))
       \/ Fails /\ Happened({"unposted"}) /\ UNCHANGED <<comments, made>>
    /\ UNCHANGED <<incident, stage, run, plans>>

\* A run starts with the plan and with the comments of the scan.
Started(plan, shown, source) ==
    [at |-> "started", given |-> plan, shown |-> shown, source |-> source, got |-> NoPlan]

\* The gateway takes the run, answers with an earlier one, or refuses.
Dispatch(s) ==
    LET shown == _extract_plan_payload(scan[s].read) IN
    /\ scan[s].pc = "dispatch"
    /\ Ends(s)
    /\ \/ /\ run' = Started(scan[s].plan, shown, scan[s].source)
          /\ Label("ready")
       \/ run.at # "none" /\ UNCHANGED run /\ Label("ready")
       \/ /\ Fails
          /\ stage' \in {stage, IF scan[s].before = "ready" THEN "ready" ELSE "opened"}
          /\ UNCHANGED run
    /\ UNCHANGED <<incident, comments, Rest>>

\* A person starts a run of the issue with nothing prepared.
RunByHand ==
    /\ run = NoRun
    /\ run' = Started(NoPlan, NoPlan, "hand")
    /\ UNCHANGED <<incident, stage, comments, scan, upsets, Rest>>

-----------------------------------------------------------------------------
\* What the executor makes of an artifact: of a specification summary and
\* requirements are left, of a test case its name, type and expected result.  Where
\* nothing is left it puts something in its place.
_coerce_spec_content_for_validation(out) ==
    [out EXCEPT !.form = IF @ \in {"full", "thin"} THEN "thin" ELSE "placeholder"]
_coerce_tests_content_for_validation(out) ==
    [out EXCEPT !.form = IF @ = "full" THEN "thin" ELSE "placeholder"]
_sanitize_output_for_validation(p, out) ==
    CASE p = "spec"  -> _coerce_spec_content_for_validation(out)
      [] p = "tests" -> _coerce_tests_content_for_validation(out)
      [] OTHER       -> out

\* A step's result, and what is under the part's name in the context after it: the
\* result when the step succeeded, what was there before otherwise.
_apply_output_mapping(p, given, success, out) ==
    LET result == _sanitize_output_for_validation(p, out) IN
    [result |-> result, state |-> IF success THEN result ELSE given]

\* Mutant: a model is asked for the specification whatever the run was given.
SpecificationRebuilt(given, answered) ==
    IF answered THEN _apply_output_mapping("spec", given, TRUE, SpecificationWriter(0))
    ELSE _apply_output_mapping("spec", given, FALSE, Part(0, "empty"))

\* Passed through where it means something, built by a model otherwise, whose
\* failure fails the step; the run goes on.
SpecificationPassthrough(given, answered) ==
    IF given.form \in {"full", "thin"} THEN _apply_output_mapping("spec", given, TRUE, given)
    ELSE IF answered THEN _apply_output_mapping("spec", given, TRUE, SpecificationWriter(0))
    ELSE _apply_output_mapping("spec", given, FALSE, Part(0, "empty"))

\* These two are built from the issue's text, which is always there.
SubtasksPassthrough(given) ==
    _apply_output_mapping("subtasks", given, TRUE,
                          IF given.form = "full" THEN given ELSE TaskDecomposer(0))
BddPassthrough(given) ==
    _apply_output_mapping("bdd", given, TRUE,
                          IF given.form = "full" THEN given ELSE BDDGenerator(0))

\* Tests that are there must be whole: the step blocks on them otherwise, and
\* asks a model only where there are none.
TestsPassthrough(given, answered) ==
    IF given.form = "full" THEN _apply_output_mapping("tests", given, TRUE, given)
    ELSE IF ~Filled(given) /\ answered
         THEN _apply_output_mapping("tests", given, TRUE, TestGenerator(0))
    ELSE _apply_output_mapping("tests", given, FALSE, Part(0, "bare"))

\* The steps of the run before the code generator.  The pipeline of incidents has
\* none for the tests, and none has one for the definition of done.
Passthrough(p, given, answered) ==
    CASE p = "spec" -> SpecificationPassthrough(given, answered)
      [] p = "subtasks" -> SubtasksPassthrough(given)
      [] p = "bdd" -> BddPassthrough(given)
      [] p = "tests" /\ ~incident -> TestsPassthrough(given, answered)
      [] OTHER -> [result |-> Absent, state |-> given]

\* A dictionary in the context, even {}, or else what some step returned.
get_artifact_from_context(step) ==
    IF step.state.form # "absent" THEN step.state ELSE step.result

\* The steps, and behind them the code generator, which reads the specification, the
\* subtasks and the tests; the other parts are what an agent would find then.
GenerateCode ==
    /\ run.at = "started"
    /\ \E answered \in SUBSET {"spec", "tests"} :
          run' = [run EXCEPT !.at = "generated",
                    !.got = [p \in Parts |->
                               get_artifact_from_context(
                                  Passthrough(p, run.given[p], p \in answered))]]
    /\ UNCHANGED <<incident, stage, comments, scan, upsets, Rest>>

-----------------------------------------------------------------------------
\* People write comments, take a part out of a plan, spoil a part or the JSON of it,
\* and delete comments.
Comment ==
    /\ Len(comments) < MaxComments
    /\ Fails
    /\ comments' = Append(comments, Note)
    /\ UNCHANGED <<incident, stage, scan, run, Rest>>

EditPlan(i) ==
    /\ i \in Marked(comments)
    /\ Fails /\ Happened({"touched"})
    /\ \/ \E p \in Spoilt, form \in {"empty", "junk"} :
             comments' = [comments EXCEPT ![i].plan[p].form = form]
       \/ comments' = [comments EXCEPT ![i].readable = FALSE]
    /\ UNCHANGED <<incident, stage, scan, run, plans, made>>

DeleteComment(i) ==
    /\ i \in DOMAIN comments
    /\ Fails /\ Happened({"touched"})
    /\ comments' = SubSeq(comments, 1, i - 1) \o SubSeq(comments, i + 1, Len(comments))
    /\ UNCHANGED <<incident, stage, scan, run, plans, made>>

Next ==
    \/ \E s \in Scans :
         \/ Begin(s) \/ _enrich_issue_payload_with_comments(s)
         \/ PlanOpened(s) \/ TakePlan(s) \/ PlanReady(s)
         \/ FindComment(s) \/ UpdateComment(s) \/ OpenComment(s)
         \/ Dispatch(s)
    \/ RunByHand
    \/ GenerateCode
    \/ Comment
    \/ \E i \in DOMAIN comments : EditPlan(i) \/ DeleteComment(i)

Spec == Init /\ [][Next]_vars

-----------------------------------------------------------------------------
(***************************************************************************)
(* What an agent behind the steps (the code generator, then the test       *)
(* runner) finds of a part is what its run was given, or was built or put  *)
(* in by the run where nothing usable had been given; never a part of      *)
(* another planning.                                                       *)
(***************************************************************************)
Usable(p, part) ==
    CASE p = "dod" -> TRUE
      [] p = "tests" -> Filled(part)
      [] OTHER -> part.form = "full"

RunFollowsPlan ==
    run.at = "generated" =>
        /\ \A p \in Parts : IF Usable(p, run.given[p]) THEN run.got[p].plan = run.given[p].plan
                            ELSE run.got[p].plan = 0 \/ run.got[p] = run.given[p]
        /\ Cardinality({run.given[p].plan : p \in Parts}) = 1

(***************************************************************************)
(* The prompt shows the plan of the comments as well: that is the run's    *)
(* own where the scan took the plan from them, and an older one, or none,  *)
(* where the scan had made it, which had read the comments before.         *)
(***************************************************************************)
PromptShowsPlan ==
    /\ run.source = "issue" => run.shown = run.given
    /\ run.source \in {"generated", "regenerated"} =>
          \A p \in Parts : run.shown[p].plan < run.given[p].plan

(***************************************************************************)
(* There is one planning comment, unless a scan searched too short a page  *)
(* or two searched before either wrote; and a ready issue whose scans are  *)
(* over has a complete plan in one, unless writing it failed or people     *)
(* changed it.                                                             *)
(***************************************************************************)
OnePlanningComment ==
    /\ Cardinality(Marked(comments)) > 1 => events \cap {"page", "overlap"} # {}
    /\ stage = "ready" /\ (\A s \in Scans : scan[s].pc = "idle") =>
          \/ events \cap {"unposted", "touched"} # {}
          \/ \E i \in Marked(comments) :
                comments[i].readable /\ _plan_bundle_is_complete(comments[i].plan)

\* What an issue's plan is kept through, from the scan to the code.
PlanIsKept == RunFollowsPlan /\ PromptShowsPlan /\ OnePlanningComment

(***************************************************************************)
(* The groups of a plan's subtasks hold each subtask once and after what   *)
(* it waits for (task_decomposer's two functions).  As a subtask waits for *)
(* all before it, no group has more than one: nothing is ever parallel.    *)
(***************************************************************************)
GroupsAreChains(work) ==
    LET groups == find_parallelizable_tasks(work) IN
    /\ \A i \in DOMAIN work : Cardinality({n \in DOMAIN groups : i \in groups[n]}) = 1
    /\ \A n \in DOMAIN groups :
          /\ Cardinality(groups[n]) = 1
          /\ \A i \in groups[n] : depends_on(work, i) = UNION {groups[m] : m \in 1..(n - 1)}
=============================================================================
