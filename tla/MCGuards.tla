------------------------------ MODULE MCGuards ------------------------------
(***************************************************************************)
(* The components with a promise that something happens in the end: an     *)
(* issue's lifecycle, the rate limiter and the circuit breaker.  They      *)
(* share no state, so a behaviour is one of one component, chosen at the   *)
(* start, under that component's fairness.                                 *)
(***************************************************************************)
EXTENDS Naturals, Sequences

CONSTANTS Issues, Rejected, FixTitles, Scans, Workers, PageSize, MaxQueue,
          MaxReworks,                                   \* lifecycle
          Processes, Limit, Window,                     \* limiter
          Threads, FailureThreshold, SuccessThreshold,
          HalfOpenMaxCalls, Timeout,                    \* breaker
          MaxFaults,
          StoreWorkers, Texts, GroupSize, QueueSize, MaxInflight,
          MaxRefusals,                                  \* ingestion
          MaxCandidates, MaxRetries, TestNames          \* answers

VARIABLES component,
          stage, open, comment, scan, queue, worker, remembered, pulls, older, faults,
          memory, count, ttl, first, admitted, lost,
          state, failureCount, successCount, age, pc, healthy,
          run, made, waiting, line, unfinished, shutdown, task, kept, flushed, old,
          given, verdict, refusals

Lifecycle == INSTANCE IssueLifecycle
Limiter == INSTANCE RateLimiter WITH faults <- lost
Breaker == INSTANCE CircuitBreaker
Ingestion == INSTANCE IngestionPipeline

ASSUME GuardsAssumption == Limiter!RateAssumption /\ Breaker!BreakerAssumption

-----------------------------------------------------------------------------
(***************************************************************************)
(* What is made of a model's answer is a function: it is held against its  *)
(* claims on every answer of two objects with up to two items, and on      *)
(* every task and patch that name two files, "test_y" and another, in some *)
(* of the ways a path is written.                                          *)
(***************************************************************************)
Answer == INSTANCE ModelAnswer

UpTo(n, S) == UNION {[1 .. k -> S] : k \in 0 .. n}
Complete == {"change_type", "content"}
AnswerItems == [path : {"a", "b"}, has : {Complete, {"content"}}]
AnswerObjects == [key : {"files", "spec", "approve", "other"}, torn : BOOLEAN,
                  items : UpTo(2, AnswerItems)]
TaskPaths == {Answer!Plain("test_y"), [name |-> "x", form |-> "dotted"],
              [name |-> "x", form |-> "outside"]}
TestPaths == {Answer!Plain("test_y"), [name |-> "x", form |-> "node"]}
PatchTasks == [planned : UpTo(1, TaskPaths), changes : UpTo(2, TaskPaths),
               tests : UpTo(1, [path : TestPaths, content : BOOLEAN]),
               ci : {<<>>}, rag : {<<>>, <<Answer!Plain("test_y")>>},
               classification : {"none", "test_failure"}, spec : {TRUE},
               denied : BOOLEAN, workflow : {"lacking"}]
PatchModels ==
    [use : {TRUE}, require : {FALSE},
     answers : {<<>>} \cup
         {<< <<[key |-> "files", torn |-> FALSE,
                items |-> << [path |-> p, has |-> Complete], [path |-> q, has |-> Complete] >>]>> >> :
             p, q \in TaskPaths}]

ASSUME \A x, y \in AnswerObjects :
    Answer!ContentsAreTheirs(<<x, y>>) /\ Answer!ApprovedAtOnce(<<x, y>>)
ASSUME \A job \in PatchTasks, model \in PatchModels :
    /\ Answer!PatchIsGrounded(job, model)
    /\ Answer!PathsAreDistinct(job, model)
    /\ Answer!OutsideIsTheLastResort(job, model)
\* A file without a change_type takes the place of the next one: without its guard the
\* first claim fails.
ASSUME LET cut == [key |-> "files", torn |-> FALSE,
                   items |-> << [path |-> "a", has |-> {"content"}], [path |-> "b", has |-> Complete] >>]
       IN Answer!_parse_llm_patch_response(<<cut>>) = << [path |-> "a", content |-> "b"] >>
\* The attempts end with the first answer that parses, and with an error of another kind.
ASSUME LET good == <<[key |-> "spec", torn |-> FALSE, items |-> <<>>]>>
       IN /\ Answer!generate_spec_with_retry(<<good \o good, good>>, {}) = 2
          /\ Answer!generate_spec_with_retry(<<good \o good, good>>, {2}) = 0
          /\ Answer!generate_code_with_retry(<<good, good>>, {}) = 0
          /\ Answer!legacy_generate_review_with_retry(<<<<>>, good>>, {}) = 2
\* Whatever the model answers, failing tests stay failing and the last patch is kept.
ASSUME LET patch == <<[key |-> "files", torn |-> FALSE,
                       items |-> <<[path |-> "a", has |-> Complete]>>]>>
           loop == Answer!execute_fix_loop([failed |-> 1, errors |-> 0], "pytest",
                                           <<<<patch, patch>>, <<<<>>, <<>>>>>>)
       IN ~loop.success /\ loop.fix = 1

-----------------------------------------------------------------------------
(***************************************************************************)
(* So is what the scanner makes of issues: two issues, each usable or not, *)
(* and one with every choice of words, labels and comments.                *)
(***************************************************************************)
Triage == INSTANCE IssueTriage

PlainIssue == [id |-> 1, title |-> "t", heading |-> {}, body |-> {}, null |-> FALSE,
               labels |-> {}, closed |-> FALSE, comments |-> <<>>, length |-> 0,
               sections |-> <<>>]
ListedIssues ==
    {[PlainIssue EXCEPT !.id = id, !.title = title, !.body = body, !.null = null,
                        !.heading = heading] :
        id \in 0 .. 2, title \in {"short", "t"}, body \in {{}, {"duplicate of"}},
        null \in BOOLEAN, heading \in {{"spam"}, {"fix"}}}
WordyIssues ==
    {[PlainIssue EXCEPT !.heading = heading, !.body = body, !.labels = labels,
                        !.length = length, !.comments = comments] :
        heading \in SUBSET {"add", "and"}, body \in SUBSET {"api", "code", "how"},
        labels \in SUBSET {"agent:fixed", "asap", ""}, length \in {1, 4},
        comments \in UpTo(1, [words : SUBSET {"critical", "minor", "fix", "test"},
                              length : {0, 3}, sections : {<<>>}])}

ASSUME \A issues \in UpTo(2, ListedIssues), processed \in SUBSET {"t"} :
    Triage!EachIsPassedOnOnce(issues, processed) /\ Triage!SummaryAddsUp(issues)
ASSUME \A issue \in WordyIssues : Triage!CommentsOnlyRaise(issue)
\* One issue without a description stops the scan of all: nothing is passed on.
ASSUME LET context == [issues |-> <<PlainIssue, [PlainIssue EXCEPT !.id = 2, !.null = TRUE]>>,
                       artifacts |-> <<>>, client |-> FALSE, fetched |-> <<>>, unreachable |-> FALSE]
       IN /\ Triage!run(context, {}, {}) = "raises"
          /\ Triage!run([context EXCEPT !.issues = <<PlainIssue>>], {}, {}) = "SUCCESS"
\* The label of a fixed issue makes it a bug, and a box is a criterion twice.
ASSUME /\ Triage!classify_issue_type({"add"}, {"agent:fixed"}) = "bug"
       /\ Triage!extract_acceptance_criteria(<<[mark |-> "box", text |-> "a"]>>)
             = <<[text |-> "a", boxed |-> TRUE], [text |-> "a", boxed |-> FALSE]>>

Init ==
    /\ component \in {"lifecycle", "limiter", "breaker", "ingestion"}
    /\ Lifecycle!Init /\ Limiter!Init /\ Breaker!Init /\ Ingestion!Init
    /\ component # "ingestion" => old = 0

lifecycleVars == <<stage, open, comment, scan, queue, worker, remembered, pulls,
                   older, faults>>
limiterVars == <<memory, count, ttl, first, admitted, lost>>
breakerVars == <<state, failureCount, successCount, age, pc, healthy>>
ingestionVars == <<run, made, waiting, line, unfinished, shutdown, task, kept, flushed,
                   old, given, verdict, refusals>>

Next ==
    \/ /\ component = "lifecycle" /\ Lifecycle!Next
       /\ UNCHANGED <<component, limiterVars, breakerVars, ingestionVars>>
    \/ /\ component = "limiter" /\ Limiter!Next
       /\ UNCHANGED <<component, lifecycleVars, breakerVars, ingestionVars>>
    \/ /\ component = "breaker" /\ Breaker!Next
       /\ UNCHANGED <<component, lifecycleVars, limiterVars, ingestionVars>>
    \/ /\ component = "ingestion" /\ Ingestion!Next
       /\ UNCHANGED <<component, lifecycleVars, limiterVars, breakerVars>>

vars == <<component, lifecycleVars, limiterVars, breakerVars, ingestionVars>>

Fairness ==
    \/ component = "lifecycle" /\ Lifecycle!Fairness
    \/ component = "limiter" /\ Limiter!Fairness
    \/ component = "breaker" /\ Breaker!Fairness
    \/ component = "ingestion" /\ Ingestion!Fairness

Spec == Init /\ [][Next]_vars /\ Fairness

-----------------------------------------------------------------------------
\* An issue is closed on account of merged work, and loses the label fixed to older
\* scans alone (IssueLifecycle).
LabelsFollowWork == Lifecycle!LabelsFollowWork

\* An accepted issue gets a pull request, or stays off the page (IssueLifecycle).
WorkIsDelivered == (component = "lifecycle") => Lifecycle!WorkIsDelivered

\* No span of a window admits more than twice the limit (RateLimiter).
AtMostTwiceTheLimit == Limiter!AtMostTwiceTheLimit

\* A counter ends unless the setting of its life was lost (RateLimiter).
CountersExpire == (component = "limiter") => Limiter!CountersExpire

\* A healthy service is called again (CircuitBreaker).
Recovers == (component = "breaker") => Breaker!Recovers

\* An ingestion ends, all its groups accounted for (IngestionPipeline).
IngestionEnds == (component = "ingestion") => Ingestion!IngestionEnds
=============================================================================
