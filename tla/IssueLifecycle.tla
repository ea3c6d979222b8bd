--------------------------- MODULE IssueLifecycle ---------------------------
(***************************************************************************)
(* An issue's way through the pipelines: scans read the labelled issues,   *)
(* plan them, queue a feature run and write the next stage label; workers  *)
(* run the queued pipelines, open a pull request and mark the issue fixed; *)
(* people merge; a later scan closes the issue.  All of them write labels  *)
(* computed from what they read when they began.                           *)
(* MaxQueue bounds the queue, MaxReworks the pull requests an issue gets  *)
(* after its first, MaxFaults the failing calls.                           *)
(***************************************************************************)
EXTENDS Naturals, FiniteSets, Sequences

CONSTANTS
    Issues,    \* issue numbers
    Rejected,  \* the issues the scanner finds invalid or duplicates
    FixTitles, \* the issues whose title has a closing word, as "fix"
    Scans, Workers, PageSize, MaxQueue, MaxReworks, MaxFaults

VARIABLES
    stage,       \* the stage label of each issue
    open,        \* the open issues
    comment,     \* the first planning comment: "none", "broken" or "complete"
    scan,        \* what each scan has read and is at
    queue,       \* feature runs to start
    worker,      \* the run of each worker
    remembered,  \* IDEMPOTENCY_STORE
    pulls,       \* pull requests, in order
    older,       \* history: issues marked fixed since each scan read them
    faults

vars == <<stage, open, comment, scan, queue, worker, remembered, pulls, older, faults>>

None == 0
NoScan == [pc |-> "idle", seen |-> [i \in {} |-> ""], todo |-> {}, issue |-> None,
           plan |-> "none"]
NoRun == [pc |-> "idle", issue |-> None, labels |-> ""]

Init ==
    /\ stage = [i \in Issues |-> "opened"]
    /\ open = Issues
    /\ comment = [i \in Issues |-> "none"]
    /\ scan = [s \in Scans |-> NoScan]
    /\ queue = <<>>
    /\ worker = [w \in Workers |-> NoRun]
    /\ remembered = {}
    /\ pulls = <<>>
    /\ older = [s \in Scans |-> {}]
    /\ faults = 0

Fails == faults < MaxFaults /\ faults' = faults + 1
Works == UNCHANGED faults

-----------------------------------------------------------------------------
\* repo_connector asks for the first page of open issues, which holds open pull
\* requests too, the newest first, and drops those and what has no stage label.
PullsOpen == {n \in DOMAIN pulls : pulls[n].state = "open"}
OnPage(i) == Cardinality({j \in open : j > i}) + Cardinality(PullsOpen) < PageSize
Labels == {"opened", "planning", "ready", "fixed"}
Listed == {i \in open : OnPage(i) /\ stage[i] \in Labels}

\* issue_scanner drops invalid issues and duplicates.  All issues have a description:
\* one without stops every scan that lists it (IssueTriage).
BeginScan(s) ==
    /\ scan[s].pc = "idle" /\ Len(queue) < MaxQueue
    /\ LET found == Listed \ Rejected IN
       /\ found # {}
       /\ scan' = [scan EXCEPT ![s] = [NoScan EXCEPT !.pc = "next", !.todo = found,
                                        !.seen = [i \in found |-> stage[i]]]]
    /\ older' = [older EXCEPT ![s] = {}]
    /\ UNCHANGED <<stage, open, comment, queue, worker, remembered, pulls, faults>>

\* The scan leaves its issue and goes on with the others.
LeaveIssue(s) ==
    scan' = [scan EXCEPT ![s] = IF scan[s].todo = {} THEN NoScan
                                ELSE [@ EXCEPT !.pc = "next", !.issue = None, !.plan = "none"]]
AtIssue(s, i, pc, plan) ==
    scan' = [scan EXCEPT ![s].pc = pc, ![s].issue = i, ![s].plan = plan,
                         ![s].todo = @ \ {i}]
AdvanceTo(s, pc) == scan' = [scan EXCEPT ![s].pc = pc]

\* Mutant: every issue is planned and dispatched.
NeverFixed(label) == FALSE
IsFixed(label) == label = "fixed"

\* _load_plan_from_issue: a ready issue's first planning comment, when the
\* comments can be read and its JSON is whole.
LoadedPlan(i) == IF comment[i] = "complete" THEN "complete" ELSE "none"

\* An issue that is ready is taken up with its plan, or with the need of one;
\* any other is moved to planning first.
TakeUp(s, i) ==
    LET label == scan[s].seen[i] IN
    /\ scan[s].pc = "next" /\ i \in scan[s].todo
    /\ ~IsFixed(label)
    /\ \/ /\ label = "ready" /\ LoadedPlan(i) = "complete" /\ Works
          /\ AtIssue(s, i, "dispatch", "complete")
       \/ /\ label = "ready" /\ LoadedPlan(i) # "complete" /\ Works
          /\ AtIssue(s, i, "plan", "none")
       \/ /\ label = "ready" /\ Fails
          /\ AtIssue(s, i, "plan", "none")
       \/ /\ label # "ready" /\ Works
          /\ AtIssue(s, i, "move", "none")
    /\ UNCHANGED <<stage, open, comment, queue, worker, remembered, pulls, older>>

\* _update_issue_stage_label: the labels as read, with another stage.  A failing
\* call is logged away.
WriteStage(i, target) ==
    \/ stage' = [stage EXCEPT ![i] = target] /\ Works
    \/ UNCHANGED stage /\ Fails

MoveToPlanning(s) ==
    /\ scan[s].pc = "move"
    /\ WriteStage(scan[s].issue, "planning")
    /\ AdvanceTo(s, "plan")
    /\ UNCHANGED <<open, comment, queue, worker, remembered, pulls, older>>

\* _build_issue_plan: the five planning agents, one after the other, any of
\* which may fail the plan, or leave a required part of it empty; then the
\* comment is created, or the first one updated.  A plan that fails or lacks a
\* part leaves the issue with the label it has.
PlanIssue(s) ==
    LET i == scan[s].issue IN
    /\ scan[s].pc = "plan"
    /\ \/ /\ Works
          /\ comment' = [comment EXCEPT ![i] = "complete"]
          /\ scan' = [scan EXCEPT ![s].pc = "dispatch", ![s].plan = "complete"]
       \/ /\ Fails  \* posting the comment
          /\ UNCHANGED comment
          /\ scan' = [scan EXCEPT ![s].pc = "dispatch", ![s].plan = "complete"]
       \/ /\ Fails  \* a part is empty
          /\ comment' = [comment EXCEPT ![i] = "broken"]
          /\ LeaveIssue(s)
       \/ /\ Fails  \* an agent
          /\ UNCHANGED comment
          /\ LeaveIssue(s)
    /\ UNCHANGED <<stage, open, queue, worker, remembered, pulls, older>>

\* _dispatch_pipeline with async_mode: the run is queued under a key made of
\* the labels the scan read, and no key is looked up before the run starts.
Dispatch(s) ==
    LET i == scan[s].issue IN
    /\ scan[s].pc = "dispatch" /\ scan[s].plan = "complete"
    /\ \/ /\ Works
          /\ queue' = Append(queue, [issue |-> i, labels |-> scan[s].seen[i]])
          /\ AdvanceTo(s, "ready")
       \/ /\ Fails
          /\ UNCHANGED queue
          /\ AdvanceTo(s, "fallback")
    /\ UNCHANGED <<stage, open, comment, worker, remembered, pulls, older>>

\* Mutant: a refused issue loses its stage label.
Unlabelled(label) == IF label = "ready" THEN "ready" ELSE "none"

\* Dispatched: the stage is ready.  Refused: ready again, or opened.
Fallback(label) == IF label = "ready" THEN "ready" ELSE "opened"
LabelDispatched(s) ==
    LET i == scan[s].issue IN
    /\ scan[s].pc \in {"ready", "fallback"}
    /\ WriteStage(i, IF scan[s].pc = "ready" THEN "ready" ELSE Fallback(scan[s].seen[i]))
    /\ LeaveIssue(s)
    /\ UNCHANGED <<open, comment, queue, worker, remembered, pulls, older>>

\* The decimal digits of n begin with those of m, so that the text #n holds #m.
StartsWith(n, m) == n = m \/ \E k \in 1..n : n \div (10 ^ k) = m

\* _find_related_merged_pr: by the branch's issue number, or by a title that has
\* a closing word together with a reference that only begins with the number.
MergedFor(i) ==
    {n \in DOMAIN pulls : /\ pulls[n].state = "merged"
                          /\ \/ pulls[n].issue = i
                             \/ /\ pulls[n].issue \in FixTitles
                                /\ StartsWith(pulls[n].issue, i)}

\* _process_fixed_issue.
ProcessFixedIssue(s, i) ==
    /\ scan[s].pc = "next" /\ i \in scan[s].todo
    /\ IsFixed(scan[s].seen[i])
    /\ \/ Works /\ open' = IF MergedFor(i) # {} THEN open \ {i} ELSE open
       \/ Fails /\ UNCHANGED open
    /\ LET rest == scan[s].todo \ {i} IN
       scan' = [scan EXCEPT ![s] = IF rest = {} THEN NoScan ELSE [@ EXCEPT !.todo = rest]]
    /\ UNCHANGED <<stage, comment, queue, worker, remembered, pulls, older>>

-----------------------------------------------------------------------------
\* A key that has been run suppresses the run until it expires.
Suppressed(run) == run \in remembered

\* A worker starts the first queued run, or drops it: its key has been run.
StartRun(w) ==
    /\ worker[w].pc = "idle" /\ queue # <<>>
    /\ queue' = Tail(queue)
    /\ worker' = IF Suppressed(Head(queue)) THEN worker
                 ELSE [worker EXCEPT ![w] = [pc |-> "work", issue |-> Head(queue).issue,
                                             labels |-> Head(queue).labels]]
    /\ UNCHANGED <<stage, open, comment, scan, remembered, pulls, older, faults>>

\* A branch that is there already is removed by the failed attempt to create it,
\* and the pull request on it closes; the patch goes to a branch of a new name.
PullsFor(i) == {n \in DOMAIN pulls : pulls[n].issue = i}
OnBranch(i) == {n \in PullsFor(i) : pulls[n].own /\ pulls[n].state # "closed"}
ClosePulls(ns) == [n \in DOMAIN pulls |->
    IF n \in ns THEN [pulls[n] EXCEPT !.state = IF @ = "open" THEN "closed" ELSE @,
                                      !.own = FALSE]
    ELSE pulls[n]]

Reworks == Len(pulls) - Cardinality({pulls[n].issue : n \in DOMAIN pulls})
MayPublish(i) == PullsFor(i) = {} \/ Reworks < MaxReworks

\* The feature pipeline publishes its patch, or fails, or finds nothing to publish.
Deliver(w) ==
    LET i == worker[w].issue IN
    /\ worker[w].pc = "work"
    /\ \/ /\ Works /\ MayPublish(i)
          /\ pulls' = Append(ClosePulls(OnBranch(i)),
                             [issue |-> i, state |-> "open", own |-> OnBranch(i) = {}])
          /\ worker' = [worker EXCEPT ![w].pc = "mark"]
       \/ /\ IF MayPublish(i) THEN Fails ELSE Works
          /\ UNCHANGED pulls
          /\ worker' = [worker EXCEPT ![w].pc = "end"]
    /\ UNCHANGED <<stage, open, comment, scan, queue, remembered, older>>

\* _mark_issue_as_fixed.
MarkIssueAsFixed(w) ==
    /\ worker[w].pc = "mark"
    /\ WriteStage(worker[w].issue, "fixed")
    /\ worker' = [worker EXCEPT ![w].pc = "end"]
    /\ older' = [s \in Scans |-> older[s] \cup {worker[w].issue}]
    /\ UNCHANGED <<open, comment, scan, queue, remembered, pulls>>

\* run_pipeline remembers the key when the run is over, whatever came of it.
EndRun(w) ==
    /\ worker[w].pc = "end"
    /\ remembered' = remembered \cup
            {[issue |-> worker[w].issue, labels |-> worker[w].labels]}
    /\ worker' = [worker EXCEPT ![w] = NoRun]
    /\ UNCHANGED <<stage, open, comment, scan, queue, pulls, older, faults>>

KeyExpires(key) ==
    /\ key \in remembered
    /\ remembered' = remembered \ {key}
    /\ UNCHANGED <<stage, open, comment, scan, queue, worker, pulls, older, faults>>

\* A person merges; no pipeline sets live_merge.
Merge(n) ==
    /\ n \in PullsOpen
    /\ pulls' = [pulls EXCEPT ![n].state = "merged"]
    /\ UNCHANGED <<stage, open, comment, scan, queue, worker, remembered, older, faults>>

ScanStep(s) ==
    \/ MoveToPlanning(s) \/ PlanIssue(s) \/ Dispatch(s) \/ LabelDispatched(s)
    \/ \E i \in Issues : TakeUp(s, i) \/ ProcessFixedIssue(s, i)
WorkerStep(w) == Deliver(w) \/ MarkIssueAsFixed(w) \/ EndRun(w)
Keys == [issue : Issues, labels : Labels]

Next ==
    \/ \E s \in Scans : BeginScan(s)
    \/ \E s \in Scans, i \in Issues : TakeUp(s, i)
    \/ \E s \in Scans : MoveToPlanning(s)
    \/ \E s \in Scans : PlanIssue(s)
    \/ \E s \in Scans : Dispatch(s)
    \/ \E s \in Scans : LabelDispatched(s)
    \/ \E s \in Scans, i \in Issues : ProcessFixedIssue(s, i)
    \/ \E w \in Workers : StartRun(w)
    \/ \E w \in Workers : Deliver(w)
    \/ \E w \in Workers : MarkIssueAsFixed(w)
    \/ \E w \in Workers : EndRun(w)
    \/ \E key \in Keys : KeyExpires(key)
    \/ \E n \in DOMAIN pulls : Merge(n)

\* The schedule keeps scanning, a scan and a run go on to their ends, a worker
\* takes queued work, keys expire, and people look at pull requests.
Fairness ==
    /\ \A s \in Scans : WF_vars(BeginScan(s)) /\ WF_vars(ScanStep(s))
    /\ \A w \in Workers : WF_vars(StartRun(w)) /\ WF_vars(WorkerStep(w))
    /\ \A key \in Keys : WF_vars(KeyExpires(key))
    /\ \A n \in 1..(MaxReworks + Cardinality(Issues)) : WF_vars(Merge(n))

Spec == Init /\ [][Next]_vars /\ Fairness

-----------------------------------------------------------------------------
\* An issue is closed on account of merged work for an issue whose number begins
\* with its own, however its labels were overwritten meanwhile.
ClosedByMergedWork ==
    \A i \in Issues \ open :
        \E n \in DOMAIN pulls : pulls[n].state = "merged" /\ StartsWith(pulls[n].issue, i)

\* The label that says an issue is fixed is lost to a scan that read the issue
\* before it was fixed, and to nothing else.
FixedIsLostToOlderScans ==
    \A i \in Issues :
        stage[i] = "fixed" /\ stage'[i] # "fixed"
            => \E s \in Scans : scan[s].issue = i /\ i \in older[s]

\* What labels and states of issues follow (issue_pipeline_dispatcher.py): merged
\* work, and labels as they were read.
LabelsFollowWork == []ClosedByMergedWork /\ [][FixedIsLostToOlderScans]_vars

\* An accepted issue gets a pull request in the end, or stays off the first page.
WorkIsDelivered ==
    \A i \in Issues \ Rejected :
        <>(PullsFor(i) # {}) \/ <>[](~OnPage(i))
=============================================================================
