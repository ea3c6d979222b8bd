----------------------------- MODULE CiIncident -----------------------------
(***************************************************************************)
(* CI incidents: the monitor job that looks at CI runs, an operator who    *)
(* asks for the pipeline by hand, and the handoff agent that opens one     *)
(* issue for a failed run or adds to the one it finds                      *)
(* (scheduler/jobs/ci_monitor.py, pipelines/ci_scanner_pipeline.yaml,      *)
(* agents/ci_incident_handoff.py, agents/github_client.py).                *)
(*                                                                         *)
(* An issue is known to the agent by its title: "run#<id> <conclusion>"    *)
(* after a prefix that names the repository.  A CI run that is run again   *)
(* keeps its id and may end in another way.                                *)
(***************************************************************************)
EXTENDS Naturals, Sequences

CONSTANTS CiRuns,          \* the ids of CI runs, numbers
          Handoffs,        \* the pipeline runs that may be started, 1..n
          IncidentPage,    \* how many open issues a search reads (50 in the code)
          MaxEvents        \* CI reruns, closed issues, restarts and lost answers

CiIncidentAssumption ==
    /\ CiRuns \subseteq Nat \ {0}
    /\ IncidentPage \in Nat \ {0}
    /\ MaxEvents \in Nat

VARIABLES conclusion,   \* CI run -> how it ended, or "running"
          observed,     \* the ids the monitor has processed, in memory
          handoff,      \* pipeline run -> where it is and what it has seen
          incidents,    \* the issues opened so far, oldest first
          events

vars == <<conclusion, observed, handoff, incidents, events>>

Conclusions == {"success", "failure", "timed_out"}
Idle == [pc |-> "idle", run |-> 0, page |-> {}, found |-> 0]

Init ==
    /\ conclusion = [r \in CiRuns |-> "running"]
    /\ observed = {}
    /\ handoff = [h \in Handoffs |-> Idle]
    /\ incidents = <<>>
    /\ events = 0

-----------------------------------------------------------------------------
(* The hosting service.                                                    *)

\* One of the bounded events happens.
Event == events < MaxEvents /\ events' = events + 1

CiEnds(r, c) ==
    /\ conclusion[r] = "running"
    /\ conclusion' = [conclusion EXCEPT ![r] = c]
    /\ UNCHANGED <<observed, handoff, incidents, events>>

CiReruns(r) ==
    /\ conclusion[r] # "running"
    /\ conclusion' = [conclusion EXCEPT ![r] = "running"]
    /\ Event
    /\ UNCHANGED <<observed, handoff, incidents>>

Resolve(i) ==
    /\ incidents[i].open
    /\ incidents' = [incidents EXCEPT ![i].open = FALSE]
    /\ Event
    /\ UNCHANGED <<conclusion, observed, handoff>>

-----------------------------------------------------------------------------
(* Who starts the pipeline.                                                *)

CountsAsFailed(c) == c \in {"failure", "timed_out"}

\* The condition of the handoff step is narrower than the monitor's test: the
\* pipeline of a run that timed out or was cancelled ends with success and
\* hands nothing off.
StepCondition(c) == c = "failure"

\* The analyser comes first and succeeds on whatever it is given: a run with no
\* failed jobs, as the monitor sends it, is analysed as a "default-test".
Analysed(r) ==
    [Idle EXCEPT !.pc = IF StepCondition(conclusion[r]) THEN "search" ELSE "skipped",
                 !.run = r]

Start(h, r) ==
    /\ handoff[h] = Idle
    /\ \A g \in Handoffs : g < h => handoff[g] # Idle
    /\ handoff' = [handoff EXCEPT ![h] = Analysed(r)]

\* What a hasty monitor would do: it marks every run it looks at.
MarkedAnyway(r) == observed \cup {r}

MarkedBy(r) == IF CountsAsFailed(conclusion[r]) THEN observed \cup {r} ELSE observed

\* The monitor is given run r: it triggers the pipeline for a failed run whose
\* id it has not processed.
Observe(r, h) ==
    /\ r \notin observed
    /\ observed' = MarkedBy(r)
    /\ IF CountsAsFailed(conclusion[r])
          THEN Start(h, r)
          ELSE UNCHANGED handoff
    /\ UNCHANGED <<conclusion, incidents, events>>

\* The command line submits the latest failed run of a branch, with no regard
\* to what the monitor has done.
Submit(r, h) ==
    /\ CountsAsFailed(conclusion[r])
    /\ Start(h, r)
    /\ UNCHANGED <<conclusion, observed, incidents, events>>

\* The processed ids live in the scheduler's memory.
SchedulerRestarts ==
    /\ observed # {}
    /\ observed' = {}
    /\ Event
    /\ UNCHANGED <<conclusion, handoff, incidents>>

-----------------------------------------------------------------------------
(* The handoff agent.                                                      *)

\* "run#1" is a substring of "run#12".
IsPrefix(r, t) == \E k \in {1, 10, 100} : t \div k = r

Matches(h, i) == IsPrefix(handoff[h].run, incidents[i].run)

Matching(h, page) == {i \in page : Matches(h, i)}

OpenIncidents == {i \in DOMAIN incidents : incidents[i].open}

\* The newest open issues with the incident labels, one page of them.
FirstPage == {i \in OpenIncidents :
    \E newer \in 0..(IncidentPage - 1) :
        newer = Len(SelectSeq(SubSeq(incidents, i + 1, Len(incidents)),
                              LAMBDA x : x.open))}

\* The search: the newest match is taken, and nothing is found otherwise.
Find(h) ==
    /\ handoff[h].pc = "search"
    /\ LET found == Matching(h, FirstPage)
       IN  handoff' = [handoff EXCEPT
              ![h].page = FirstPage,
              ![h].found = IF found = {} THEN 0
                           ELSE CHOOSE i \in found : \A j \in found : j <= i,
              ![h].pc = IF found = {} THEN "create" ELSE "enrich"]
    /\ UNCHANGED <<conclusion, observed, incidents, events>>

\* The one update comment of the issue is written, or written over; an error
\* here is swallowed, and the step succeeds all the same.
Enrich(h) ==
    /\ handoff[h].pc = "enrich"
    /\ handoff' = [handoff EXCEPT ![h].pc = "done"]
    /\ UNCHANGED <<conclusion, observed, incidents, events>>

\* The service opens the issue, whatever becomes of its answer.
Opened(h) ==
    Append(incidents, [run |-> handoff[h].run, by |-> h, open |-> TRUE])

Create(h) ==
    /\ handoff[h].pc \in {"create", "repeat"}
    /\ incidents' = Opened(h)
    /\ handoff' = [handoff EXCEPT ![h].pc = "done"]
    /\ UNCHANGED <<conclusion, observed, events>>

\* The answer is lost: the client sends the request once more, then gives up.
CreateUnanswered(h) ==
    /\ handoff[h].pc \in {"create", "repeat"}
    /\ incidents' = Opened(h)
    /\ handoff' = [handoff EXCEPT
          ![h].pc = IF handoff[h].pc = "create" THEN "repeat" ELSE "failed"]
    /\ Event
    /\ UNCHANGED <<conclusion, observed>>

\* The service refuses the search or the issue: the step fails, and the
\* pipeline goes on to its end (on_failure: continue).
HandoffFails(h) ==
    /\ handoff[h].pc \in {"search", "create", "repeat"}
    /\ handoff' = [handoff EXCEPT ![h].pc = "failed"]
    /\ UNCHANGED <<conclusion, observed, incidents, events>>

Next ==
    \/ \E r \in CiRuns, c \in Conclusions : CiEnds(r, c)
    \/ \E r \in CiRuns : CiReruns(r)
    \/ \E i \in DOMAIN incidents : Resolve(i)
    \/ \E r \in CiRuns, h \in Handoffs : Observe(r, h) \/ Submit(r, h)
    \/ SchedulerRestarts
    \/ \E h \in Handoffs :
          \/ Find(h) \/ Create(h) \/ CreateUnanswered(h) \/ HandoffFails(h)
          \/ Enrich(h)

Spec == Init /\ [][Next]_vars

-----------------------------------------------------------------------------
\* A processed run was handed off, or something visible explains why not: a
\* pipeline of the run is on its way, was skipped or failed, or an incident of
\* a longer number took its place; no failure is forgotten otherwise
\* (ci_monitor.py:61, ci_incident_handoff.py:250).
NoFailureIsForgotten ==
    \A r \in observed : \E h \in Handoffs :
        /\ handoff[h].run = r
        /\ handoff[h].pc = "done" =>
              \/ \E i \in DOMAIN incidents : incidents[i].run = r
              \/ IsPrefix(r, incidents[handoff[h].found].run)

\* Two issues of one CI run: one creation whose answer was lost, or one that
\* the other's search could not see, because it came later, was closed, or
\* was not on the page (ci_incident_handoff.py:250, github_client.py:416).
DuplicatesAreExplained ==
    \A i, j \in DOMAIN incidents :
        i < j /\ incidents[i].run = incidents[j].run =>
            \/ incidents[i].by = incidents[j].by
            \/ i \notin handoff[incidents[j].by].page

\* Every failure becomes an incident, and one incident.
OneIncidentPerFailure == NoFailureIsForgotten /\ DuplicatesAreExplained
=============================================================================
