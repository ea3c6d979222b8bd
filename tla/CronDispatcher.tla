--------------------------- MODULE CronDispatcher ---------------------------
(***************************************************************************)
(* The cron dispatcher of the gateway and the jobs that turn observed      *)
(* items (issues, CI runs) into pipeline triggers.  Requests reach it in   *)
(* threads of their own and no lock protects it: "run due" walks the jobs  *)
(* in registration order under one reading of the clock, a manual trigger  *)
(* runs one job with the items of its payload.  The jobs remember what     *)
(* they have processed, in memory.  MaxTime bounds the clock, MaxRequests  *)
(* the requests and MaxRestarts the restarts.                              *)
(***************************************************************************)
EXTENDS Naturals, Sequences

CONSTANTS Threads, Specs, Interval, IsEnabled, Items,
          MaxTime, MaxRequests, MaxRestarts

Never == MaxTime + 1

VARIABLES
    jobs,       \* the registered jobs, in order; << >> before the first request
    lastRun,    \* CronJob.last_run_at, Never for None
    processed,  \* _processed_issue_ids, _processed_run_ids
    thread,     \* what each request is doing
    now,
    starts,     \* history: the start times of the scheduled runs of each job
    overlapped, \* history: jobs of which two runs were at work together
    published,  \* history: the items whose trigger reached run_pipeline
    dropped,    \* history: the items whose trigger was lost with an exception
    requests, restarts

vars == <<jobs, lastRun, processed, thread, now, starts, overlapped, published,
          dropped, requests, restarts>>

Idle == [pc |-> "idle", clock |-> 0, todo |-> << >>, job |-> "none",
         trigger |-> "none", triggers |-> {}]

\* register_from_schedule_registry: the enabled schedules that have a handler.
Registered == SelectSeq(Specs, LAMBDA j : IsEnabled[j])
JobNames == {Specs[i] : i \in DOMAIN Specs}

CronAssumption == /\ MaxTime \in Nat /\ Interval \in [JobNames -> Nat]
                  /\ "none" \notin JobNames

Fresh ==
    /\ jobs = << >>
    /\ lastRun = [j \in JobNames |-> Never]
    /\ processed = [j \in JobNames |-> {}]
    /\ thread = [t \in Threads |-> Idle]
    /\ starts = [j \in JobNames |-> << >>] /\ overlapped = {}
    /\ published = [j \in JobNames |-> {}]
    /\ dropped = [j \in JobNames |-> {}]

Init == Fresh /\ now = 0 /\ requests = 0 /\ restarts = 0

\* The first request builds the dispatcher (_get_cron_dispatcher).
Dispatcher == IF jobs = << >> THEN Registered ELSE jobs

\* Mutant: due one unit early.
IsDueEarly(j, time) == lastRun[j] = Never \/ time + 1 >= lastRun[j] + Interval[j]
IsDue(j, time) == lastRun[j] = Never \/ time >= lastRun[j] + Interval[j]

Running(j) == \E t \in Threads : thread[t].job = j

\* Two runs of a job at work together are noted.
NoteStart(j) ==
    overlapped' = IF Running(j) THEN overlapped \cup {j} ELSE overlapped

\* POST /cron/run-due.
RunDue(t) ==
    /\ thread[t] = Idle /\ requests < MaxRequests
    /\ requests' = requests + 1
    /\ jobs' = Dispatcher
    /\ thread' = [thread EXCEPT ![t] = [Idle EXCEPT !.pc = "next", !.clock = now,
                                        !.todo = Dispatcher]]
    /\ UNCHANGED <<lastRun, processed, now, starts, overlapped, published,
                   dropped, restarts>>

\* The next job of the walk is skipped, or run with the items it observes.
NextJob(t) ==
    LET j == Head(thread[t].todo)
        walk == [thread[t] EXCEPT !.todo = Tail(@)] IN
    /\ thread[t].pc = "next" /\ thread[t].todo # << >>
    /\ IF IsDue(j, thread[t].clock)
       THEN /\ thread' = [thread EXCEPT ![t] =
                    [walk EXCEPT !.pc = "scan", !.job = j, !.trigger = "schedule"]]
            /\ starts' = [starts EXCEPT ![j] = Append(@, thread[t].clock)]
            /\ NoteStart(j)
       ELSE thread' = [thread EXCEPT ![t] = walk] /\ UNCHANGED <<starts, overlapped>>
    /\ UNCHANGED <<jobs, lastRun, processed, now, published, dropped, requests,
                   restarts>>

EndWalk(t) ==
    /\ thread[t].pc = "next" /\ thread[t].todo = << >>
    /\ thread' = [thread EXCEPT ![t] = Idle]
    /\ UNCHANGED <<jobs, lastRun, processed, now, starts, overlapped, published,
                   dropped, requests, restarts>>

\* POST /cron/jobs/{job_name}/trigger: due or not.
TriggerJob(t, j) ==
    /\ thread[t] = Idle /\ requests < MaxRequests
    /\ j \in {Dispatcher[i] : i \in DOMAIN Dispatcher}
    /\ requests' = requests + 1
    /\ jobs' = Dispatcher
    /\ thread' = [thread EXCEPT ![t] = [Idle EXCEPT !.pc = "scan", !.clock = now,
                                        !.job = j, !.trigger = "manual"]]
    /\ NoteStart(j)
    /\ UNCHANGED <<lastRun, processed, now, starts, published, dropped, restarts>>

\* The job keeps the items that it has not processed and that qualify ...
Scan(t) ==
    LET j == thread[t].job IN
    /\ thread[t].pc = "scan"
    /\ \E observed \in SUBSET Items :
        thread' = [thread EXCEPT ![t].pc = "mark",
                                 ![t].triggers = observed \ processed[j]]
    /\ UNCHANGED <<jobs, lastRun, processed, now, starts, overlapped, published,
                   dropped, requests, restarts>>

Marked(t) == thread[t].triggers

\* ... and marks them as processed before it publishes any of their triggers.
Mark(t) ==
    LET j == thread[t].job IN
    /\ thread[t].pc = "mark"
    /\ processed' = [processed EXCEPT ![j] = @ \cup Marked(t)]
    /\ thread' = [thread EXCEPT ![t].pc = "publish"]
    /\ UNCHANGED <<jobs, lastRun, now, starts, overlapped, published, dropped,
                   requests, restarts>>

\* _publish_triggers: one trigger reaches run_pipeline, whatever it answers.
Publish(t) ==
    LET j == thread[t].job IN
    /\ thread[t].pc = "publish"
    /\ \E i \in thread[t].triggers :
        /\ published' = [published EXCEPT ![j] = @ \cup {i}]
        /\ thread' = [thread EXCEPT ![t].triggers = @ \ {i}]
    /\ UNCHANGED <<jobs, lastRun, processed, now, starts, overlapped, dropped,
                   requests, restarts>>

\* The run is over, and its start is stamped; a walk goes on.
Stamped(t) ==
    /\ lastRun' = [lastRun EXCEPT ![thread[t].job] = thread[t].clock]
    /\ thread' = [thread EXCEPT ![t] =
            IF thread[t].trigger = "schedule"
            THEN [thread[t] EXCEPT !.pc = "next", !.job = "none", !.triggers = {}]
            ELSE Idle]

EndJob(t) ==
    /\ thread[t].pc = "publish" /\ thread[t].triggers = {}
    /\ Stamped(t)
    /\ UNCHANGED <<jobs, processed, now, starts, overlapped, published, dropped,
                   requests, restarts>>

\* The handler raises: the record is FAILED, the start is stamped all the same,
\* and the triggers that are left are dropped.
JobRaises(t) ==
    /\ thread[t].pc = "publish" /\ thread[t].triggers # {}
    /\ Stamped(t)
    /\ dropped' = [dropped EXCEPT ![thread[t].job] = @ \cup thread[t].triggers]
    /\ UNCHANGED <<jobs, processed, now, starts, overlapped, published, requests,
                   restarts>>

Tick ==
    /\ now < MaxTime
    /\ now' = now + 1
    /\ UNCHANGED <<jobs, lastRun, processed, thread, starts, overlapped,
                   published, dropped, requests, restarts>>

\* A new process starts with no dispatcher: every job is due at once.
Restart ==
    /\ restarts < MaxRestarts
    /\ restarts' = restarts + 1
    /\ jobs' = << >>
    /\ lastRun' = [j \in JobNames |-> Never]
    /\ processed' = [j \in JobNames |-> {}]
    /\ thread' = [t \in Threads |-> Idle]
    /\ starts' = [j \in JobNames |-> << >>] /\ overlapped' = {}
    /\ published' = [j \in JobNames |-> {}]
    /\ dropped' = [j \in JobNames |-> {}]
    /\ UNCHANGED <<now, requests>>

Next ==
    \/ \E t \in Threads : RunDue(t)
    \/ \E t \in Threads : NextJob(t)
    \/ \E t \in Threads : EndWalk(t)
    \/ \E t \in Threads, j \in JobNames : TriggerJob(t, j)
    \/ \E t \in Threads : Scan(t)
    \/ \E t \in Threads : Mark(t)
    \/ \E t \in Threads : Publish(t)
    \/ \E t \in Threads : EndJob(t)
    \/ \E t \in Threads : JobRaises(t)
    \/ Tick
    \/ Restart

Spec == Init /\ [][Next]_vars

-----------------------------------------------------------------------------
Apart(a, b, gap) == a >= b + gap \/ b >= a + gap

\* The scheduled runs of a job are its interval apart, counted from the clock
\* reading of the walk that started them, unless two of its runs (a manual one
\* counts) were at work together: the stamp comes after the handler, so nothing
\* else keeps a second run from starting, or an old stamp from coming last.
SpacedUnlessOverlapping ==
    \A j \in JobNames \ overlapped : \A i, k \in DOMAIN starts[j] :
        i < k => Apart(starts[j][i], starts[j][k], Interval[j])

InHand(j) ==
    UNION {thread[t].triggers : t \in {u \in Threads : thread[u].job = j /\ thread[u].pc = "publish"}}

\* What a job has marked as processed was published, will be by a request at
\* work, or was lost with an exception on the way: then no later scan, in this
\* process, comes back to it.
ProcessedAreAccountedFor ==
    \A j \in JobNames : processed[j] \subseteq published[j] \cup InHand(j) \cup dropped[j]

\* What the dispatcher keeps of its jobs.
ScheduleIsKept == SpacedUnlessOverlapping /\ ProcessedAreAccountedFor
=============================================================================
