---------------------------- MODULE RedisTaskQueue ----------------------------
(***************************************************************************)
(* The Redis task queue (scheduler/queue_backends.py) with the gateway's   *)
(* drain loop (scheduler/gateway.py) as its consumer.  The keys of Redis   *)
(* are shared by the gateway processes; each Redis command is one step,    *)
(* and may fail.  A process has one drain loop per slot: the autodrain     *)
(* thread and a call of POST /queue/drain.                                 *)
(*                                                                         *)
(* Tasks are numbered in the order in which they are pushed.               *)
(***************************************************************************)
EXTENDS Naturals, Sequences

CONSTANTS Tasks,        \* 1 .. the number of tasks
          Processes,    \* the gateway processes that share the Redis instance
          Slots,        \* the drain loops of a process
          MaxItems,     \* max_items of claim_next
          MaxRuns,      \* bound on the count of the runs of a task
          MaxCrashes,   \* bound on the process crashes
          MaxFaults     \* bound on the Redis commands that fail

ASSUME QueueConstants ==
    /\ Tasks \subseteq Nat \ {0}
    /\ MaxItems \in Nat \ {0} /\ MaxRuns \in Nat
    /\ MaxCrashes \in Nat /\ MaxFaults \in Nat

VARIABLES
    \* in Redis: the two lists, the payload keys and the status keys
    queue, processing, payload, taskStatus,
    submit,       \* how far the enqueue call of a task has come
    process,      \* the state of a process
    remembered,   \* IDEMPOTENCY_STORE of a process: the tasks it has run
    \* a drain loop: where it is, the tasks it claimed, the status it will report
    pc, claimed, verdict,
    runs,         \* history: how often the pipeline of a task was started, at most MaxRuns
    handled,      \* history: the tasks of which a run has returned
    crashes, faults

redis   == <<queue, processing, payload, taskStatus>>
drain   == <<pc, claimed, verdict>>
history == <<runs, handled>>
bounds  == <<crashes, faults>>
vars    == <<redis, submit, process, remembered, drain, history, bounds>>

Drainers == Processes \X Slots
Home(d) == d[1]

\* A run is acknowledged with mark_succeeded or mark_failed, or with mark_failed
\* by the handler of an exception.
Verdicts == {"SUCCEEDED", "FAILED", "EXCEPTION"}

\* Mutant: the handler of an exception leaves its own mark.
ReportedRaw(v) == v

Reported(v) == IF v = "SUCCEEDED" THEN "SUCCEEDED" ELSE "FAILED"

Elements(list) == {list[i] : i \in 1 .. Len(list)}

Init ==
    /\ queue = <<>> /\ processing = <<>> /\ payload = {}
    /\ taskStatus = [t \in Tasks |-> "NONE"]
    /\ submit = [t \in Tasks |-> "new"]
    /\ process = [p \in Processes |-> "up"]
    /\ remembered = [p \in Processes |-> {}]
    /\ pc = [d \in Drainers |-> "idle"]
    /\ claimed = [d \in Drainers |-> <<>>]
    /\ verdict = [d \in Drainers |-> "NONE"]
    /\ runs = [t \in Tasks |-> 0]
    /\ handled = {}
    /\ crashes = 0 /\ faults = 0

-----------------------------------------------------------------------------
(* enqueue: three commands, the list first *)

Push(t) ==
    /\ submit[t] = "new"
    /\ \A u \in Tasks : u < t => submit[u] # "new"
    /\ queue' = Append(queue, t)
    /\ submit' = [submit EXCEPT ![t] = "pushed"]
    /\ UNCHANGED <<processing, payload, taskStatus, process, remembered, drain,
                   history, bounds>>

StorePayload(t) ==
    /\ submit[t] = "pushed"
    /\ payload' = payload \cup {t}
    /\ submit' = [submit EXCEPT ![t] = "stored"]
    /\ UNCHANGED <<queue, processing, taskStatus, process, remembered, drain,
                   history, bounds>>

StampQueued(t) ==
    /\ submit[t] = "stored"
    /\ taskStatus' = [taskStatus EXCEPT ![t] = "QUEUED"]
    /\ submit' = [submit EXCEPT ![t] = "accepted"]
    /\ UNCHANGED <<queue, processing, payload, process, remembered, drain,
                   history, bounds>>

\* A command fails or the process dies: the caller gets an error, the task
\* stays as far as it came.
EnqueueFails(t) ==
    /\ submit[t] \in {"pushed", "stored"}
    /\ faults < MaxFaults
    /\ faults' = faults + 1
    /\ submit' = [submit EXCEPT ![t] = "error"]
    /\ UNCHANGED <<redis, process, remembered, drain, history, crashes>>

-----------------------------------------------------------------------------
(* claim_next: each task is moved, then stamped *)

At(d, label) == process[Home(d)] = "up" /\ pc[d] = label

Goto(d, label) == pc' = [pc EXCEPT ![d] = label]

\* A poll of an empty queue changes nothing and is left out.
BeginClaim(d) ==
    /\ At(d, "idle")
    /\ queue # <<>>
    /\ Goto(d, "claim")
    /\ UNCHANGED <<redis, submit, process, remembered, claimed, verdict, history,
                   bounds>>

\* Mutant: the head is read and not removed from the queue.
MoveToProcessingByCopy ==
    /\ processing' = Append(processing, Head(queue))
    /\ UNCHANGED queue

\* _move_to_processing: lmove from the left of the queue to the right
MoveToProcessing ==
    /\ processing' = Append(processing, Head(queue))
    /\ queue' = Tail(queue)

Move(d) ==
    /\ At(d, "claim")
    /\ queue # <<>> /\ Len(claimed[d]) < MaxItems
    /\ MoveToProcessing
    /\ claimed' = [claimed EXCEPT ![d] = Append(@, Head(queue))]
    /\ Goto(d, "stamp")
    /\ UNCHANGED <<payload, taskStatus, submit, process, remembered, verdict,
                   history, bounds>>

StampRunning(d) ==
    /\ At(d, "stamp")
    /\ taskStatus' = [taskStatus EXCEPT ![claimed[d][Len(claimed[d])]] = "RUNNING"]
    /\ Goto(d, "claim")
    /\ UNCHANGED <<queue, processing, payload, submit, process, remembered,
                   claimed, verdict, history, bounds>>

EndClaim(d) ==
    /\ At(d, "claim")
    /\ queue = <<>> \/ Len(claimed[d]) = MaxItems
    /\ Goto(d, IF claimed[d] = <<>> THEN "idle" ELSE "run")
    /\ UNCHANGED <<redis, submit, process, remembered, claimed, verdict, history,
                   bounds>>

-----------------------------------------------------------------------------
(* _drain_queue_once: run_pipeline and the acknowledgement, task by task *)

Task(d) == Head(claimed[d])

\* run_pipeline looks its idempotency key up before it starts the engine.
SuppressDuplicate(d) ==
    /\ At(d, "run")
    /\ Task(d) \in remembered[Home(d)]
    /\ verdict' = [verdict EXCEPT ![d] = "SUCCEEDED"]
    /\ Goto(d, "ack")
    /\ UNCHANGED <<redis, submit, process, remembered, claimed, history, bounds>>

StartRun(d) ==
    /\ At(d, "run")
    /\ Task(d) \notin remembered[Home(d)]
    /\ runs' = [runs EXCEPT ![Task(d)] = IF @ < MaxRuns THEN @ + 1 ELSE @]
    /\ Goto(d, "execute")
    /\ UNCHANGED <<redis, submit, process, remembered, claimed, verdict, handled,
                   bounds>>

\* The run returns and is remembered, is answered with an error, or raises.
EndRun(d) ==
    /\ At(d, "execute")
    /\ handled' = handled \cup {Task(d)}
    /\ \E v \in Verdicts :
         /\ verdict' = [verdict EXCEPT ![d] = v]
         /\ remembered' = [remembered EXCEPT ![Home(d)] =
                              IF v = "SUCCEEDED" THEN @ \cup {Task(d)} ELSE @]
    /\ Goto(d, "ack")
    /\ UNCHANGED <<redis, submit, process, claimed, runs, bounds>>

\* lrem(list, 1, t)
Without(list, t) ==
    IF t \notin Elements(list) THEN list
    ELSE LET i == CHOOSE j \in 1 .. Len(list) :
                    list[j] = t /\ \A k \in 1 .. j - 1 : list[k] # t
         IN SubSeq(list, 1, i - 1) \o SubSeq(list, i + 1, Len(list))

\* _ack_processing_task: the entry is found through its payload key ...
AckRemove(d) ==
    /\ At(d, "ack")
    /\ processing' = IF Task(d) \in payload THEN Without(processing, Task(d))
                                            ELSE processing
    /\ Goto(d, "delete")
    /\ UNCHANGED <<queue, payload, taskStatus, submit, process, remembered,
                   claimed, verdict, history, bounds>>

\* ... and that key is deleted.
AckDelete(d) ==
    /\ At(d, "delete")
    /\ payload' = payload \ {Task(d)}
    /\ Goto(d, "report")
    /\ UNCHANGED <<queue, processing, taskStatus, submit, process, remembered,
                   claimed, verdict, history, bounds>>

Report(d) ==
    /\ At(d, "report")
    /\ taskStatus' = [taskStatus EXCEPT ![Task(d)] = Reported(verdict[d])]
    /\ claimed' = [claimed EXCEPT ![d] = Tail(@)]
    /\ verdict' = [verdict EXCEPT ![d] = "NONE"]
    /\ Goto(d, IF Len(claimed[d]) = 1 THEN "idle" ELSE "run")
    /\ UNCHANGED <<queue, processing, payload, submit, process, remembered,
                   history, bounds>>

Acknowledging(d) == \E label \in {"ack", "delete", "report"} : At(d, label)

\* A command of the acknowledgement fails: the handler marks the task as failed.
AcknowledgeFails(d) ==
    /\ Acknowledging(d) /\ verdict[d] # "EXCEPTION"
    /\ faults < MaxFaults
    /\ faults' = faults + 1
    /\ verdict' = [verdict EXCEPT ![d] = "EXCEPTION"]
    /\ Goto(d, "ack")
    /\ UNCHANGED <<redis, submit, process, remembered, claimed, history, crashes>>

\* A command of the claim or of that handler fails: the loop ends, and what it
\* claimed stays in the processing list.
DrainFails(d) ==
    /\ \/ At(d, "claim") \/ At(d, "stamp")
       \/ Acknowledging(d) /\ verdict[d] = "EXCEPTION"
    /\ faults < MaxFaults
    /\ faults' = faults + 1
    /\ claimed' = [claimed EXCEPT ![d] = <<>>]
    /\ verdict' = [verdict EXCEPT ![d] = "NONE"]
    /\ Goto(d, "idle")
    /\ UNCHANGED <<redis, submit, process, remembered, history, crashes>>

\* The failure of lrem alone is swallowed.
RemoveFails(d) ==
    /\ At(d, "ack")
    /\ Task(d) \in payload
    /\ faults < MaxFaults
    /\ faults' = faults + 1
    /\ Goto(d, "delete")
    /\ UNCHANGED <<redis, submit, process, remembered, claimed, verdict, history,
                   crashes>>

-----------------------------------------------------------------------------
(* A process dies, starts, and takes back what is in the processing list *)

Crash(p) ==
    /\ process[p] # "down"
    /\ crashes < MaxCrashes
    /\ crashes' = crashes + 1
    /\ process' = [process EXCEPT ![p] = "down"]
    /\ remembered' = [remembered EXCEPT ![p] = {}]
    /\ pc' = [d \in Drainers |-> IF Home(d) = p THEN "idle" ELSE pc[d]]
    /\ claimed' = [d \in Drainers |-> IF Home(d) = p THEN <<>> ELSE claimed[d]]
    /\ verdict' = [d \in Drainers |-> IF Home(d) = p THEN "NONE" ELSE verdict[d]]
    /\ UNCHANGED <<redis, submit, history, faults>>

Start(p) ==
    /\ process[p] = "down"
    /\ process' = [process EXCEPT ![p] = "requeue"]
    /\ UNCHANGED <<redis, submit, remembered, drain, history, bounds>>

\* Mutants: the task taken back is lost; it goes to the end of the queue.
MoveBackLost ==
    /\ processing' = SubSeq(processing, 1, Len(processing) - 1)
    /\ UNCHANGED queue
MoveBackToEnd ==
    /\ queue' = Append(queue, processing[Len(processing)])
    /\ processing' = SubSeq(processing, 1, Len(processing) - 1)

\* _move_processing_back_to_queue: lmove from the right to the left
MoveBack ==
    /\ queue' = <<processing[Len(processing)]>> \o queue
    /\ processing' = SubSeq(processing, 1, Len(processing) - 1)

\* One pass of the loop of _requeue_processing_tasks, whoever claimed the task.
Requeue(p) ==
    /\ process[p] = "requeue"
    /\ processing # <<>>
    /\ MoveBack
    /\ UNCHANGED <<payload, taskStatus, submit, process, remembered, drain,
                   history, bounds>>

EndRequeue(p) ==
    /\ process[p] = "requeue"
    /\ processing = <<>>
    /\ process' = [process EXCEPT ![p] = "up"]
    /\ UNCHANGED <<redis, submit, remembered, drain, history, bounds>>

-----------------------------------------------------------------------------

Enqueue(t) == Push(t) \/ StorePayload(t) \/ StampQueued(t)

DrainOnce(d) ==
    \/ BeginClaim(d) \/ Move(d) \/ StampRunning(d) \/ EndClaim(d)
    \/ SuppressDuplicate(d) \/ StartRun(d) \/ EndRun(d)
    \/ AckRemove(d) \/ AckDelete(d) \/ Report(d)

Recover(p) == Start(p) \/ Requeue(p) \/ EndRequeue(p)

Next ==
    \/ \E t \in Tasks : Enqueue(t) \/ EnqueueFails(t)
    \/ \E d \in Drainers : DrainOnce(d) \/ AcknowledgeFails(d) \/ DrainFails(d) \/ RemoveFails(d)
    \/ \E p \in Processes : Crash(p) \/ Recover(p)

Spec == Init /\ [][Next]_vars

\* The autodrain threads poll for ever and runs return; a container that died
\* is started again.
FairSpec ==
    /\ Spec
    /\ \A t \in Tasks : WF_vars(StorePayload(t) \/ StampQueued(t))
    /\ \A d \in Drainers : WF_vars(DrainOnce(d))
    /\ \A p \in Processes : WF_vars(Recover(p))

-----------------------------------------------------------------------------

\* The lists hold tasks, and the counters keep to their bounds.
TypeOK ==
    /\ queue \in Seq(Tasks) /\ processing \in Seq(Tasks)
    /\ payload \subseteq Tasks /\ handled \subseteq Tasks
    /\ taskStatus \in [Tasks -> {"NONE", "QUEUED", "RUNNING", "SUCCEEDED", "FAILED"}]
    /\ submit \in [Tasks -> {"new", "pushed", "stored", "accepted", "error"}]
    /\ process \in [Processes -> {"up", "down", "requeue"}]
    /\ remembered \in [Processes -> SUBSET Tasks]
    /\ pc \in [Drainers -> {"idle", "claim", "stamp", "run", "execute", "ack",
                            "delete", "report"}]
    /\ claimed \in [Drainers -> Seq(Tasks)]
    /\ verdict \in [Drainers -> Verdicts \cup {"NONE"}]
    /\ runs \in [Tasks -> 0 .. MaxRuns]
    /\ crashes \in 0 .. MaxCrashes /\ faults \in 0 .. MaxFaults

\* The two lists, end to end, are one backlog: claims, crashes and the recovery
\* of a starting process move the border between them and lose, duplicate or
\* reorder nothing; a task leaves it only when a run of it has returned.
Backlog == INSTANCE AtLeastOnceQueue WITH backlog <- processing \o queue

ImplementsAtLeastOnce == Backlog!Spec

\* With a single process, a task is run once and once more for each restart,
\* however its acknowledgement fails.
RedeliveredOnlyByRestart == \A t \in Tasks : runs[t] <= 1 + crashes

\* A task in the queue is run in the end, over the crashes of the process that
\* claimed it, unless a Redis command fails: a claim that fails leaves its tasks
\* to the next restart.
EventuallyHandled ==
    \A t \in Tasks : submit[t] = "pushed" ~> t \in handled \/ faults > 0

\* A task that a consumer reported as done, by commands that all succeeded, is
\* not handed out again.
AckedStaysAcked ==
    \A t \in Tasks : taskStatus[t] = "SUCCEEDED" /\ faults = 0 =>
        t \notin Elements(processing \o queue)
=============================================================================
