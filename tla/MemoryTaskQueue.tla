--------------------------- MODULE MemoryTaskQueue ---------------------------
(***************************************************************************)
(* The in-memory task queue and the threads that drain it: the autodrain   *)
(* worker, started and stopped with the application, and one drain request.*)
(* A worker that outlives the shutdown timeout is forgotten but keeps      *)
(* running, so that a later start-up may have two of them.  Tasks are      *)
(* numbered in the order of their submission.  MaxStarts bounds the        *)
(* start-ups.                                                              *)
(***************************************************************************)
EXTENDS Naturals, Sequences, FiniteSets

CONSTANTS Tasks, MaxItems, MaxStarts

QueueAssumption ==
    /\ Tasks \subseteq Nat /\ MaxItems \in Nat \ {0} /\ MaxStarts \in Nat

Workers == 1..MaxStarts
Request == 0
Loops == Workers \cup {Request}

VARIABLES
    status,   \* _tasks: the status of each task
    queue,    \* _queue: the ids in order
    claimed,  \* the tasks a drain loop has claimed and not yet marked
    called,   \* the loops whose first task has been given to run_pipeline
    alive,    \* the drain loops that run
    handle,   \* QUEUE_AUTODRAIN_THREAD: a worker, or 0 for None
    stop,     \* QUEUE_AUTODRAIN_STOP
    starts,   \* start-ups so far
    runs      \* history: how often run_pipeline was called for a task

vars == <<status, queue, claimed, called, alive, handle, stop, starts, runs>>

Init ==
    /\ status = [t \in Tasks |-> "NONE"]
    /\ queue = << >>
    /\ claimed = [l \in Loops |-> << >>] /\ called = {}
    /\ alive = {}
    /\ handle = 0 /\ stop = FALSE /\ starts = 0
    /\ runs = [t \in Tasks |-> 0]

Enqueue(t) ==
    /\ status[t] = "NONE" /\ \A s \in Tasks : s < t => status[s] # "NONE"
    /\ status' = [status EXCEPT ![t] = "QUEUED"]
    /\ queue' = Append(queue, t)
    /\ UNCHANGED <<claimed, called, alive, handle, stop, starts, runs>>

\* Numbers in ascending order.
InOrder(S) ==
    CHOOSE s \in [1 .. Cardinality(S) -> S] : \A i, k \in DOMAIN s : i < k => s[i] < s[k]

\* The places of the queued ones among the first n ids.
QueuedAmong(n) == {i \in 1 .. n : status[queue[i]] = "QUEUED"}
Enough(n) == n = Len(queue) \/ Cardinality(QueuedAmong(n)) = MaxItems

\* claim_next under the lock: ids are taken in order until there are enough
\* queued ones; the others are passed over.
ClaimNext(l) ==
    /\ l \in alive /\ claimed[l] = << >> /\ queue # << >>
    /\ l \in Workers => ~stop
    /\ \E n \in 0 .. Len(queue) :
        LET places == InOrder(QueuedAmong(n)) IN
        /\ Enough(n) /\ \A m \in 0 .. n - 1 : ~Enough(m)
        /\ queue' = SubSeq(queue, n + 1, Len(queue))
        /\ claimed' = [claimed EXCEPT ![l] = [i \in DOMAIN places |-> queue[places[i]]]]
        /\ status' = [t \in Tasks |->
                         IF \E i \in QueuedAmong(n) : queue[i] = t THEN "RUNNING" ELSE status[t]]
    /\ UNCHANGED <<called, alive, handle, stop, starts, runs>>

\* run_pipeline is called for the first claimed task.
RunTask(l) ==
    LET t == Head(claimed[l]) IN
    /\ claimed[l] # << >> /\ l \notin called
    /\ called' = called \cup {l}
    /\ runs' = [runs EXCEPT ![t] = @ + 1]
    /\ UNCHANGED <<status, queue, claimed, alive, handle, stop, starts>>

\* Mutant: the task stays in the batch that was claimed.
DoneKept(l) == claimed[l]
Done(l) == Tail(claimed[l])

\* It answered, answered with an error, or raised.
MarkTask(l, verdict) ==
    LET t == Head(claimed[l]) IN
    /\ l \in called
    /\ called' = called \ {l}
    /\ status' = [status EXCEPT ![t] = verdict]
    /\ claimed' = [claimed EXCEPT ![l] = Done(l)]
    /\ UNCHANGED <<queue, alive, handle, stop, starts, runs>>

\* startup_queue_autodrain_worker, when it does not find its thread alive.
StartUp ==
    LET w == starts + 1 IN
    /\ w \in Workers /\ handle \notin alive \ {Request}
    /\ starts' = w /\ handle' = w
    /\ alive' = alive \cup {w}
    /\ stop' = FALSE
    /\ UNCHANGED <<status, queue, claimed, called, runs>>

\* shutdown_queue_autodrain_worker sets the event ...
BeginShutdown ==
    /\ handle # 0 /\ ~stop
    /\ stop' = TRUE
    /\ UNCHANGED <<status, queue, claimed, called, alive, handle, starts, runs>>

\* ... and forgets the thread, joined or not when the timeout is over.
EndShutdown ==
    /\ handle # 0 /\ stop
    /\ handle' = 0
    /\ UNCHANGED <<status, queue, claimed, called, alive, stop, starts, runs>>

\* A worker between two drains sees the event.
WorkerEnds(w) ==
    /\ w \in alive \cap Workers /\ stop /\ claimed[w] = << >>
    /\ alive' = alive \ {w}
    /\ UNCHANGED <<status, queue, claimed, called, handle, stop, starts, runs>>

\* A drain request comes, and returns when its tasks are marked.
BeginRequest ==
    /\ Request \notin alive
    /\ alive' = alive \cup {Request}
    /\ UNCHANGED <<status, queue, claimed, called, handle, stop, starts, runs>>

EndRequest ==
    /\ Request \in alive /\ claimed[Request] = << >>
    /\ alive' = alive \ {Request}
    /\ UNCHANGED <<status, queue, claimed, called, handle, stop, starts, runs>>

Next ==
    \/ \E t \in Tasks : Enqueue(t)
    \/ \E l \in Loops : ClaimNext(l)
    \/ \E l \in Loops : RunTask(l)
    \/ \E l \in Loops, verdict \in {"SUCCEEDED", "FAILED"} : MarkTask(l, verdict)
    \/ StartUp \/ BeginShutdown \/ EndShutdown
    \/ \E w \in Workers : WorkerEnds(w)
    \/ BeginRequest \/ EndRequest

Spec == Init /\ [][Next]_vars

-----------------------------------------------------------------------------
\* The queue as AtLeastOnceQueue sees it: what is not marked yet, in order.
Open == InOrder({t \in Tasks : status[t] \in {"QUEUED", "RUNNING"}})

Abstract == INSTANCE AtLeastOnceQueue
    WITH backlog <- Open, handled <- {t \in Tasks : runs[t] > 0}

\* The in-memory queue implements the durable queue's promise as long as the
\* process lives, and runs no task twice, however many loops drain it and
\* however late a forgotten worker is.
ImplementsExactlyOnce ==
    Abstract!Spec /\ [][\A t \in Tasks : runs'[t] > runs[t] => runs[t] = 0 /\ status[t] = "RUNNING"]_vars
=============================================================================
