-------------------------- MODULE IngestionPipeline --------------------------
(***************************************************************************)
(* rag/ingestion.py: one run of the asynchronous pipeline that fills a     *)
(* vector collection.  A producer groups texts, embeds each group and puts *)
(* it on a bounded queue; workers take groups off and store them, so many  *)
(* at a time.  The run waits until every group put is marked done, sets    *)
(* the event that ends the workers, and compares counts.                   *)
(*                                                                         *)
(* The tasks share one event loop: what lies between two awaits is one     *)
(* step.                                                                   *)
(***************************************************************************)
EXTENDS Naturals, Sequences, FiniteSets

CONSTANTS StoreWorkers,  \* tasks that store groups
          Texts,         \* how many texts there are
          GroupSize,     \* texts embedded at a time
          QueueSize,     \* groups the queue holds
          MaxInflight,   \* requests sent at a time
          MaxRefusals    \* bound: requests and embeddings that fail

VARIABLES run,           \* where run() is
          made,          \* groups embedded and waiting, or put
          waiting,       \* is the last group made still to be put?
          line,          \* the queue
          unfinished,    \* groups put and not marked done
          shutdown,      \* the event that ends the workers
          task,          \* what each worker is at, and with which group
          kept,          \* groups in the collection
          flushed,       \* groups counted as stored
          old,           \* points the collection had before
          given,         \* groups given up: their request failed, or a stop dropped them
          verdict,       \* what the counts say in the end
          refusals

vars == <<run, made, waiting, line, unfinished, shutdown, task, kept, flushed, old, given,
          verdict, refusals>>

\* TextBuffer: full groups as the texts come in, and what remains as the last.
Groups == (Texts + GroupSize - 1) \div GroupSize

Free == [pc |-> "get", group |-> 0]
Refusal == refusals < MaxRefusals /\ refusals' = refusals + 1
Fine == UNCHANGED refusals

Init ==
    /\ run = "idle" /\ made = 0 /\ waiting = FALSE
    /\ line = <<>> /\ unfinished = 0 /\ shutdown = FALSE
    /\ task = [w \in StoreWorkers |-> [Free EXCEPT !.pc = "none"]]
    /\ kept = {} /\ flushed = {} /\ given = {} /\ old \in {0, 1}
    /\ verdict = "none" /\ refusals = 0

producerVars == <<made, waiting>>
workerVars == <<task, kept, flushed, old>>

\* The collection is found or made and the model loaded, or there is no run.
Begin ==
    /\ run = "idle"
    /\ \/ /\ Fine /\ run' = "produce"
          /\ task' = [w \in StoreWorkers |-> Free]
       \/ Refusal /\ run' = "raised" /\ UNCHANGED task
    /\ UNCHANGED <<producerVars, line, unfinished, shutdown, kept, flushed, old, given, verdict>>

\* The next group is embedded; an error ends the producer.
Embed ==
    /\ run = "produce" /\ ~waiting /\ made < Groups
    /\ \/ Fine /\ made' = made + 1 /\ waiting' = TRUE /\ UNCHANGED run
       \/ Refusal /\ run' = "stop" /\ UNCHANGED producerVars
    /\ UNCHANGED <<line, unfinished, shutdown, workerVars, given, verdict>>

Put ==
    /\ run = "produce" /\ waiting /\ Len(line) < QueueSize
    /\ line' = Append(line, made) /\ unfinished' = unfinished + 1
    /\ waiting' = FALSE
    /\ UNCHANGED <<run, made, shutdown, workerVars, given, verdict, refusals>>

Join ==
    /\ run = "produce" /\ ~waiting /\ made = Groups /\ unfinished = 0
    /\ run' = "stop"
    /\ UNCHANGED <<producerVars, line, unfinished, shutdown, workerVars, given, verdict,
                   refusals>>

-----------------------------------------------------------------------------
\* A worker.

Take(w) ==
    /\ task[w].pc = "get" /\ line # <<>>
    /\ task' = [task EXCEPT ![w] = [pc |-> "limit", group |-> Head(line)]]
    /\ line' = Tail(line)
    /\ UNCHANGED <<run, producerVars, unfinished, shutdown, kept, flushed, old, given, verdict,
                   refusals>>

\* async with self.semaphore
Send(w) ==
    /\ task[w].pc = "limit"
    /\ Cardinality({v \in StoreWorkers : task[v].pc = "sent"}) < MaxInflight
    /\ task' = [task EXCEPT ![w].pc = "sent"]
    /\ UNCHANGED <<run, producerVars, line, unfinished, shutdown, kept, flushed, old, given,
                   verdict, refusals>>

\* Mutant: a group is marked done when it is stored.
DoneIfStored(ok) == IF ok THEN unfinished - 1 ELSE unfinished
\* The finally clause: whatever became of it.
TaskDone(ok) == unfinished - 1

Answered(w) ==
    /\ task[w].pc = "sent"
    /\ kept' = kept \cup {task[w].group}
    /\ flushed' = flushed \cup {task[w].group}
    /\ unfinished' = TaskDone(TRUE)
    /\ task' = [task EXCEPT ![w] = Free]
    /\ UNCHANGED <<run, producerVars, line, shutdown, old, given, verdict, refusals>>

\* The request fails, or its answer is lost: the error is logged, the group gone.
Fails(w) ==
    /\ task[w].pc = "sent" /\ Refusal
    /\ kept' \in {kept, kept \cup {task[w].group}}
    /\ given' = given \cup {task[w].group}
    /\ unfinished' = TaskDone(FALSE)
    /\ task' = [task EXCEPT ![w] = Free]
    /\ UNCHANGED <<run, producerVars, line, shutdown, flushed, old, verdict>>

\* Between two groups, or when the wait for one is over.
Quit(w) ==
    /\ task[w].pc = "get" /\ shutdown
    /\ task' = [task EXCEPT ![w].pc = "quit"]
    /\ UNCHANGED <<run, producerVars, line, unfinished, shutdown, kept, flushed, old, given,
                   verdict, refusals>>

-----------------------------------------------------------------------------
\* The end of a run, also of one whose producer raised.

SetShutdown ==
    /\ run = "stop" /\ ~shutdown
    /\ shutdown' = TRUE
    /\ UNCHANGED <<run, producerVars, line, unfinished, workerVars, given, verdict, refusals>>

\* All workers have quit: what is left on the queue is dropped.
Drain ==
    /\ run = "stop" /\ shutdown
    /\ \A w \in StoreWorkers : task[w].pc = "quit"
    /\ given' = given \cup {line[k] : k \in DOMAIN line}
    /\ line' = <<>> /\ unfinished' = unfinished - Len(line)
    /\ run' = IF made = Groups /\ ~waiting /\ unfinished = 0 THEN "verify" ELSE "raised"
    /\ UNCHANGED <<producerVars, shutdown, workerVars, verdict, refusals>>

Verify ==
    /\ run = "verify"
    /\ run' = "returned"
    /\ \/ /\ Fine
          /\ verdict' = IF Cardinality(kept) + old = Cardinality(flushed) THEN "success"
                        ELSE "warning"
       \/ Refusal /\ verdict' = "failed"
    /\ UNCHANGED <<producerVars, line, unfinished, shutdown, workerVars, given>>

Worker(w) == Take(w) \/ Send(w) \/ Answered(w) \/ Fails(w) \/ Quit(w)
Main == Begin \/ Embed \/ Put \/ Join \/ SetShutdown \/ Drain \/ Verify

Next == Main \/ \E w \in StoreWorkers : Worker(w)

\* The loop runs every task that can go on, and every request is answered or fails.
Fairness == WF_vars(Main) /\ \A w \in StoreWorkers : WF_vars(Worker(w))

Spec == Init /\ [][Next]_vars /\ Fairness

-----------------------------------------------------------------------------
(***************************************************************************)
(* A run ends: the producer is not left before a full queue nor run()      *)
(* before an empty one, whatever fails.  By then every group was stored,   *)
(* lost with its request, or dropped by the stop; and a verdict of success *)
(* means that nothing is in the collection which was not counted.          *)
(***************************************************************************)
Ended ==
    /\ run \in {"returned", "raised"}
    /\ 1..(IF waiting THEN made - 1 ELSE made) = flushed \cup given
    /\ flushed \subseteq kept
    /\ verdict = "success" => kept = flushed
    /\ run = "returned" => made = Groups

IngestionEnds == (run = "produce") ~> Ended
=============================================================================
