----------------------------- MODULE TokenBudget -----------------------------
(***************************************************************************)
(* The token budget of a process: what each LLM call cost is added to the  *)
(* totals and written to a file, under one lock; a cost tracker collects   *)
(* calls and hands them to the budget later, under a lock of its own.  The *)
(* limit is checked after a call was counted, and an exceeded limit is an  *)
(* exception, which skips the file and leaves the tracker's list alone.    *)
(* MaxCounts, MaxResets and MaxStarts bound how often a call is counted,   *)
(* the resets and the processes.                                           *)
(***************************************************************************)
EXTENDS Integers, Sequences

CONSTANTS Calls, Cost, SessionLimit, MaxStarts, MaxResets, MaxCounts

VARIABLES
    used,      \* daily_usage, monthly_usage: how often each call is in them
    total,     \* total_cost
    file,      \* the saved usage and total, or Damaged
    pending,   \* CostTracker.pending_usage
    next,      \* the next position that process_pending_usage tracks, or 0
    made,      \* history: the calls made
    tracked,   \* history: the calls whose tracking returned
    raised,    \* history: a limit was exceeded
    torn,      \* history: a process died while it wrote the file
    resets, starts

vars == <<used, total, file, pending, next, made, tracked, raised, torn, resets,
          starts>>

Nothing == [used |-> [c \in Calls |-> 0], total |-> 0]
Damaged == [Nothing EXCEPT !.total = -1]

Init ==
    /\ used = Nothing.used /\ total = 0
    /\ file = Nothing
    /\ pending = << >> /\ next = 0
    /\ made = {} /\ tracked = {}
    /\ raised = FALSE /\ torn = FALSE
    /\ resets = 0 /\ starts = 1

\* record_usage waits while the list is processed.
RecordUsage(c) ==
    /\ c \notin made /\ next = 0
    /\ made' = made \cup {c}
    /\ pending' = Append(pending, c)
    /\ UNCHANGED <<used, total, file, next, tracked, raised, torn, resets, starts>>

Exceeded(cost) == SessionLimit > 0 /\ cost >= SessionLimit

\* track_usage up to the file: the call is counted, then the limit is checked.
Counted(c) ==
    /\ used[c] < MaxCounts
    /\ used' = [used EXCEPT ![c] = @ + 1]
    /\ total' = total + Cost[c]

Saves == file' = [used |-> used', total |-> total']

\* What is left of a call's tracking: an exception, or the file and the return.
Settle(c) ==
    IF Exceeded(total')
    THEN raised' = TRUE /\ UNCHANGED <<file, tracked>>
    ELSE Saves /\ tracked' = tracked \cup {c} /\ UNCHANGED raised

\* A call that the LLM wrapper tracks itself.
TrackDirectly(c) ==
    /\ c \notin made
    /\ made' = made \cup {c}
    /\ Counted(c) /\ Settle(c)
    /\ UNCHANGED <<pending, next, torn, resets, starts>>

ProcessPending ==
    /\ next = 0 /\ pending # << >>
    /\ next' = 1
    /\ UNCHANGED <<used, total, file, pending, made, tracked, raised, torn,
                   resets, starts>>

\* Mutant: the list is kept, and only the position is reset.
PendingKept == pending
PendingAfter == << >>

\* The next pending call is tracked.  The list is cleared behind the last one;
\* an exception leaves it as it is.
TrackUsage ==
    LET c == pending[next] IN
    /\ next > 0
    /\ Counted(c) /\ Settle(c)
    /\ IF Exceeded(total') THEN next' = 0 /\ UNCHANGED pending
       ELSE IF next = Len(pending) THEN next' = 0 /\ pending' = PendingAfter
       ELSE next' = next + 1 /\ UNCHANGED pending
    /\ UNCHANGED <<made, torn, resets, starts>>

\* reset_session clears the total in memory, not the file.
ResetSession ==
    /\ resets < MaxResets
    /\ resets' = resets + 1
    /\ total' = 0
    /\ UNCHANGED <<used, file, pending, next, made, tracked, raised, torn, starts>>

\* load_usage_data: a file that does not parse is as good as none.
Loaded(saved) == IF saved = Damaged THEN Nothing ELSE saved

StartOn(saved) ==
    /\ starts < MaxStarts
    /\ starts' = starts + 1
    /\ used' = Loaded(saved).used /\ total' = Loaded(saved).total
    /\ file' = saved
    /\ pending' = << >> /\ next' = 0
    /\ UNCHANGED <<made, raised, resets>>

\* The process dies and another one starts ...
Restart == StartOn(file) /\ UNCHANGED <<torn, tracked>>

\* ... or it dies while it writes the file in place.
DieWhileSaving ==
    /\ next > 0 \/ made # Calls
    /\ StartOn(Damaged)
    /\ torn' = TRUE /\ UNCHANGED tracked

Next ==
    \/ \E c \in Calls : RecordUsage(c)
    \/ \E c \in Calls : TrackDirectly(c)
    \/ ProcessPending \/ TrackUsage
    \/ ResetSession \/ Restart \/ DieWhileSaving

Spec == Init /\ [][Next]_vars

-----------------------------------------------------------------------------
\* As long as no limit was exceeded and no file was torn, the usage holds the
\* calls whose tracking returned, each of them once: no restart, reset or mix
\* of direct and pending calls loses or repeats one.
CountedOnceBelowLimit ==
    ~raised /\ ~torn => \A c \in Calls : used[c] = IF c \in tracked THEN 1 ELSE 0
=============================================================================
