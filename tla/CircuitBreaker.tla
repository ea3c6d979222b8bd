--------------------------- MODULE CircuitBreaker ---------------------------
(***************************************************************************)
(* A circuit breaker shared by threads.  Whether a call may go on is       *)
(* decided under the lock; what it returned is recorded after the lock is  *)
(* released, statement by statement, so that records of several calls mix  *)
(* and act on a circuit that has changed since.  An increment is one step. *)
(* The service behind it breaks and heals.                                 *)
(***************************************************************************)
EXTENDS Naturals

CONSTANTS Threads, FailureThreshold, SuccessThreshold, HalfOpenMaxCalls, Timeout

\* With fewer calls in the half-open state than successes needed, the circuit
\* would never close; the defaults are 2 and 3.
BreakerAssumption ==
    /\ FailureThreshold \in Nat \ {0} /\ Timeout \in Nat
    /\ SuccessThreshold \in 1..HalfOpenMaxCalls

VARIABLES
    state, failureCount, successCount,
    age,      \* time since _last_state_change, up to Timeout
    pc,       \* where each thread is in call()
    healthy   \* whether calls of the service succeed

vars == <<state, failureCount, successCount, age, pc, healthy>>

Init ==
    /\ state = "CLOSED" /\ failureCount = 0 /\ successCount = 0 /\ age = 0
    /\ pc = [t \in Threads |-> "idle"]
    /\ healthy = TRUE

Goto(t, label) == pc' = [pc EXCEPT ![t] = label]

TimedOut == state = "OPEN" /\ age >= Timeout

\* _check_state_transition.
CheckTransition ==
    IF TimedOut
    THEN state' = "HALF_OPEN" /\ age' = 0 /\ failureCount' = 0
    ELSE UNCHANGED <<state, age, failureCount>>

Admits ==
    \/ state' = "CLOSED"
    \/ state' = "HALF_OPEN" /\ successCount < HalfOpenMaxCalls

\* call() up to the service; a call that is not admitted raises at once.
BeginCall(t) ==
    /\ pc[t] = "idle"
    /\ CheckTransition
    /\ Goto(t, IF Admits THEN "called" ELSE "idle")
    /\ UNCHANGED <<successCount, healthy>>

EndCall(t) ==
    /\ pc[t] = "called"
    /\ Goto(t, IF healthy THEN "succeeded" ELSE "failed")
    /\ UNCHANGED <<state, failureCount, successCount, age, healthy>>

\* _record_success, in its statements.
ClearFailures(t) ==
    /\ pc[t] = "succeeded"
    /\ failureCount' = 0
    /\ Goto(t, "count")
    /\ UNCHANGED <<state, successCount, age, healthy>>

\* Mutant: one success more than the threshold is asked for.
AboveThreshold(n) == n > SuccessThreshold
Enough(n) == n >= SuccessThreshold

CountSuccess(t) ==
    /\ pc[t] = "count"
    /\ IF state = "HALF_OPEN"
       THEN /\ successCount' = successCount + 1
            /\ Goto(t, IF Enough(successCount') THEN "close" ELSE "idle")
       ELSE UNCHANGED successCount /\ Goto(t, "idle")
    /\ UNCHANGED <<state, failureCount, age, healthy>>

Close(t) ==
    /\ pc[t] = "close"
    /\ state' = "CLOSED" /\ age' = 0 /\ successCount' = 0
    /\ Goto(t, "idle")
    /\ UNCHANGED <<failureCount, healthy>>

\* _record_failure; the count matters up to the threshold.
CountFailure(t) ==
    /\ pc[t] = "failed"
    /\ failureCount' = IF failureCount = FailureThreshold THEN failureCount
                       ELSE failureCount + 1
    /\ Goto(t, "open")
    /\ UNCHANGED <<state, successCount, age, healthy>>

Open(t) ==
    /\ pc[t] = "open"
    /\ IF \/ state = "HALF_OPEN"
          \/ state = "CLOSED" /\ failureCount >= FailureThreshold
       THEN /\ state' = "OPEN" /\ age' = 0
            /\ successCount' = IF state = "HALF_OPEN" THEN 0 ELSE successCount
       ELSE UNCHANGED <<state, age, successCount>>
    /\ Goto(t, "idle")
    /\ UNCHANGED <<failureCount, healthy>>

\* The state property makes the transition too.
ReadState ==
    /\ CheckTransition
    /\ UNCHANGED <<successCount, pc, healthy>>

Reset ==
    /\ state' = "CLOSED" /\ failureCount' = 0 /\ successCount' = 0 /\ age' = 0
    /\ UNCHANGED <<pc, healthy>>

Tick ==
    /\ age < Timeout
    /\ age' = age + 1
    /\ UNCHANGED <<state, failureCount, successCount, pc, healthy>>

Break == healthy /\ healthy' = FALSE
         /\ UNCHANGED <<state, failureCount, successCount, age, pc>>
Heal == ~healthy /\ healthy' = TRUE
        /\ UNCHANGED <<state, failureCount, successCount, age, pc>>

Step(t) == \/ EndCall(t) \/ ClearFailures(t) \/ CountSuccess(t) \/ Close(t)
           \/ CountFailure(t) \/ Open(t)

Next ==
    \/ \E t \in Threads : BeginCall(t)
    \/ \E t \in Threads : EndCall(t)
    \/ \E t \in Threads : ClearFailures(t)
    \/ \E t \in Threads : CountSuccess(t)
    \/ \E t \in Threads : Close(t)
    \/ \E t \in Threads : CountFailure(t)
    \/ \E t \in Threads : Open(t)
    \/ ReadState \/ Reset \/ Tick \/ Break \/ Heal

\* Time passes, a call returns or raises, and callers keep calling.
Fairness ==
    /\ WF_vars(Tick)
    /\ \A t \in Threads : WF_vars(BeginCall(t)) /\ WF_vars(Step(t))

Spec == Init /\ [][Next]_vars /\ Fairness

-----------------------------------------------------------------------------
\* When the service stays healthy, the circuit closes in the end and stays so,
\* whatever the late records of earlier calls and stale success counts do to it.
Recovers == <>[]healthy => <>[](state = "CLOSED")
=============================================================================
