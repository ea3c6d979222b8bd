----------------------------- MODULE RateLimiter -----------------------------
(***************************************************************************)
(* The request limits of one client at one endpoint, as the two back ends  *)
(* count them.  The counter in memory belongs to one process, whose event  *)
(* loop runs a check without interruption.  The counter in Redis is shared *)
(* by the processes and set up by two commands, so that another process,   *)
(* or a failure, may come between.  Times are ages and remaining lives;    *)
(* admissions are kept for as long as a window.  MaxFaults bounds the      *)
(* failing commands.                                                       *)
(***************************************************************************)
EXTENDS Naturals, FiniteSets

CONSTANTS Processes, Limit, Window, MaxFaults

RateAssumption == Limit \in Nat \ {0} /\ Window \in Nat \ {0}

VARIABLES
    memory,    \* _counters: the count, and the age of its window
    count,     \* the counter in Redis, 0 if there is none
    ttl,       \* its remaining life, 0 if none is set
    first,     \* the processes that incremented it to 1 and set the expiry next
    admitted,  \* history: for each back end, the admissions of a window's length
    faults

vars == <<memory, count, ttl, first, admitted, faults>>

Backends == {"memory", "redis"}

\* An admission has an age, and a number among those of that age.
Newer(past) == past \cup {[age |-> 0, n |-> Cardinality({a \in past : a.age = 0})]}
Older(past) == {[age |-> a.age + 1, n |-> a.n] : a \in {x \in past : x.age + 1 < Window}}

Init ==
    /\ memory = [count |-> 0, age |-> Window]
    /\ count = 0 /\ ttl = 0 /\ first = {}
    /\ admitted = [b \in Backends |-> {}]
    /\ faults = 0

Admit(backend) == admitted' = [admitted EXCEPT ![backend] = Newer(@)]

\* The window in memory is over, or counts on.
CurrentWindow == IF memory.age >= Window THEN [count |-> 0, age |-> 0] ELSE memory

\* Mutant: one request too many.
AtMostLimit(n) == n <= Limit
BelowLimit(n) == n < Limit

\* InMemoryRateLimiter admits the request; a refusal changes nothing.
CheckMemory ==
    /\ BelowLimit(CurrentWindow.count)
    /\ memory' = [CurrentWindow EXCEPT !.count = @ + 1]
    /\ Admit("memory")
    /\ UNCHANGED <<count, ttl, first, faults>>

\* RedisRateLimiter: INCR.  The request that finds the counter new goes on to
\* set its life; counting stops to matter one above the limit.
Increment(p) ==
    /\ p \notin first
    /\ count' = IF count > Limit THEN count ELSE count + 1
    /\ IF count = 0 THEN first' = first \cup {p} /\ UNCHANGED admitted
       ELSE /\ UNCHANGED first
            /\ IF count < Limit THEN Admit("redis") ELSE UNCHANGED admitted
    /\ UNCHANGED <<memory, ttl, faults>>

\* Mutant: the life is set only while nobody else has counted.
LifeIfAlone == IF count = 1 THEN Window ELSE ttl
Life == Window

\* EXPIRE, after which the request is admitted.
SetExpiry(p) ==
    /\ p \in first
    /\ ttl' = Life
    /\ first' = first \ {p}
    /\ Admit("redis")
    /\ UNCHANGED <<memory, count, faults>>

\* The process dies between the commands, or EXPIRE fails and the request is
\* admitted uncounted: the counter lives for ever.
ExpiryLost(p) ==
    /\ p \in first /\ faults < MaxFaults
    /\ faults' = faults + 1
    /\ first' = first \ {p}
    /\ UNCHANGED <<memory, count, ttl, admitted>>

Tick ==
    /\ memory' = IF memory.age >= Window THEN memory ELSE [memory EXCEPT !.age = @ + 1]
    /\ ttl' = IF ttl = 0 THEN 0 ELSE ttl - 1
    /\ count' = IF ttl = 1 THEN 0 ELSE count
    /\ admitted' = [b \in Backends |-> Older(admitted[b])]
    /\ UNCHANGED <<first, faults>>

Next ==
    \/ CheckMemory
    \/ \E p \in Processes : Increment(p)
    \/ \E p \in Processes : SetExpiry(p)
    \/ \E p \in Processes : ExpiryLost(p)
    \/ Tick

\* Time passes, and a process that incremented goes on, fails or dies.
Fairness ==
    /\ WF_vars(Tick)
    /\ \A p \in Processes : WF_vars(SetExpiry(p) \/ ExpiryLost(p))

Spec == Init /\ [][Next]_vars /\ Fairness

-----------------------------------------------------------------------------
\* In no span of a window's length does a back end admit more than twice the
\* limit: the windows are fixed and start with a request, so that two of them,
\* never three, meet in a span, also when the life of a Redis counter starts
\* long after its first increment.
AtMostTwiceTheLimit ==
    \A b \in Backends : Cardinality(admitted[b]) <= 2 * Limit

\* A counter in Redis ends, unless the command that sets its life was lost:
\* then the client is refused for ever once the limit is reached.
CountersExpire == (count > 0) ~> (count = 0 \/ faults > 0)
=============================================================================
