--------------------------- MODULE AtLeastOnceQueue ---------------------------
(***************************************************************************)
(* What a durable task queue promises: a task submitted keeps its place in *)
(* the backlog until it has been handled, and leaves it only once.         *)
(***************************************************************************)
EXTENDS Naturals, Sequences

CONSTANT Tasks

VARIABLES backlog,   \* the tasks not acknowledged, in the order of submission
          handled    \* the tasks whose pipeline has been run, at least once

Init == backlog = <<>> /\ handled = {}

Submit(t) ==
    /\ \A i \in 1 .. Len(backlog) : backlog[i] < t
    /\ backlog' = Append(backlog, t)
    /\ UNCHANGED handled

Handle(t) ==
    /\ handled' = handled \cup {t}
    /\ UNCHANGED backlog

Acknowledge(t) ==
    /\ t \in handled
    /\ \E i \in 1 .. Len(backlog) :
         /\ backlog[i] = t
         /\ backlog' = SubSeq(backlog, 1, i - 1) \o SubSeq(backlog, i + 1, Len(backlog))
    /\ UNCHANGED handled

Next == \E t \in Tasks : Submit(t) \/ Handle(t) \/ Acknowledge(t)

Spec == Init /\ [][Next]_<<backlog, handled>>
=============================================================================
