------------------------------ MODULE DurableRun ------------------------------
(***************************************************************************)
(* What the record of a run promises to whoever reads it, or resumes from  *)
(* it: the number of steps it counts as done only grows, one at a time; a  *)
(* run is a success only when all are done, and a success is final.        *)
(***************************************************************************)
EXTENDS Naturals

CONSTANT N   \* the number of steps

VARIABLES done,      \* the steps done, as recorded
          outcome    \* the recorded status of the run

\* A run stays PENDING until it calls an agent: when its first steps are left
\* out by their conditions, that is what their checkpoints record.
Unfinished == {"PENDING", "RUNNING", "FAILED", "BLOCKED"}

Init == done = 0 /\ outcome = "RUNNING"

\* A step is done, or the run is halted, stopped or set going again.  A run
\* recorded as FAILED or BLOCKED may progress under that status: a resumed run
\* keeps it until it calls an agent, and a run keeps it that was stopped while
\* its last step was under way.
Progress ==
    /\ outcome \in Unfinished
    /\ done' \in {done, done + 1} /\ done' <= N
    /\ outcome' \in Unfinished

Succeed ==
    /\ outcome \in Unfinished \ {"FAILED"}
    /\ done = N
    /\ outcome' = "SUCCESS"
    /\ UNCHANGED done

Next == Progress \/ Succeed

Spec == Init /\ [][Next]_<<done, outcome>>
=============================================================================
