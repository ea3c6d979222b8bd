---------------------------- MODULE CodeDelivery ----------------------------
(***************************************************************************)
(* Publishing a patch: validate, create a branch, put the files on it one  *)
(* by one, open a pull request; on an error of the API delete the branch,  *)
(* and start again under a new name if the error said that something       *)
(* already exists.  The deliveries here are runs for one issue, which all  *)
(* begin with the same branch name.  Every request is repeated by the      *)
(* client while it fails in passing, also when only its answer was lost.   *)
(* Deliveries are numbers; MaxFaults bounds the failing requests.          *)
(***************************************************************************)
EXTENDS Naturals

CONSTANTS
    Deliveries, Files, MaxFaults,
    MaxRetries  \* how often the client of each delivery repeats a request

\* 0 is no delivery; a patch without files is not published.
DeliveryAssumption == Deliveries \subseteq Nat \ {0} /\ Files \in Nat \ {0}

VARIABLES
    job,      \* where each delivery is
    branch,   \* the branches of the repository, with the files put on them
    pulls,    \* the pull requests
    robbed,   \* history: deliveries whose branch another one deleted meanwhile
    cutOff,   \* history: deliveries that ended, or could not roll back, by a fault
    faults

vars == <<job, branch, pulls, robbed, cutOff, faults>>

Shared == 0   \* horde/<issue>-<title>; a retry adds a random suffix
BranchNames == {Shared} \cup Deliveries
Absent == [by |-> 0, files |-> {}]
Missing(name) == branch[name] = Absent

Init ==
    /\ job = [d \in Deliveries |-> [pc |-> "idle", name |-> Shared, file |-> 1,
                                    tries |-> 0, exists |-> FALSE]]
    /\ branch = [name \in BranchNames |-> Absent]
    /\ pulls = {}
    /\ robbed = {} /\ cutOff = {} /\ faults = 0

At(d, pc) == job[d].pc = pc
Proceed(d, pc) == job' = [job EXCEPT ![d].pc = pc, ![d].tries = 0]

\* An error of the API leads to the rollback; what it said decides the rest.
RollBack(d, exists) ==
    job' = [job EXCEPT ![d].pc = "rollback", ![d].tries = 0, ![d].exists = exists]

-----------------------------------------------------------------------------
\* What the requests do to the repository, when they are granted.
OpenPull(name) == \E p \in pulls : p.name = name /\ p.state = "open"

Granted(d) ==
    LET name == job[d].name IN
    CASE At(d, "validate") -> TRUE
      [] At(d, "branch") -> Missing(name)
      [] At(d, "file") -> ~Missing(name) /\ \A f \in branch[name].files : f.file # job[d].file
      [] At(d, "pull") -> ~Missing(name) /\ ~OpenPull(name)

Effect(d) ==
    LET name == job[d].name IN
    /\ branch' = CASE At(d, "branch") -> [branch EXCEPT ![name] = [by |-> d, files |-> {}]]
                   [] At(d, "file") -> [branch EXCEPT ![name].files =
                                            @ \cup {[file |-> job[d].file, by |-> d]}]
                   [] OTHER -> branch
    /\ pulls' = IF At(d, "pull")
                THEN pulls \cup {[name |-> name, by |-> d, state |-> "open", files |-> {}]}
                ELSE pulls

Asking == {"validate", "branch", "file", "pull"}

LastFile(n) == n = Files

Continue(d) ==
    CASE At(d, "validate") -> Proceed(d, "branch")
      [] At(d, "branch") -> Proceed(d, "file")
      [] At(d, "file") /\ LastFile(job[d].file) -> Proceed(d, "pull")
      [] At(d, "file") /\ ~LastFile(job[d].file) ->
            job' = [job EXCEPT ![d].file = @ + 1, ![d].tries = 0]
      [] At(d, "pull") -> Proceed(d, "delivered")

\* Deliveries differ in nothing, so they begin in order.
Begin(d) ==
    /\ At(d, "idle") /\ \A e \in Deliveries : e < d => ~At(e, "idle")
    /\ Proceed(d, "validate")
    /\ UNCHANGED <<branch, pulls, robbed, cutOff, faults>>

Succeed(d) ==
    /\ job[d].pc \in Asking /\ Granted(d)
    /\ Effect(d) /\ Continue(d)
    /\ UNCHANGED <<robbed, cutOff, faults>>

\* The API refuses: a branch or a pull request is there already, a file is, or
\* the branch is gone.
Refuse(d) ==
    /\ job[d].pc \in Asking /\ ~Granted(d)
    /\ RollBack(d, \/ At(d, "branch")
                   \/ At(d, "pull") /\ OpenPull(job[d].name))
    /\ UNCHANGED <<branch, pulls, robbed, cutOff, faults>>

\* Any other error that is not worth a repetition: no permission, an odd answer.
FailForGood(d) ==
    /\ job[d].pc \in Asking /\ faults < MaxFaults
    /\ faults' = faults + 1
    /\ RollBack(d, FALSE)
    /\ UNCHANGED <<branch, pulls, robbed, cutOff>>

\* A request or its answer is lost, or the server is busy.  It is repeated, up
\* to the limit; after that a busy server is an error of the API, and a lost
\* connection an exception that leaves the delivery as it is.
FailInPassing(d) ==
    /\ job[d].pc \in Asking /\ faults < MaxFaults
    /\ faults' = faults + 1
    /\ \/ Granted(d) /\ Effect(d)
       \/ UNCHANGED <<branch, pulls>>
    /\ \/ /\ job[d].tries < MaxRetries[d]
          /\ job' = [job EXCEPT ![d].tries = @ + 1]
          /\ UNCHANGED cutOff
       \/ /\ job[d].tries = MaxRetries[d]
          /\ RollBack(d, FALSE)
          /\ UNCHANGED cutOff
       \/ /\ job[d].tries = MaxRetries[d]
          /\ Proceed(d, "failed")
          /\ cutOff' = cutOff \cup {d}
    /\ UNCHANGED robbed

\* A new name, once; the first error is kept in mind no longer.
Renamed(d) == [job[d] EXCEPT !.pc = "validate", !.name = d, !.file = 1, !.exists = FALSE]
AfterRollback(d) ==
    job' = [job EXCEPT ![d] = IF @.exists /\ @.name = Shared THEN Renamed(d)
                              ELSE [@ EXCEPT !.pc = "failed"]]

\* Mutant: a branch that was there already is left alone.
DeletesUnlessExists(d) == ~Missing(job[d].name) /\ ~job[d].exists
Deletes(d) == ~Missing(job[d].name)

Working(d) == job[d].pc \in Asking

\* delete_branch, whoever made the branch; its pull request closes with it.
Rollback(d) ==
    LET name == job[d].name IN
    /\ At(d, "rollback")
    /\ IF Deletes(d)
       THEN /\ branch' = [branch EXCEPT ![name] = Absent]
            /\ pulls' = {IF p.name = name /\ p.state = "open"
                         THEN [p EXCEPT !.state = "closed"] ELSE p : p \in pulls}
            /\ robbed' = robbed \cup {e \in Deliveries \ {d} : Working(e) /\ job[e].name = name}
       ELSE UNCHANGED <<branch, pulls, robbed>>
    /\ AfterRollback(d)
    /\ UNCHANGED <<cutOff, faults>>

RollbackFails(d) ==
    /\ At(d, "rollback") /\ faults < MaxFaults
    /\ faults' = faults + 1
    /\ cutOff' = cutOff \cup {d}
    /\ AfterRollback(d)
    /\ UNCHANGED <<branch, pulls, robbed>>

\* The pull request is merged with what is on its branch, which stays.
Merge(p) ==
    /\ p \in pulls /\ p.state = "open"
    /\ pulls' = (pulls \ {p}) \cup
            {[p EXCEPT !.state = "merged", !.files = branch[p.name].files]}
    /\ UNCHANGED <<job, branch, robbed, cutOff, faults>>

Next ==
    \/ \E d \in Deliveries : Begin(d)
    \/ \E d \in Deliveries : Succeed(d)
    \/ \E d \in Deliveries : Refuse(d)
    \/ \E d \in Deliveries : FailForGood(d)
    \/ \E d \in Deliveries : FailInPassing(d)
    \/ \E d \in Deliveries : Rollback(d)
    \/ \E d \in Deliveries : RollbackFails(d)
    \/ \E p \in pulls : Merge(p)

Spec == Init /\ [][Next]_vars

-----------------------------------------------------------------------------
PatchOf(d) == {[file |-> n, by |-> d] : n \in 1..Files}

\* A delivery that succeeded has its whole patch, and nothing else, in its pull
\* request, unless another one's rollback took the branch while it was at work.
DeliveredIsWhole ==
    \A d \in Deliveries \ robbed : At(d, "delivered") =>
        \A p \in pulls : p.by = d /\ p.name = job[d].name =>
            CASE p.state = "open" -> branch[p.name].files = PatchOf(d)
              [] p.state = "merged" -> p.files = PatchOf(d)
              [] p.state = "closed" -> TRUE

\* A delivery that failed, and whose last request was answered, leaves neither a
\* branch nor an open pull request; what a retry gave up under the first name
\* does not stay either.
NothingIsLeftBehind ==
    \A d \in Deliveries \ cutOff : At(d, "failed") =>
        /\ \A name \in BranchNames : branch[name].by # d
        /\ \A p \in pulls : p.by = d => p.state # "open"

\* A delivery is made whole, or leaves nothing behind.
AllOrNothing == DeliveredIsWhole /\ NothingIsLeftBehind
=============================================================================
