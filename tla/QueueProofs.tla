------------------------------ MODULE QueueProofs ------------------------------
(***************************************************************************)
(* The Redis task queue, for any number of tasks, processes, drain loops,  *)
(* crashes and failing commands: its types, that it implements             *)
(* AtLeastOnceQueue, and that a task of a single process is run once more  *)
(* at most for each restart.                                               *)
(***************************************************************************)
EXTENDS RedisTaskQueue, SequenceTheorems, WellFoundedInduction, TLAPS

-----------------------------------------------------------------------------
(* The invariants *)

\* A drain loop that is past its claim has tasks in hand.
HoldsTask == \A d \in Drainers :
    pc[d] \in {"stamp", "run", "execute", "ack", "delete", "report"} => claimed[d] # <<>>

Typed == TypeOK /\ HoldsTask

\* Two lists, end to end, and those of the queue.
Both(p, q) == p \o q
Undone == Both(processing, queue)

\* What an acknowledgement relies on: the task in hand has been run, by this
\* process or by the one that it remembers.
AckedAreHandled == \A d \in Drainers :
    pc[d] \in {"ack", "delete", "report"} => Task(d) \in handled

RememberedAreHandled == \A p \in Processes : remembered[p] \subseteq handled

\* Tasks are pushed in the order of their numbers, and only those that were
\* pushed are in the lists.
PushedInOrder == \A t, u \in Tasks : u < t /\ submit[t] # "new" => submit[u] # "new"

UndoneArePushed == \A i \in 1 .. Len(Undone) : submit[Undone[i]] # "new"

QueueInv == AckedAreHandled /\ RememberedAreHandled /\ PushedInOrder /\ UndoneArePushed

\* No task is in the lists twice.
UndoneOnce == \A i, j \in 1 .. Len(Undone) : Undone[i] = Undone[j] => i = j

\* With one process: what a drain loop claimed is in no other loop's hands, and
\* not in the queue.
ClaimedArePushed == \A d \in Drainers : \A i \in 1 .. Len(claimed[d]) :
    /\ submit[claimed[d][i]] # "new"
    /\ claimed[d][i] \notin Elements(queue)

ClaimedOnce == \A d, e \in Drainers :
    \A i \in 1 .. Len(claimed[d]), j \in 1 .. Len(claimed[e]) :
        claimed[d][i] = claimed[e][j] => d = e /\ i = j

\* No loop has a task in hand while its process is down or takes tasks back, nor
\* while the loop is idle.
NoClaimsWhileDown == \A d \in Drainers :
    process[Home(d)] # "up" => pc[d] = "idle" /\ claimed[d] = <<>>

IdleHasNone == \A d \in Drainers : pc[d] = "idle" => claimed[d] = <<>>

\* The task in hand has been given to run_pipeline.
Running(d) == pc[d] \in {"execute", "ack", "delete", "report"}

\* The places of a claim whose task is still to be run.
Ahead(d) == {i \in 1 .. Len(claimed[d]) : Running(d) => i # 1}

\* A task that may yet be run without another crash.
ToBeRun(t) ==
    \/ submit[t] = "new" \/ t \in Elements(queue)
    \/ \E p \in Processes : process[p] # "up" /\ t \in Elements(processing)
    \/ \E d \in Drainers : \E i \in Ahead(d) : claimed[d][i] = t

\* The runs of a task; one fewer if it is to be run.
RunsCounted == \A t \in Tasks :
    runs[t] <= 1 + crashes /\ (ToBeRun(t) => runs[t] <= crashes)

ClaimsInv == ClaimedArePushed /\ ClaimedOnce

Resting == NoClaimsWhileDown /\ IdleHasNone

SingleInv == ClaimsInv /\ Resting /\ RunsCounted

-----------------------------------------------------------------------------
(* The operators on the lists *)

\* The first place of an element in a list.
LEMMA FirstPlace ==
    ASSUME NEW S, NEW list \in Seq(S), NEW t \in Elements(list)
    PROVE  \E i \in 1 .. Len(list) : list[i] = t /\ \A k \in 1 .. i - 1 : list[k] # t
<1>. DEFINE Places == {i \in 1 .. Len(list) : list[i] = t}
<1>1. Len(list) \in Nat /\ Places \subseteq Nat /\ Places # {}
  BY DEF Elements
<1>2. PICK i \in Places : \A k \in Places : ~(<<k, i>> \in OpToRel(<, Nat))
  BY <1>1, NatLessThanWellFounded, WFMin
<1>3. \A k, n \in Nat : k < n => <<k, n>> \in OpToRel(<, Nat)
  BY Zenon DEF OpToRel
<1>4. \A k \in Places : ~(k < i)
  BY <1>1, <1>2, <1>3, Zenon
<1>5. \A k \in 1 .. i - 1 : list[k] # t
  BY <1>1, <1>4
<1>6. QED
  BY <1>2, <1>5

\* Without is a list of the same tasks; it leaves out one place of the task.
LEMMA WithoutOnePlace ==
    ASSUME NEW S, NEW list \in Seq(S), NEW t \in Elements(list)
    PROVE  \E i \in 1 .. Len(list) :
             /\ list[i] = t
             /\ Without(list, t) = SubSeq(list, 1, i - 1) \o SubSeq(list, i + 1, Len(list))
<1>. DEFINE First(i) == list[i] = t /\ \A k \in 1 .. i - 1 : list[k] # t
            i == CHOOSE j \in 1 .. Len(list) : First(j)
<1>1. \E j \in 1 .. Len(list) : First(j)
  BY FirstPlace
<1>2. i \in 1 .. Len(list) /\ First(i)
  BY <1>1
<1>3. Without(list, t) = SubSeq(list, 1, i - 1) \o SubSeq(list, i + 1, Len(list))
  BY DEF Without
<1>4. QED
  BY <1>2, <1>3

\* rest is a list of k places without its i-th.
LeavesOut(S, rest, list, k, i) ==
    /\ rest \in Seq(S) /\ Len(rest) = k - 1
    /\ \A j \in 1 .. k - 1 : rest[j] = IF j < i THEN list[j] ELSE list[j + 1]

\* The parts of a list before and behind its i-th place.
Around(S, before, after, list, k, i) ==
    /\ before \in Seq(S) /\ Len(before) = i - 1
    /\ \A j \in 1 .. i - 1 : before[j] = list[j]
    /\ after \in Seq(S) /\ Len(after) = k - i
    /\ \A j \in 1 .. k - i : after[j] = list[j + i]

\* Put together, the parts are the list without that place ...
LEMMA Joined ==
    ASSUME NEW S, NEW k \in Nat, NEW i \in 1 .. k, NEW list, NEW before, NEW after,
           Around(S, before, after, list, k, i)
    PROVE  LeavesOut(S, before \o after, list, k, i)
<1>. SUFFICES
    ASSUME NEW b \in Seq(S), Len(b) = i - 1,
           \A j \in 1 .. i - 1 : b[j] = list[j],
           NEW a \in Seq(S), Len(a) = k - i,
           \A j \in 1 .. k - i : a[j] = list[j + i]
    PROVE  /\ b \o a \in Seq(S) /\ Len(b \o a) = k - 1
           /\ \A j \in 1 .. k - 1 :
                 (b \o a)[j] = IF j < i THEN list[j] ELSE list[j + 1]
  BY Zenon DEF LeavesOut, Around
<1>1. b \o a \in Seq(S)
  OBVIOUS
<1>2. Len(b \o a) = k - 1
  OBVIOUS
<1>3. ASSUME NEW j \in 1 .. k - 1
      PROVE  (b \o a)[j] = IF j < i THEN list[j] ELSE list[j + 1]
  <2>1. (b \o a)[j] = IF j <= i - 1 THEN b[j] ELSE a[j - (i - 1)]
    OBVIOUS
  <2>2. CASE j < i
    BY <2>1, <2>2
  <2>3. CASE i <= j
    <3>1. a[j - (i - 1)] = list[(j - (i - 1)) + i]
      BY <2>3
    <3>2. (j - (i - 1)) + i = j + 1
      OBVIOUS
    <3>3. QED
      BY <2>1, <2>3, <3>1, <3>2
  <2>4. QED
    BY <2>2, <2>3
<1>4. QED
  BY <1>1, <1>2, <1>3

\* ... which is what the removal of an entry leaves.
LEMMA LeftOut ==
    ASSUME NEW S, NEW list \in Seq(S), NEW i \in 1 .. Len(list)
    PROVE  LeavesOut(S, SubSeq(list, 1, i - 1) \o SubSeq(list, i + 1, Len(list)), list, Len(list), i)
<1>0. Len(list) \in Nat /\ i \in 1 .. Len(list)
  OBVIOUS
<1>1. /\ SubSeq(list, 1, i - 1) \in Seq(S) /\ Len(SubSeq(list, 1, i - 1)) = i - 1
      /\ \A j \in 1 .. i - 1 : SubSeq(list, 1, i - 1)[j] = list[j]
  OBVIOUS
<1>2. /\ SubSeq(list, i + 1, Len(list)) \in Seq(S)
      /\ Len(SubSeq(list, i + 1, Len(list))) = Len(list) - i
      /\ \A j \in 1 .. Len(list) - i : SubSeq(list, i + 1, Len(list))[j] = list[j + i]
  OBVIOUS
<1>3. Around(S, SubSeq(list, 1, i - 1), SubSeq(list, i + 1, Len(list)), list, Len(list), i)
  BY <1>1, <1>2 DEF Around
<1>4. QED
  BY <1>0, <1>3, Joined, Zenon

\* There is one such list.
LEMMA LeavesOutOne ==
    ASSUME NEW S, NEW list, NEW k \in Nat \ {0}, NEW i, NEW r, NEW s,
           LeavesOut(S, r, list, k, i), LeavesOut(S, s, list, k, i)
    PROVE  r = s
<1>1. r \in Seq(S) /\ s \in Seq(S) /\ Len(r) = Len(s)
  BY DEF LeavesOut
<1>2. \A j \in 1 .. Len(r) : r[j] = s[j]
  BY DEF LeavesOut
<1>3. QED
  BY <1>1, <1>2, SeqEqual

\* both begins with the m places of p and goes on with q.
EndToEnd(p, q, both, m) ==
    /\ \A j \in 1 .. m : both[j] = p[j]
    /\ \A j \in 1 .. Len(q) : both[j + m] = q[j]

\* Leaving out a place of the first of two lists leaves it out of both.
LEMMA LeftOutOfFirst ==
    ASSUME NEW S, NEW q \in Seq(S), NEW m \in Nat,
           NEW k \in Nat \ {0}, k = m + Len(q), NEW p, NEW i \in 1 .. m, NEW both, NEW r,
           EndToEnd(p, q, both, m),
           LeavesOut(S, r, p, m, i)
    PROVE  LeavesOut(S, r \o q, both, k, i)
<1>. SUFFICES
    ASSUME NEW s \in Seq(S), Len(s) = m - 1,
           \A j \in 1 .. m - 1 : s[j] = IF j < i THEN p[j] ELSE p[j + 1]
    PROVE  /\ s \o q \in Seq(S)
           /\ Len(s \o q) = k - 1
           /\ \A j \in 1 .. k - 1 :
                 (s \o q)[j] = IF j < i THEN both[j] ELSE both[j + 1]
  BY Zenon DEF LeavesOut
<1>. Len(q) \in Nat /\ (\A j \in 1 .. m : both[j] = p[j])
       /\ (\A j \in 1 .. Len(q) : both[j + m] = q[j])
  BY DEF EndToEnd
<1>1. s \o q \in Seq(S)
  OBVIOUS
<1>2. Len(s \o q) = k - 1
  <2>1. Len(s \o q) = Len(s) + Len(q)
    BY ConcatProperties
  <2>2. QED
    BY <2>1
<1>3. ASSUME NEW j \in 1 .. k - 1
      PROVE  (s \o q)[j] = IF j < i THEN both[j] ELSE both[j + 1]
  <2>1. CASE j < m
    <3>1. (s \o q)[j] = s[j]
      BY <2>1
    <3>2. s[j] = IF j < i THEN p[j] ELSE p[j + 1]
      BY <2>1
    <3>3. both[j] = p[j] /\ both[j + 1] = p[j + 1]
      BY <2>1
    <3>4. QED
      BY <3>1, <3>2, <3>3
  <2>2. CASE m <= j
    <3>1. (s \o q)[j] = q[j - (m - 1)]
      BY <2>2
    <3>2. both[(j - (m - 1)) + m] = q[j - (m - 1)]
      BY <2>2
    <3>3. (j - (m - 1)) + m = j + 1
      OBVIOUS
    <3>4. QED
      BY <2>2, <3>1, <3>2, <3>3
  <2>3. QED
    BY <2>1, <2>2
<1>4. QED
  BY <1>1, <1>2, <1>3

\* The same of the removal of an entry from the first of two lists.
LEMMA LeftOutOfBoth ==
    ASSUME NEW S, NEW p \in Seq(S), NEW q \in Seq(S), NEW i \in 1 .. Len(p)
    PROVE  LET rest == SubSeq(p, 1, i - 1) \o SubSeq(p, i + 1, Len(p)) IN
           /\ rest \o q = SubSeq(p \o q, 1, i - 1) \o SubSeq(p \o q, i + 1, Len(p \o q))
           /\ LeavesOut(S, rest, p, Len(p), i)
           /\ LeavesOut(S, rest \o q, p \o q, Len(p \o q), i)
<1>1. LeavesOut(S, SubSeq(p, 1, i - 1) \o SubSeq(p, i + 1, Len(p)), p, Len(p), i)
  BY LeftOut
<1>. DEFINE r == SubSeq(p, 1, i - 1) \o SubSeq(p, i + 1, Len(p))
            s == SubSeq(p \o q, 1, i - 1) \o SubSeq(p \o q, i + 1, Len(p \o q))
<1>2. /\ p \o q \in Seq(S) /\ Len(p \o q) = Len(p) + Len(q) /\ i \in 1 .. Len(p \o q)
      /\ \A j \in 1 .. Len(p) : (p \o q)[j] = p[j]
      /\ \A j \in 1 .. Len(q) : (p \o q)[j + Len(p)] = q[j]
  <2>1. p \o q \in Seq(S)
    OBVIOUS
  <2>2. Len(p \o q) = Len(p) + Len(q)
    OBVIOUS
  <2>3. i \in 1 .. Len(p) + Len(q)
    OBVIOUS
  <2>4. \A j \in 1 .. Len(p) : (p \o q)[j] = p[j]
    OBVIOUS
  <2>5. \A j \in 1 .. Len(q) : (p \o q)[j + Len(p)] = q[j]
    OBVIOUS
  <2>6. QED
    BY <2>1, <2>2, <2>3, <2>4, <2>5
<1>3. LeavesOut(S, s, p \o q, Len(p \o q), i)
  BY <1>2, LeftOut, Zenon
<1>4. LeavesOut(S, r, p, Len(p), i)
  BY <1>1, Zenon
<1>. HIDE DEF r, s
<1>5. Len(p) \in Nat /\ Len(q) \in Nat /\ Len(p \o q) \in Nat \ {0}
  OBVIOUS
<1>6. EndToEnd(p, q, p \o q, Len(p))
  BY <1>2 DEF EndToEnd
<1>7. LeavesOut(S, r \o q, p \o q, Len(p \o q), i)
  BY <1>2, <1>4, <1>5, <1>6, LeftOutOfFirst
<1>8. r \o q = s
  BY <1>2, <1>3, <1>5, <1>7, LeavesOutOne
<1>9. QED
  BY <1>4, <1>7, <1>8 DEF r, s

\* Claiming moves the border between two lists, and nothing else.
LEMMA MovedOver ==
    ASSUME NEW S, NEW p \in Seq(S), NEW q \in Seq(S), q # <<>>
    PROVE  Append(p, Head(q)) \o Tail(q) = p \o q
<1>1. Head(q) \in S /\ Tail(q) \in Seq(S)
  BY HeadTailProperties
<1>2. Append(p, Head(q)) = p \o <<Head(q)>>
  BY <1>1, AppendIsConcat
<1>3. <<Head(q)>> \o Tail(q) = q
  BY <1>1
<1>4. <<Head(q)>> \in Seq(S)
  BY <1>1
<1>5. QED
  BY <1>1, <1>2, <1>3, <1>4, ConcatAssociative

\* An element between two lists belongs to either.
LEMMA Between ==
    ASSUME NEW S, NEW q \in Seq(S), NEW front \in Seq(S), NEW e \in S
    PROVE  front \o (<<e>> \o q) = (front \o <<e>>) \o q
OBVIOUS

\* The lists when the last entry of the first is taken back to the second ...
AllButLast(p) == SubSeq(p, 1, Len(p) - 1)
LastAndThen(p, q) == <<p[Len(p)]>> \o q

\* ... are the same, end to end.
LEMMA MovedBack ==
    ASSUME NEW S, NEW p \in Seq(S), NEW q \in Seq(S), p # <<>>
    PROVE  /\ AllButLast(p) \in Seq(S) /\ LastAndThen(p, q) \in Seq(S)
           /\ Both(AllButLast(p), LastAndThen(p, q)) = Both(p, q)
<1>1. Len(p) \in Nat \ {0} /\ \A i \in 1 .. Len(p) : p[i] \in S
  BY EmptySeq
<1>2. SubSeq(p, 1, Len(p) - 1) \in Seq(S) /\ p[Len(p)] \in S
  BY <1>1
<1>3. SubSeq(p, 1, Len(p) - 1) \o <<p[Len(p)]>> = p
  BY <1>1, SubSeqRecursiveSecond, SubSeqFull
<1>4. <<p[Len(p)]>> \o q \in Seq(S)
  BY <1>2
<1>5. SubSeq(p, 1, Len(p) - 1) \o (<<p[Len(p)]>> \o q)
        = (SubSeq(p, 1, Len(p) - 1) \o <<p[Len(p)]>>) \o q
  BY <1>2, Between, Zenon
<1>6. QED
  BY <1>2, <1>3, <1>4, <1>5, Zenon DEF Both, AllButLast, LastAndThen

-----------------------------------------------------------------------------
(* Types *)

\* What Without leaves of a list of tasks is a list of tasks.
LEMMA WithoutIsList ==
    ASSUME NEW S, NEW list \in Seq(S), NEW t
    PROVE  Without(list, t) \in Seq(S)
<1>1. CASE t \in Elements(list)
  <2>1. PICK i \in 1 .. Len(list) :
          Without(list, t) = SubSeq(list, 1, i - 1) \o SubSeq(list, i + 1, Len(list))
    BY <1>1, WithoutOnePlace
  <2>2. LeavesOut(S, Without(list, t), list, Len(list), i)
    BY <2>1, LeftOut
  <2>3. QED
    BY <2>2 DEF LeavesOut
<1>2. CASE t \notin Elements(list)
  BY <1>2 DEF Without
<1>3. QED
  BY <1>1, <1>2

\* The task in hand, of a loop that has one.
LEMMA TaskIsTask ==
    ASSUME Typed, NEW d \in Drainers,
           pc[d] \in {"stamp", "run", "execute", "ack", "delete", "report"}
    PROVE  /\ claimed[d] \in Seq(Tasks) /\ claimed[d] # <<>>
           /\ Task(d) \in Tasks /\ Task(d) = claimed[d][1]
           /\ Len(claimed[d]) \in Nat \ {0}
           /\ claimed[d][Len(claimed[d])] \in Tasks
           /\ Tail(claimed[d]) \in Seq(Tasks)
<1>1. claimed[d] \in Seq(Tasks) /\ claimed[d] # <<>>
  BY DEF Typed, TypeOK, HoldsTask
<1>2. Len(claimed[d]) \in Nat \ {0}
  BY <1>1, EmptySeq
<1>3. Head(claimed[d]) = claimed[d][1] /\ claimed[d][1] \in Tasks
  BY <1>1, <1>2
<1>4. claimed[d][Len(claimed[d])] \in Tasks
  BY <1>1, <1>2
<1>5. Tail(claimed[d]) \in Seq(Tasks)
  BY <1>1, HeadTailProperties
<1>6. QED
  BY <1>1, <1>2, <1>3, <1>4, <1>5 DEF Task

\* The types hold at the start ...
LEMMA TypedInit == Init => Typed
<1>1. ASSUME Init PROVE TypeOK
  BY <1>1, QueueConstants DEF Init, TypeOK
<1>2. ASSUME Init PROVE HoldsTask
  BY <1>2 DEF Init, HoldsTask
<1>3. QED
  BY <1>1, <1>2 DEF Typed

\* ... and a submission, ...
LEMMA TypedEnqueue ==
    ASSUME Typed, NEW t \in Tasks, Enqueue(t) \/ EnqueueFails(t)
    PROVE  Typed'
<1>. USE DEF Typed, redis, drain, history, bounds
<1>1. CASE Push(t)
  <2>1. queue' \in Seq(Tasks)
    BY <1>1 DEF TypeOK, Push
  <2>2. QED
    BY <1>1, <2>1 DEF TypeOK, HoldsTask, Push
<1>2. CASE StorePayload(t)
  BY <1>2 DEF TypeOK, HoldsTask, StorePayload
<1>3. CASE StampQueued(t)
  BY <1>3 DEF TypeOK, HoldsTask, StampQueued
<1>4. CASE EnqueueFails(t)
  BY <1>4, QueueConstants DEF TypeOK, HoldsTask, EnqueueFails
<1>5. QED
  BY <1>1, <1>2, <1>3, <1>4 DEF Enqueue

\* ... a claim, ...
LEMMA TypedClaim ==
    ASSUME Typed, NEW d \in Drainers,
           BeginClaim(d) \/ Move(d) \/ StampRunning(d) \/ EndClaim(d)
    PROVE  Typed'
<1>. USE DEF Typed, redis, drain, history, bounds, At, Goto
<1>1. CASE BeginClaim(d)
  BY <1>1 DEF TypeOK, HoldsTask, BeginClaim
<1>2. CASE Move(d)
  <2>1. Head(queue) \in Tasks /\ Tail(queue) \in Seq(Tasks)
    BY <1>2, HeadTailProperties DEF TypeOK, Move
  <2>2. queue' \in Seq(Tasks) /\ processing' \in Seq(Tasks)
    BY <1>2, <2>1 DEF TypeOK, Move, MoveToProcessing
  <2>3. /\ Append(claimed[d], Head(queue)) \in Seq(Tasks)
        /\ Append(claimed[d], Head(queue)) # <<>>
    <3>1. claimed[d] \in Seq(Tasks)
      BY DEF TypeOK
    <3>2. QED
      BY <2>1, <3>1, AppendProperties
  <2>4. claimed' \in [Drainers -> Seq(Tasks)]
    BY <1>2, <2>3 DEF TypeOK, Move
  <2>5. TypeOK'
    BY <1>2, <2>2, <2>4 DEF TypeOK, Move
  <2>6. HoldsTask'
    BY <1>2, <2>3 DEF TypeOK, HoldsTask, Move
  <2>7. QED
    BY <2>5, <2>6
<1>3. CASE StampRunning(d)
  <2>1. claimed[d][Len(claimed[d])] \in Tasks
    BY <1>3, TaskIsTask DEF StampRunning
  <2>2. QED
    BY <1>3, <2>1 DEF TypeOK, HoldsTask, StampRunning
<1>4. CASE EndClaim(d)
  BY <1>4 DEF TypeOK, HoldsTask, EndClaim
<1>5. QED
  BY <1>1, <1>2, <1>3, <1>4

\* ... a run with its acknowledgement, ...
LEMMA TypedRun ==
    ASSUME Typed, NEW d \in Drainers,
           \/ SuppressDuplicate(d) \/ StartRun(d) \/ EndRun(d)
           \/ AckRemove(d) \/ AckDelete(d) \/ Report(d)
    PROVE  Typed'
<1>. USE DEF Typed, redis, drain, history, bounds, At, Goto
<1>. Home(d) \in Processes
  BY DEF Drainers, Home
<1>1. CASE SuppressDuplicate(d)
  BY <1>1 DEF TypeOK, HoldsTask, SuppressDuplicate, Verdicts
<1>2. CASE StartRun(d)
  <2>1. Task(d) \in Tasks
    BY <1>2, TaskIsTask DEF StartRun
  <2>2. runs' \in [Tasks -> 0 .. MaxRuns]
    <3>1. runs[Task(d)] \in 0 .. MaxRuns /\ MaxRuns \in Nat
      BY <2>1, QueueConstants DEF TypeOK
    <3>2. (IF runs[Task(d)] < MaxRuns THEN runs[Task(d)] + 1 ELSE runs[Task(d)]) \in 0 .. MaxRuns
      BY <3>1
    <3>3. runs' = [runs EXCEPT ![Task(d)] = IF runs[Task(d)] < MaxRuns THEN runs[Task(d)] + 1
                                            ELSE runs[Task(d)]]
      BY <1>2 DEF StartRun
    <3>4. QED
      BY <3>2, <3>3 DEF TypeOK
  <2>3. QED
    BY <1>2, <2>2 DEF TypeOK, HoldsTask, StartRun
<1>3. CASE EndRun(d)
  BY <1>3, TaskIsTask DEF TypeOK, HoldsTask, EndRun
<1>4. CASE AckRemove(d)
  <2>1. processing' \in Seq(Tasks)
    BY <1>4, WithoutIsList DEF TypeOK, AckRemove
  <2>2. QED
    BY <1>4, <2>1 DEF TypeOK, HoldsTask, AckRemove
<1>5. CASE AckDelete(d)
  BY <1>5 DEF TypeOK, HoldsTask, AckDelete
<1>6. CASE Report(d)
  <2>1. Task(d) \in Tasks /\ Tail(claimed[d]) \in Seq(Tasks)
    BY <1>6, TaskIsTask DEF Report
  <2>2. TypeOK'
    BY <1>6, <2>1 DEF TypeOK, Report, Reported
  <2>3. Len(claimed[d]) # 1 => Tail(claimed[d]) # <<>>
    <3>1. claimed[d] \in Seq(Tasks) /\ claimed[d] # <<>> /\ Len(claimed[d]) \in Nat \ {0}
      BY <1>6, TaskIsTask DEF Report
    <3>2. Len(Tail(claimed[d])) = Len(claimed[d]) - 1
      BY <3>1, HeadTailProperties
    <3>3. Len(<<>>) = 0
      BY EmptySeq
    <3>4. Len(claimed[d]) # 1 => Len(Tail(claimed[d])) # 0
      BY <3>1, <3>2
    <3>5. QED
      BY <3>3, <3>4, Zenon
  <2>4. HoldsTask'
    BY <1>6, <2>3 DEF TypeOK, HoldsTask, Report
  <2>5. QED
    BY <2>2, <2>4
<1>7. QED
  BY <1>1, <1>2, <1>3, <1>4, <1>5, <1>6

\* ... a command that fails, ...
LEMMA TypedFailure ==
    ASSUME Typed, NEW d \in Drainers,
           AcknowledgeFails(d) \/ DrainFails(d) \/ RemoveFails(d)
    PROVE  Typed'
<1>. USE DEF Typed, redis, drain, history, bounds, At, Goto
<1>1. CASE AcknowledgeFails(d)
  BY <1>1, QueueConstants DEF TypeOK, HoldsTask, AcknowledgeFails, Acknowledging, Verdicts
<1>2. CASE DrainFails(d)
  <2>1. /\ pc' = [pc EXCEPT ![d] = "idle"] /\ claimed' = [claimed EXCEPT ![d] = <<>>]
        /\ verdict' = [verdict EXCEPT ![d] = "NONE"]
        /\ faults < MaxFaults /\ faults' = faults + 1
        /\ UNCHANGED <<redis, submit, process, remembered, history, crashes>>
    BY <1>2 DEF DrainFails
  <2>2. QED
    BY <2>1, QueueConstants DEF TypeOK, HoldsTask
<1>3. CASE RemoveFails(d)
  BY <1>3, QueueConstants DEF TypeOK, HoldsTask, RemoveFails
<1>4. QED
  BY <1>1, <1>2, <1>3

\* ... a crash and a recovery keep them.
LEMMA TypedProcess ==
    ASSUME Typed, NEW p \in Processes, Crash(p) \/ Recover(p)
    PROVE  Typed'
<1>. USE DEF Typed, redis, drain, history, bounds
<1>1. CASE Crash(p)
  BY <1>1, QueueConstants DEF TypeOK, HoldsTask, Crash
<1>2. CASE Start(p)
  BY <1>2 DEF TypeOK, HoldsTask, Start
<1>3. CASE Requeue(p)
  <2>1. queue' \in Seq(Tasks) /\ processing' \in Seq(Tasks)
    <3>1. processing \in Seq(Tasks) /\ queue \in Seq(Tasks) /\ processing # <<>>
      BY <1>3 DEF TypeOK, Requeue
    <3>2. processing' = AllButLast(processing) /\ queue' = LastAndThen(processing, queue)
      BY <1>3 DEF Requeue, MoveBack, AllButLast, LastAndThen
    <3>3. QED
      BY <3>1, <3>2, MovedBack
  <2>2. QED
    BY <1>3, <2>1 DEF TypeOK, HoldsTask, Requeue
<1>4. CASE EndRequeue(p)
  BY <1>4 DEF TypeOK, HoldsTask, EndRequeue
<1>5. QED
  BY <1>1, <1>2, <1>3, <1>4 DEF Recover

\* So does every step.
LEMMA TypedStep == Typed /\ [Next]_vars => Typed'
<1>. SUFFICES ASSUME Typed, [Next]_vars PROVE Typed'
  OBVIOUS
<1>1. CASE UNCHANGED vars
  BY <1>1 DEF Typed, TypeOK, HoldsTask, vars, redis, drain, history, bounds
<1>2. CASE Next
  BY <1>2, TypedEnqueue, TypedClaim, TypedRun, TypedFailure, TypedProcess
     DEF Next, DrainOnce
<1>3. QED
  BY <1>1, <1>2

\* The lists hold tasks, the keys and the loops are in one of their states and
\* the counters keep to their bounds, for any number of processes and tasks.
THEOREM QueueTypes == Spec => []TypeOK
<1>1. Init => Typed
  BY TypedInit
<1>2. Typed => TypeOK
  BY DEF Typed
<1>3. QED
  BY <1>1, <1>2, TypedStep, PTL DEF Spec

-----------------------------------------------------------------------------
(* What a step does to the two lists, and that they implement the backlog *)

\* A task is put at the end of the second list, and so of both.
LEMMA PushedBehind ==
    ASSUME NEW S, NEW p \in Seq(S), NEW q \in Seq(S), NEW t \in S
    PROVE  p \o Append(q, t) = Append(p \o q, t)
OBVIOUS

\* Undone loses its i-th entry, the task t.
RemovedAt(t, i) ==
    /\ i \in 1 .. Len(Undone) /\ Undone[i] = t
    /\ Undone' = SubSeq(Undone, 1, i - 1) \o SubSeq(Undone, i + 1, Len(Undone))
    /\ LeavesOut(Tasks, Undone', Undone, Len(Undone), i)

\* A task is removed from the processing list alone, and so from both.
LEMMA RemovalIsAckd ==
    ASSUME Typed, NEW d \in Drainers, AckRemove(d)
    PROVE  UNCHANGED Undone \/ \E i \in 1 .. Len(Undone) : RemovedAt(Task(d), i)
<1>. processing \in Seq(Tasks) /\ queue \in Seq(Tasks) /\ queue' = queue
  BY DEF Typed, TypeOK, AckRemove
<1>1. CASE Task(d) \in payload /\ Task(d) \in Elements(processing)
  <2>1. PICK i \in 1 .. Len(processing) :
          /\ processing[i] = Task(d)
          /\ Without(processing, Task(d))
               = SubSeq(processing, 1, i - 1) \o SubSeq(processing, i + 1, Len(processing))
    BY <1>1, WithoutOnePlace
  <2>2. processing' = SubSeq(processing, 1, i - 1)
                        \o SubSeq(processing, i + 1, Len(processing))
    BY <1>1, <2>1 DEF AckRemove
  <2>3. /\ processing' \o queue
             = SubSeq(Undone, 1, i - 1) \o SubSeq(Undone, i + 1, Len(Undone))
        /\ LeavesOut(Tasks, processing' \o queue, Undone, Len(Undone), i)
    BY <2>2, LeftOutOfBoth DEF Undone, Both
  <2>4. i \in 1 .. Len(Undone) /\ Undone[i] = Task(d)
    <3>1. Len(Undone) = Len(processing) + Len(queue)
      BY DEF Undone, Both
    <3>2. Undone[i] = processing[i]
      BY DEF Undone, Both
    <3>3. QED
      BY <2>1, <3>1, <3>2
  <2>5. Undone' = processing' \o queue
    BY DEF Undone, Both
  <2>6. QED
    BY <2>3, <2>4, <2>5 DEF RemovedAt
<1>2. CASE ~(Task(d) \in payload /\ Task(d) \in Elements(processing))
  BY <1>2 DEF AckRemove, Without, Undone, Both
<1>3. QED
  BY <1>1, <1>2

\* Submissions append to the two lists, acknowledgements remove from them, and no
\* other step changes them; a run that returns handles its task.
LEMMA UndoneMoves ==
    ASSUME Typed, [Next]_vars
    PROVE  \/ UNCHANGED <<Undone, handled>>
           \/ \E t \in Tasks : Push(t) /\ Undone' = Append(Undone, t)
           \/ \E d \in Drainers : EndRun(d) /\ UNCHANGED Undone
           \/ \E d \in Drainers, i \in 1 .. Len(Undone) :
                AckRemove(d) /\ RemovedAt(Task(d), i)
<1>. USE DEF redis, drain, history, bounds
<1>1. CASE UNCHANGED vars
  BY <1>1 DEF vars, Undone, Both
<1>2. ASSUME NEW t \in Tasks, Enqueue(t) \/ EnqueueFails(t)
      PROVE  UNCHANGED <<Undone, handled>> \/ (Push(t) /\ Undone' = Append(Undone, t))
  <2>1. CASE Push(t)
    <3>1. processing' = processing /\ queue' = Append(queue, t)
      BY <2>1 DEF Push
    <3>2. processing \o Append(queue, t) = Append(processing \o queue, t)
      BY PushedBehind DEF Typed, TypeOK
    <3>3. QED
      BY <2>1, <3>1, <3>2 DEF Undone, Both
  <2>2. CASE StorePayload(t) \/ StampQueued(t) \/ EnqueueFails(t)
    BY <2>2 DEF StorePayload, StampQueued, EnqueueFails, Undone, Both
  <2>3. QED
    BY <1>2, <2>1, <2>2 DEF Enqueue
<1>3. ASSUME NEW d \in Drainers, Move(d)
      PROVE  UNCHANGED <<Undone, handled>>
  <2>1. Append(processing, Head(queue)) \o Tail(queue) = processing \o queue
    BY <1>3, MovedOver DEF Typed, TypeOK, Move
  <2>2. /\ processing' = Append(processing, Head(queue)) /\ queue' = Tail(queue)
        /\ handled' = handled
    BY <1>3 DEF Move, MoveToProcessing
  <2>3. QED
    BY <2>1, <2>2, Zenon DEF Undone, Both
<1>4. ASSUME NEW p \in Processes, Requeue(p)
      PROVE  UNCHANGED <<Undone, handled>>
  <2>1. processing \in Seq(Tasks) /\ queue \in Seq(Tasks) /\ processing # <<>>
    BY <1>4 DEF Typed, TypeOK, Requeue
  <2>2. /\ processing' = AllButLast(processing) /\ queue' = LastAndThen(processing, queue)
        /\ handled' = handled
    BY <1>4 DEF Requeue, MoveBack, AllButLast, LastAndThen
  <2>3. Both(processing', queue') = Both(processing, queue)
    BY <2>1, <2>2, MovedBack
  <2>4. QED
    BY <2>2, <2>3, Zenon DEF Undone
<1>5. ASSUME NEW d \in Drainers,
             \/ BeginClaim(d) \/ StampRunning(d) \/ EndClaim(d) \/ SuppressDuplicate(d)
             \/ StartRun(d) \/ AckDelete(d) \/ Report(d)
             \/ AcknowledgeFails(d) \/ DrainFails(d) \/ RemoveFails(d)
      PROVE  UNCHANGED <<Undone, handled>>
  BY <1>5 DEF BeginClaim, StampRunning, EndClaim, SuppressDuplicate, StartRun, AckDelete,
              Report, AcknowledgeFails, DrainFails, RemoveFails, Undone
<1>6. ASSUME NEW d \in Drainers, EndRun(d) PROVE UNCHANGED Undone
  BY <1>6 DEF EndRun, Undone, Both
<1>7. ASSUME NEW d \in Drainers, AckRemove(d)
      PROVE  \/ UNCHANGED <<Undone, handled>>
             \/ \E i \in 1 .. Len(Undone) : AckRemove(d) /\ RemovedAt(Task(d), i)
  BY <1>7, RemovalIsAckd DEF AckRemove
<1>8. ASSUME NEW p \in Processes, Crash(p) \/ Start(p) \/ EndRequeue(p)
      PROVE  UNCHANGED <<Undone, handled>>
  BY <1>8 DEF Crash, Start, EndRequeue, Undone, Both
<1>9. QED
  BY <1>1, <1>2, <1>3, <1>4, <1>5, <1>6, <1>7, <1>8 DEF Next, DrainOnce, Recover

\* Every place of rest is a place of list, from the i-th on the one after it.
FromPlaces(rest, list, k, i) ==
    \A j \in 1 .. Len(rest) : \E l \in 1 .. k :
        rest[j] = list[l] /\ l = IF j < i THEN j ELSE j + 1

\* So it is when the i-th place is left out.
LEMMA LeftPlaces ==
    ASSUME NEW S, NEW rest, NEW list, NEW k \in Nat, NEW i, LeavesOut(S, rest, list, k, i)
    PROVE  FromPlaces(rest, list, k, i)
<1>. SUFFICES ASSUME NEW j \in 1 .. Len(rest)
              PROVE  \E l \in 1 .. k : rest[j] = list[l] /\ l = IF j < i THEN j ELSE j + 1
  BY DEF FromPlaces
<1>1. j \in 1 .. k - 1
  BY DEF LeavesOut
<1>2. rest[j] = IF j < i THEN list[j] ELSE list[j + 1]
  BY <1>1 DEF LeavesOut
<1>3. j \in 1 .. k /\ j + 1 \in 1 .. k
  BY <1>1
<1>4. QED
  BY <1>2, <1>3

\* What the acknowledgements rely on is not lost: a task in hand changes when it
\* is claimed, reported, given up or lost in a crash, each before its run.
LEMMA HandledStep ==
    ASSUME Typed, AckedAreHandled, RememberedAreHandled, [Next]_vars
    PROVE  AckedAreHandled' /\ RememberedAreHandled'
<1>. USE DEF redis, drain, history, bounds, At, Goto, AckedAreHandled, RememberedAreHandled
<1>1. CASE UNCHANGED vars
  BY <1>1 DEF vars, Task
<1>2. ASSUME NEW t \in Tasks, Enqueue(t) \/ EnqueueFails(t)
      PROVE  AckedAreHandled' /\ RememberedAreHandled'
  BY <1>2 DEF Enqueue, Push, StorePayload, StampQueued, EnqueueFails, Task
<1>3. ASSUME NEW d \in Drainers, BeginClaim(d) \/ StampRunning(d) \/ EndClaim(d) \/ StartRun(d)
      PROVE  AckedAreHandled' /\ RememberedAreHandled'
  <2>1. /\ UNCHANGED <<claimed, handled, remembered>>
        /\ \E label \in {"idle", "claim", "run", "execute"} : pc' = [pc EXCEPT ![d] = label]
    BY <1>3 DEF BeginClaim, StampRunning, EndClaim, StartRun
  <2>2. QED
    BY <2>1 DEF Task, Typed, TypeOK
<1>4. ASSUME NEW d \in Drainers, Move(d)
      PROVE  AckedAreHandled' /\ RememberedAreHandled'
  <2>1. /\ UNCHANGED <<handled, remembered>> /\ pc' = [pc EXCEPT ![d] = "stamp"]
        /\ claimed' = [claimed EXCEPT ![d] = Append(@, Head(queue))]
    BY <1>4 DEF Move
  <2>2. QED
    BY <2>1 DEF Task, Typed, TypeOK
<1>5. ASSUME NEW d \in Drainers, SuppressDuplicate(d)
      PROVE  AckedAreHandled' /\ RememberedAreHandled'
  <2>1. /\ UNCHANGED <<claimed, handled, remembered>> /\ pc' = [pc EXCEPT ![d] = "ack"]
        /\ Task(d) \in remembered[Home(d)]
    BY <1>5 DEF SuppressDuplicate
  <2>2. Home(d) \in Processes
    BY DEF Drainers, Home
  <2>3. QED
    BY <2>1, <2>2 DEF Task, Typed, TypeOK
<1>6. ASSUME NEW d \in Drainers, EndRun(d)
      PROVE  AckedAreHandled' /\ RememberedAreHandled'
  <2>1. /\ claimed' = claimed /\ pc' = [pc EXCEPT ![d] = "ack"]
        /\ handled' = handled \cup {Task(d)}
    BY <1>6 DEF EndRun
  <2>2. \A p \in Processes : remembered'[p] \subseteq remembered[p] \cup {Task(d)}
    BY <1>6 DEF EndRun, Typed, TypeOK
  <2>3. AckedAreHandled'
    BY <2>1 DEF Task, Typed, TypeOK
  <2>4. RememberedAreHandled'
    BY <2>1, <2>2
  <2>5. QED
    BY <2>3, <2>4
<1>7. ASSUME NEW d \in Drainers, AckRemove(d) \/ AckDelete(d) \/ AcknowledgeFails(d) \/ RemoveFails(d)
      PROVE  AckedAreHandled' /\ RememberedAreHandled'
  <2>1. /\ UNCHANGED <<claimed, handled, remembered>>
        /\ pc[d] \in {"ack", "delete", "report"}
        /\ \E label : pc' = [pc EXCEPT ![d] = label]
    BY <1>7 DEF AckRemove, AckDelete, AcknowledgeFails, Acknowledging, RemoveFails
  <2>2. QED
    BY <2>1 DEF Task, Typed, TypeOK
<1>8. ASSUME NEW d \in Drainers, Report(d) \/ DrainFails(d)
      PROVE  AckedAreHandled' /\ RememberedAreHandled'
  <2>1. /\ UNCHANGED <<handled, remembered>>
        /\ \E label \in {"idle", "run"} : pc' = [pc EXCEPT ![d] = label]
        /\ \E list : claimed' = [claimed EXCEPT ![d] = list]
    BY <1>8 DEF Report, DrainFails
  <2>2. QED
    BY <2>1 DEF Task, Typed, TypeOK
<1>9. ASSUME NEW p \in Processes, Crash(p)
      PROVE  AckedAreHandled' /\ RememberedAreHandled'
  <2>1. /\ handled' = handled
        /\ remembered' = [remembered EXCEPT ![p] = {}]
        /\ pc' = [d \in Drainers |-> IF Home(d) = p THEN "idle" ELSE pc[d]]
        /\ claimed' = [d \in Drainers |-> IF Home(d) = p THEN <<>> ELSE claimed[d]]
    BY <1>9 DEF Crash
  <2>2. \A d \in Drainers : pc'[d] \in {"ack", "delete", "report"} =>
          pc'[d] = pc[d] /\ claimed'[d] = claimed[d]
    BY <2>1
  <2>3. AckedAreHandled'
    BY <2>1, <2>2 DEF Task
  <2>4. RememberedAreHandled'
    BY <2>1 DEF Typed, TypeOK
  <2>5. QED
    BY <2>3, <2>4
<1>10. ASSUME NEW p \in Processes, Recover(p)
      PROVE  AckedAreHandled' /\ RememberedAreHandled'
  BY <1>10 DEF Recover, Start, Requeue, EndRequeue, Task
<1>11. QED
  BY <1>1, <1>2, <1>3, <1>4, <1>5, <1>6, <1>7, <1>8, <1>9, <1>10 DEF Next, DrainOnce

\* A submission that was begun stays begun, and begins in its turn.
LEMMA SubmitStep ==
    ASSUME Typed, [Next]_vars
    PROVE  /\ \A t \in Tasks : submit[t] # "new" => submit'[t] # "new"
           /\ \A t \in Tasks : submit[t] = "new" /\ submit'[t] # "new" => Push(t)
<1>. USE DEF redis, drain, history, bounds
<1>1. CASE UNCHANGED submit
  BY <1>1
<1>2. ASSUME NEW t \in Tasks, Push(t)
      PROVE  \A u \in Tasks \ {t} : submit'[u] = submit[u]
  BY <1>2 DEF Push, Typed, TypeOK
<1>3. ASSUME NEW t \in Tasks, Push(t)
      PROVE  submit'[t] # "new"
  BY <1>3 DEF Push, Typed, TypeOK
<1>4. ASSUME NEW t \in Tasks, StorePayload(t) \/ StampQueued(t) \/ EnqueueFails(t)
      PROVE  /\ \A u \in Tasks \ {t} : submit'[u] = submit[u]
             /\ submit[t] # "new" /\ submit'[t] # "new"
  BY <1>4 DEF StorePayload, StampQueued, EnqueueFails, Typed, TypeOK
<1>5. CASE \/ \E d \in Drainers : DrainOnce(d) \/ AcknowledgeFails(d) \/ DrainFails(d) \/ RemoveFails(d)
           \/ \E p \in Processes : Crash(p) \/ Recover(p)
  <2>1. UNCHANGED submit
    BY <1>5 DEF DrainOnce, BeginClaim, Move, StampRunning, EndClaim, SuppressDuplicate,
                StartRun, EndRun, AckRemove, AckDelete, Report, AcknowledgeFails, DrainFails,
                RemoveFails, Recover, Crash, Start, Requeue, EndRequeue
  <2>2. QED
    BY <2>1
<1>6. CASE UNCHANGED vars
  BY <1>6 DEF vars
<1>7. QED
  BY <1>1, <1>2, <1>3, <1>4, <1>5, <1>6 DEF Next, Enqueue

\* What is pushed is in order, and what is in the lists was pushed, and is there
\* once.
LEMMA PushedStep ==
    ASSUME Typed, PushedInOrder, UndoneArePushed, UndoneOnce, [Next]_vars
    PROVE  PushedInOrder' /\ UndoneArePushed' /\ UndoneOnce'
<1>. Undone \in Seq(Tasks) /\ Len(Undone) \in Nat
  <2>1. processing \o queue \in Seq(Tasks)
    BY DEF Typed, TypeOK
  <2>2. QED
    BY <2>1, LenProperties DEF Undone, Both
<1>. \A i \in 1 .. Len(Undone) : Undone[i] \in Tasks
  OBVIOUS
<1>1. PushedInOrder'
  <2>. SUFFICES ASSUME NEW t \in Tasks, NEW u \in Tasks, u < t, submit'[t] # "new"
                PROVE  submit'[u] # "new"
    BY DEF PushedInOrder
  <2>1. CASE submit[t] # "new"
    BY <2>1, SubmitStep DEF PushedInOrder
  <2>2. CASE submit[t] = "new"
    BY <2>2, SubmitStep DEF Push
  <2>3. QED
    BY <2>1, <2>2
<1>2. ASSUME NEW t \in Tasks, Push(t), Undone' = Append(Undone, t)
      PROVE  UndoneArePushed' /\ UndoneOnce'
  <2>1. /\ Len(Undone') = Len(Undone) + 1 /\ Undone'[Len(Undone) + 1] = t
        /\ \A i \in 1 .. Len(Undone) : Undone'[i] = Undone[i]
    BY <1>2, AppendProperties
  <2>2. \A i \in 1 .. Len(Undone') : i \in 1 .. Len(Undone) \/ i = Len(Undone) + 1
    BY <2>1
  <2>3. submit[t] = "new" /\ submit'[t] # "new"
    BY <1>2 DEF Push, Typed, TypeOK
  <2>4. \A i \in 1 .. Len(Undone) : Undone[i] # t /\ submit'[Undone[i]] # "new"
    BY <2>3, SubmitStep DEF UndoneArePushed
  <2>5. UndoneArePushed'
    BY <2>1, <2>2, <2>3, <2>4 DEF UndoneArePushed
  <2>6. UndoneOnce'
    BY <2>1, <2>2, <2>4 DEF UndoneOnce
  <2>7. QED
    BY <2>5, <2>6
<1>3. ASSUME NEW t, NEW i \in 1 .. Len(Undone), RemovedAt(t, i)
      PROVE  UndoneArePushed' /\ UndoneOnce'
  <2>1. \A j \in 1 .. Len(Undone') : \E l \in 1 .. Len(Undone) :
          Undone'[j] = Undone[l] /\ l = IF j < i THEN j ELSE j + 1
    <3>1. LeavesOut(Tasks, Undone', Undone, Len(Undone), i)
      BY <1>3 DEF RemovedAt
    <3>2. FromPlaces(Undone', Undone, Len(Undone), i)
      BY <3>1, LeftPlaces
    <3>3. QED
      BY <3>2 DEF FromPlaces
  <2>2. UndoneArePushed'
    BY <2>1, SubmitStep DEF UndoneArePushed
  <2>3. ASSUME NEW j \in 1 .. Len(Undone'), NEW k \in 1 .. Len(Undone'),
               Undone'[j] = Undone'[k]
        PROVE  j = k
    <3>1. PICK l \in 1 .. Len(Undone) :
            Undone'[j] = Undone[l] /\ l = IF j < i THEN j ELSE j + 1
      BY <2>1
    <3>2. PICK m \in 1 .. Len(Undone) :
            Undone'[k] = Undone[m] /\ m = IF k < i THEN k ELSE k + 1
      BY <2>1
    <3>3. l = m
      BY <2>3, <3>1, <3>2 DEF UndoneOnce
    <3>4. j \in Nat /\ k \in Nat /\ i \in Nat
      <4>1. Len(Undone') = Len(Undone) - 1
        BY <1>3 DEF RemovedAt, LeavesOut
      <4>2. QED
        BY <4>1
    <3>5. QED
      BY <3>1, <3>2, <3>3, <3>4
  <2>4. QED
    BY <2>2, <2>3 DEF UndoneOnce
<1>4. ASSUME UNCHANGED Undone PROVE UndoneArePushed' /\ UndoneOnce'
  <2>1. UndoneArePushed'
    BY <1>4, SubmitStep DEF UndoneArePushed
  <2>2. UndoneOnce'
    BY <1>4 DEF UndoneOnce
  <2>3. QED
    BY <2>1, <2>2
<1>5. UndoneArePushed' /\ UndoneOnce'
  BY <1>2, <1>3, <1>4, UndoneMoves
<1>6. QED
  BY <1>1, <1>5

\* The invariant of any number of processes.
LEMMA QueueInvariant == Spec => [](Typed /\ QueueInv /\ UndoneOnce)
<1>1. Init => Typed /\ QueueInv /\ UndoneOnce
  <2>. SUFFICES ASSUME Init PROVE Typed /\ QueueInv /\ UndoneOnce
    OBVIOUS
  <2>1. Len(Undone) = 0
    BY DEF Init, Undone, Both
  <2>2. AckedAreHandled /\ RememberedAreHandled /\ PushedInOrder
    BY DEF Init, AckedAreHandled, RememberedAreHandled, PushedInOrder
  <2>3. UndoneArePushed /\ UndoneOnce
    BY <2>1 DEF UndoneArePushed, UndoneOnce
  <2>4. QED
    BY <2>2, <2>3, TypedInit DEF QueueInv
<1>2. Typed /\ QueueInv /\ UndoneOnce /\ [Next]_vars => (Typed /\ QueueInv /\ UndoneOnce)'
  BY TypedStep, HandledStep, PushedStep DEF QueueInv
<1>3. QED
  BY <1>1, <1>2, PTL DEF Spec

\* The two lists of Redis implement the backlog: claims by any number of drain
\* loops, processes that die or take tasks back, and commands that fail move its
\* border and lose, repeat and reorder nothing; a task leaves after a run of it.
THEOREM QueueImplementsAtLeastOnce == Spec => ImplementsAtLeastOnce
<1>1. Init => Backlog!Init
  BY DEF Init, Backlog!Init
<1>2. Typed /\ QueueInv /\ [Next]_vars => [Backlog!Next]_<<processing \o queue, handled>>
  <2>. SUFFICES ASSUME Typed, QueueInv, [Next]_vars
                PROVE  Backlog!Next \/ UNCHANGED <<Undone, handled>>
    BY DEF Undone, Both
  <2>. Undone \in Seq(Tasks)
    <3>1. processing \o queue \in Seq(Tasks)
      BY DEF Typed, TypeOK
    <3>2. QED
      BY <3>1 DEF Undone, Both
  <2>1. ASSUME NEW t \in Tasks, Push(t), Undone' = Append(Undone, t) PROVE Backlog!Submit(t)
    <3>1. handled' = handled /\ submit[t] = "new"
      BY <2>1 DEF Push, history
    <3>2. ASSUME NEW i \in 1 .. Len(Undone) PROVE Undone[i] < t
      <4>1. Undone[i] \in Tasks /\ submit[Undone[i]] # "new"
        BY DEF QueueInv, UndoneArePushed
      <4>2. ~(t < Undone[i]) /\ t # Undone[i]
        BY <3>1, <4>1 DEF QueueInv, PushedInOrder
      <4>3. Undone[i] \in Nat /\ t \in Nat
        BY <4>1, QueueConstants
      <4>4. QED
        BY <4>2, <4>3
    <3>3. QED
      BY <2>1, <3>1, <3>2 DEF Backlog!Submit, Undone, Both
  <2>2. ASSUME NEW d \in Drainers, EndRun(d), UNCHANGED Undone
        PROVE  Task(d) \in Tasks /\ Backlog!Handle(Task(d))
    <3>1. Task(d) \in Tasks
      BY <2>2, TaskIsTask DEF EndRun, At
    <3>2. QED
      BY <2>2, <3>1 DEF EndRun, Backlog!Handle, Undone, Both
  <2>3. ASSUME NEW d \in Drainers, NEW i \in 1 .. Len(Undone),
               AckRemove(d), RemovedAt(Task(d), i)
        PROVE  Task(d) \in Tasks /\ Backlog!Acknowledge(Task(d))
    <3>1. Task(d) \in Tasks /\ Task(d) \in handled /\ handled' = handled
      BY <2>3, TaskIsTask DEF AckRemove, At, QueueInv, AckedAreHandled, history
    <3>2. QED
      BY <2>3, <3>1 DEF RemovedAt, Backlog!Acknowledge, Undone, Both
  <2>4. QED
    BY <2>1, <2>2, <2>3, UndoneMoves DEF Backlog!Next
<1>3. QED
  BY <1>1, <1>2, QueueInvariant, PTL DEF Spec, ImplementsAtLeastOnce, Backlog!Spec

-----------------------------------------------------------------------------
(* A single process *)

OneProcess == \E p : Processes = {p}

\* What is in the second list when a task comes to its end ...
LEMMA ElementsOfAppend ==
    ASSUME NEW S, NEW q \in Seq(S), NEW t \in S
    PROVE  Elements(Append(q, t)) = Elements(q) \cup {t}
<1>1. /\ Len(Append(q, t)) = Len(q) + 1 /\ Append(q, t)[Len(q) + 1] = t
      /\ \A i \in 1 .. Len(q) : Append(q, t)[i] = q[i]
  BY AppendProperties
<1>2. Len(q) \in Nat
  OBVIOUS
<1>3. \A x : x \in Elements(Append(q, t)) => x \in Elements(q) \/ x = t
  BY <1>1, <1>2 DEF Elements
<1>4. \A x \in Elements(q) : x \in Elements(Append(q, t))
  BY <1>1, <1>2 DEF Elements
<1>5. t \in Elements(Append(q, t))
  BY <1>1, <1>2 DEF Elements
<1>6. QED
  BY <1>3, <1>4, <1>5

\* ... or leaves it at its head, ...
LEMMA ElementsOfTail ==
    ASSUME NEW S, NEW q \in Seq(S), q # <<>>
    PROVE  Elements(Tail(q)) \subseteq Elements(q) /\ Head(q) \in Elements(q)
<1>1. /\ Len(q) \in Nat \ {0} /\ Len(Tail(q)) = Len(q) - 1
      /\ \A i \in 1 .. Len(q) - 1 : Tail(q)[i] = q[i + 1]
  BY EmptySeq, HeadTailProperties
<1>2. Head(q) = q[1]
  BY <1>1
<1>3. QED
  BY <1>1, <1>2 DEF Elements

\* ... or is taken back to it from the first.
LEMMA ElementsTakenBack ==
    ASSUME NEW S, NEW p \in Seq(S), NEW q \in Seq(S), p # <<>>
    PROVE  /\ Elements(LastAndThen(p, q)) \subseteq Elements(q) \cup Elements(p)
           /\ Elements(AllButLast(p)) \subseteq Elements(p)
<1>1. Len(p) \in Nat \ {0} /\ Len(q) \in Nat /\ \A i \in 1 .. Len(p) : p[i] \in S
  BY EmptySeq
<1>2. p[Len(p)] \in Elements(p) /\ p[Len(p)] \in S
  BY <1>1 DEF Elements
<1>3. Elements(<<p[Len(p)]>> \o q) \subseteq Elements(q) \cup {p[Len(p)]}
  <2>1. ASSUME NEW e \in S, NEW i \in 1 .. Len(<<e>> \o q)
        PROVE  (<<e>> \o q)[i] \in Elements(q) \cup {e}
    <3>1. CASE i = 1
      BY <3>1
    <3>2. CASE i # 1
      <4>1. i - 1 \in 1 .. Len(q)
        BY <1>1, <3>2
      <4>2. (<<e>> \o q)[i] = q[i - 1]
        BY <1>1, <3>2
      <4>3. QED
        BY <4>1, <4>2 DEF Elements
    <3>3. QED
      BY <3>1, <3>2
  <2>2. QED
    BY <1>2, <2>1 DEF Elements
<1>4. Elements(AllButLast(p)) \subseteq Elements(p)
  <2>1. ASSUME NEW k \in Nat, k < Len(p)
        PROVE  Elements(SubSeq(p, 1, k)) \subseteq Elements(p)
    <3>1. Len(SubSeq(p, 1, k)) = k /\ 1 .. k \subseteq 1 .. Len(p)
      BY <1>1, <2>1
    <3>2. \A i \in 1 .. k : SubSeq(p, 1, k)[i] = p[i]
      BY <1>1, <2>1
    <3>3. QED
      BY <3>1, <3>2 DEF Elements
  <2>2. Len(p) - 1 \in Nat /\ Len(p) - 1 < Len(p)
    BY <1>1
  <2>3. QED
    BY <2>1, <2>2 DEF AllButLast
<1>5. QED
  BY <1>2, <1>3, <1>4 DEF LastAndThen

\* The task at the head of the queue was pushed and is not further down in it.
LEMMA HeadIsOnce ==
    ASSUME Typed, UndoneArePushed, UndoneOnce, queue # <<>>
    PROVE  /\ Head(queue) \in Tasks /\ submit[Head(queue)] # "new"
           /\ Head(queue) \notin Elements(Tail(queue))
<1>. processing \in Seq(Tasks) /\ queue \in Seq(Tasks)
  BY DEF Typed, TypeOK
<1>. Len(processing) \in Nat
  OBVIOUS
<1>1. /\ Len(queue) \in Nat \ {0} /\ Len(Tail(queue)) = Len(queue) - 1
      /\ \A i \in 1 .. Len(queue) - 1 : Tail(queue)[i] = queue[i + 1]
  BY EmptySeq, HeadTailProperties
<1>2. /\ Len(Undone) = Len(processing) + Len(queue)
      /\ \A i \in 1 .. Len(queue) : Undone[Len(processing) + i] = queue[i]
  BY ConcatProperties DEF Undone, Both
<1>3. Head(queue) = queue[1] /\ queue[1] \in Tasks
  BY <1>1
<1>4. \A i \in 1 .. Len(queue) : Len(processing) + i \in 1 .. Len(Undone)
  BY <1>1, <1>2
<1>5. \A i \in 1 .. Len(queue) - 1 : queue[i + 1] # queue[1]
  BY <1>1, <1>2, <1>4 DEF UndoneOnce
<1>6. Undone[Len(processing) + 1] = queue[1] /\ Len(processing) + 1 \in 1 .. Len(Undone)
  BY <1>1, <1>2, <1>4
<1>7. QED
  BY <1>1, <1>3, <1>5, <1>6 DEF UndoneArePushed, Elements

\* Most steps leave a claim as it is, with a task that was given to run_pipeline
\* still given to it, or drop it ...
KeptOrDropped(d) ==
    \/ claimed'[d] = <<>>
    \/ claimed'[d] = claimed[d] /\ (Running(d) => Running(d)')

\* ... and put no task into the queue or back to "new" that was pushed before.
QueuedAreQueued == \A t \in Tasks : submit[t] # "new" =>
    submit'[t] # "new" /\ (t \in Elements(queue)' => t \in Elements(queue))

\* Such steps leave a task in one place of one claim, and out of the queue.
LEMMA ClaimsKept ==
    ASSUME Typed, ClaimsInv, QueuedAreQueued, \A d \in Drainers : KeptOrDropped(d)
    PROVE  ClaimsInv'
<1>1. ASSUME NEW d \in Drainers, NEW i \in 1 .. Len(claimed'[d])
      PROVE  claimed'[d] = claimed[d] /\ i \in 1 .. Len(claimed[d]) /\ claimed[d][i] \in Tasks
  <2>1. claimed'[d] # <<>>
    BY <1>1
  <2>2. claimed'[d] = claimed[d]
    BY <2>1 DEF KeptOrDropped
  <2>3. claimed[d] \in Seq(Tasks)
    BY DEF Typed, TypeOK
  <2>4. QED
    BY <2>2, <2>3
<1>2. ClaimedArePushed'
  BY <1>1 DEF ClaimsInv, ClaimedArePushed, QueuedAreQueued
<1>3. ClaimedOnce'
  BY <1>1 DEF ClaimsInv, ClaimedOnce
<1>4. QED
  BY <1>2, <1>3 DEF ClaimsInv

\* A task that is still to be run after such a step was so before it, ...
LEMMA ToBeRunKept ==
    ASSUME Typed, NEW t \in Tasks, QueuedAreQueued,
           \A d \in Drainers : KeptOrDropped(d),
           \A p \in Processes : process'[p] # "up" /\ t \in Elements(processing)'
               => process[p] # "up" /\ t \in Elements(processing),
           ToBeRun(t)'
    PROVE  ToBeRun(t)
<1>1. CASE submit[t] = "new"
  BY <1>1 DEF ToBeRun
<1>2. CASE submit[t] # "new" /\ t \in Elements(queue)'
  BY <1>2 DEF ToBeRun, QueuedAreQueued
<1>3. CASE \E p \in Processes : process'[p] # "up" /\ t \in Elements(processing)'
  BY <1>3 DEF ToBeRun
<1>4. ASSUME NEW d \in Drainers, NEW i \in Ahead(d)', claimed'[d][i] = t
      PROVE  ToBeRun(t)
  <2>1. i \in 1 .. Len(claimed'[d]) /\ (Running(d)' => i # 1)
    BY <1>4 DEF Ahead
  <2>2. claimed'[d] # <<>>
    BY <2>1
  <2>3. claimed'[d] = claimed[d] /\ (Running(d) => Running(d)')
    BY <2>2 DEF KeptOrDropped
  <2>4. i \in Ahead(d) /\ claimed[d][i] = t
    BY <1>4, <2>1, <2>3 DEF Ahead
  <2>5. QED
    BY <2>4 DEF ToBeRun
<1>5. QED
  BY <1>1, <1>2, <1>3, <1>4 DEF ToBeRun, QueuedAreQueued

\* ... and all the steps are such but three: a task is moved to the second list,
\* reported, or moved back.
Keeps ==
    \/ \E t \in Tasks : Enqueue(t) \/ EnqueueFails(t)
    \/ \E d \in Drainers :
         \/ BeginClaim(d) \/ StampRunning(d) \/ EndClaim(d)
         \/ SuppressDuplicate(d) \/ StartRun(d) \/ EndRun(d)
         \/ AckRemove(d) \/ AckDelete(d)
         \/ AcknowledgeFails(d) \/ DrainFails(d) \/ RemoveFails(d)
    \/ \E p \in Processes : Crash(p) \/ Start(p) \/ EndRequeue(p)

\* None of these steps gives a loop a task or takes one back from run_pipeline ...
LEMMA KeepsOrDrops ==
    ASSUME Typed, Keeps
    PROVE  \A d \in Drainers : KeptOrDropped(d)
<1>. SUFFICES ASSUME NEW e \in Drainers PROVE KeptOrDropped(e)
  OBVIOUS
<1>. pc \in [Drainers -> {"idle", "claim", "stamp", "run", "execute", "ack",
                          "delete", "report"}]
     /\ claimed \in [Drainers -> Seq(Tasks)]
  BY DEF Typed, TypeOK
<1>1. ASSUME claimed' = claimed, pc' = pc PROVE KeptOrDropped(e)
  BY <1>1 DEF KeptOrDropped, Running
<1>2. ASSUME NEW d \in Drainers, NEW label, claimed' = claimed, Goto(d, label),
             Running(d) => label \in {"execute", "ack", "delete", "report"}
      PROVE  KeptOrDropped(e)
  BY <1>2 DEF KeptOrDropped, Running, Goto
<1>3. CASE \E t \in Tasks : Enqueue(t) \/ EnqueueFails(t)
  BY <1>1, <1>3 DEF Enqueue, Push, StorePayload, StampQueued, EnqueueFails, drain
<1>4. ASSUME NEW d \in Drainers, BeginClaim(d) \/ StampRunning(d) \/ EndClaim(d)
      PROVE  KeptOrDropped(e)
  <2>1. claimed' = claimed /\ ~Running(d) /\ \E label : Goto(d, label)
    BY <1>4 DEF BeginClaim, StampRunning, EndClaim, At, Running
  <2>2. QED
    BY <1>2, <2>1
<1>5. ASSUME NEW d \in Drainers,
             SuppressDuplicate(d) \/ StartRun(d) \/ EndRun(d) \/ AckRemove(d)
               \/ AckDelete(d) \/ AcknowledgeFails(d) \/ RemoveFails(d)
      PROVE  KeptOrDropped(e)
  <2>1. claimed' = claimed
    BY <1>5 DEF SuppressDuplicate, StartRun, EndRun, AckRemove, AckDelete,
                AcknowledgeFails, RemoveFails
  <2>2. Goto(d, "execute") \/ Goto(d, "ack") \/ Goto(d, "delete") \/ Goto(d, "report")
    BY <1>5 DEF SuppressDuplicate, StartRun, EndRun, AckRemove, AckDelete,
                AcknowledgeFails, RemoveFails
  <2>3. QED
    BY <1>2, <2>1, <2>2
<1>6. ASSUME NEW d \in Drainers, DrainFails(d) PROVE KeptOrDropped(e)
  <2>1. /\ claimed' = [claimed EXCEPT ![d] = <<>>]
        /\ pc' = [pc EXCEPT ![d] = "idle"]
    BY <1>6 DEF DrainFails, Goto
  <2>2. CASE e = d
    BY <2>1, <2>2 DEF KeptOrDropped
  <2>3. CASE e # d
    BY <2>1, <2>3 DEF KeptOrDropped, Running
  <2>4. QED
    BY <2>2, <2>3
<1>7. ASSUME NEW p \in Processes, Crash(p) PROVE KeptOrDropped(e)
  <2>1. /\ claimed'[e] = IF Home(e) = p THEN <<>> ELSE claimed[e]
        /\ pc'[e] = IF Home(e) = p THEN "idle" ELSE pc[e]
    BY <1>7 DEF Crash
  <2>2. QED
    BY <2>1 DEF KeptOrDropped, Running
<1>8. ASSUME NEW p \in Processes, Start(p) \/ EndRequeue(p) PROVE KeptOrDropped(e)
  BY <1>1, <1>8 DEF Start, EndRequeue, drain
<1>9. QED
  BY <1>3, <1>4, <1>5, <1>6, <1>7, <1>8 DEF Keeps

\* ... and none of them queues a task again.
LEMMA QueueKeeps ==
    ASSUME Typed, Keeps
    PROVE  QueuedAreQueued
<1>. queue \in Seq(Tasks)
     /\ submit \in [Tasks -> {"new", "pushed", "stored", "accepted", "error"}]
  BY DEF Typed, TypeOK
<1>1. ASSUME queue' = queue, submit' = submit PROVE QueuedAreQueued
  BY <1>1 DEF QueuedAreQueued, Elements
<1>2. ASSUME NEW t \in Tasks, Push(t) PROVE QueuedAreQueued
  <2>1. Elements(Append(queue, t)) = Elements(queue) \cup {t}
    BY ElementsOfAppend
  <2>2. Elements(queue)' = Elements(queue) \cup {t}
    BY <1>2, <2>1 DEF Push, Elements
  <2>3. QED
    BY <1>2, <2>2 DEF Push, QueuedAreQueued
<1>3. ASSUME NEW t \in Tasks, StorePayload(t) \/ StampQueued(t) \/ EnqueueFails(t)
      PROVE  QueuedAreQueued
  BY <1>3 DEF StorePayload, StampQueued, EnqueueFails, redis, QueuedAreQueued, Elements
<1>4. ASSUME NEW d \in Drainers,
             \/ BeginClaim(d) \/ StampRunning(d) \/ EndClaim(d)
             \/ SuppressDuplicate(d) \/ StartRun(d) \/ EndRun(d)
             \/ AckRemove(d) \/ AckDelete(d)
             \/ AcknowledgeFails(d) \/ DrainFails(d) \/ RemoveFails(d)
      PROVE  QueuedAreQueued
  BY <1>1, <1>4 DEF BeginClaim, StampRunning, EndClaim, SuppressDuplicate, StartRun,
       EndRun, AckRemove, AckDelete, AcknowledgeFails, DrainFails, RemoveFails, redis
<1>5. ASSUME NEW p \in Processes, Crash(p) \/ Start(p) \/ EndRequeue(p)
      PROVE  QueuedAreQueued
  BY <1>1, <1>5 DEF Crash, Start, EndRequeue, redis
<1>6. QED
  BY <1>2, <1>3, <1>4, <1>5 DEF Keeps, Enqueue

\* A task is in one place of one claim.
LEMMA SamePlace ==
    ASSUME ClaimsInv, NEW e \in Drainers, NEW f \in Drainers,
           NEW k \in 1 .. Len(claimed[e]), NEW n \in 1 .. Len(claimed[f]),
           claimed[e][k] = claimed[f][n]
    PROVE  e = f /\ k = n
<1>1. \A x, y \in Drainers : \A i \in 1 .. Len(claimed[x]), j \in 1 .. Len(claimed[y]) :
        claimed[x][i] = claimed[y][j] => x = y /\ i = j
  BY Zenon DEF ClaimsInv, ClaimedOnce
<1>2. QED
  BY <1>1, Zenon

\* The claim of a task takes it out of the queue and puts it last in the hands of
\* one loop.
LEMMA ClaimTaken ==
    ASSUME Typed, UndoneArePushed, UndoneOnce, ClaimsInv, NEW d \in Drainers, Move(d)
    PROVE  ClaimsInv'
<1>. DEFINE t == Head(queue)
<1>1. /\ t \in Tasks /\ submit[t] # "new" /\ t \notin Elements(Tail(queue))
      /\ queue \in Seq(Tasks) /\ queue # <<>>
      /\ claimed \in [Drainers -> Seq(Tasks)]
  BY HeadIsOnce DEF Move, Typed, TypeOK
<1>2. /\ submit' = submit /\ Elements(queue)' = Elements(Tail(queue))
      /\ claimed' = [claimed EXCEPT ![d] = Append(@, t)]
  BY DEF Move, MoveToProcessing, Elements
<1>3. /\ t \notin Elements(queue)' /\ t \in Elements(queue)
      /\ Elements(queue)' \subseteq Elements(queue)
  BY <1>1, <1>2, ElementsOfTail
<1>. HIDE DEF t
<1>4. ASSUME NEW e \in Drainers, NEW i \in 1 .. Len(claimed'[e])
      PROVE  \/ i \in 1 .. Len(claimed[e]) /\ claimed'[e][i] = claimed[e][i]
             \/ e = d /\ i = Len(claimed[d]) + 1 /\ claimed'[e][i] = t
  <2>1. CASE e # d
    BY <1>2, <1>4, <2>1
  <2>2. CASE e = d
    <3>1. claimed'[e] = Append(claimed[d], t) /\ claimed[d] \in Seq(Tasks)
      BY <1>1, <1>2, <2>2
    <3>2. /\ Len(Append(claimed[d], t)) = Len(claimed[d]) + 1
          /\ Append(claimed[d], t)[Len(claimed[d]) + 1] = t
          /\ \A j \in 1 .. Len(claimed[d]) : Append(claimed[d], t)[j] = claimed[d][j]
      BY <1>1, <3>1, AppendProperties
    <3>3. Len(claimed[d]) \in Nat
      BY <3>1
    <3>4. i \in 1 .. Len(claimed[d]) \/ i = Len(claimed[d]) + 1
      BY <1>4, <3>1, <3>2, <3>3
    <3>5. QED
      BY <2>2, <3>1, <3>2, <3>4
  <2>3. QED
    BY <2>1, <2>2
<1>5. ClaimedArePushed'
  BY <1>1, <1>2, <1>3, <1>4 DEF ClaimsInv, ClaimedArePushed
<1>6. \A e \in Drainers : \A i \in 1 .. Len(claimed[e]) : claimed[e][i] # t
  BY <1>3 DEF ClaimsInv, ClaimedArePushed
<1>7. ClaimedOnce'
  <2>. SUFFICES ASSUME NEW e \in Drainers, NEW f \in Drainers,
                       NEW i \in 1 .. Len(claimed'[e]), NEW j \in 1 .. Len(claimed'[f]),
                       claimed'[e][i] = claimed'[f][j]
       PROVE  e = f /\ i = j
    BY Zenon DEF ClaimedOnce
  <2>1. CASE i \in 1 .. Len(claimed[e]) /\ claimed'[e][i] = claimed[e][i]
    <3>1. j \in 1 .. Len(claimed[f]) /\ claimed'[f][j] = claimed[f][j]
      BY <1>4, <1>6, <2>1, Zenon
    <3>2. claimed[e][i] = claimed[f][j]
      BY <2>1, <3>1, Zenon
    <3>3. QED
      BY <2>1, <3>1, <3>2, SamePlace
  <2>2. CASE e = d /\ i = Len(claimed[d]) + 1 /\ claimed'[e][i] = t
    <3>1. f = d /\ j = Len(claimed[d]) + 1
      BY <1>4, <1>6, <2>2, Zenon
    <3>2. QED
      BY <2>2, <3>1
  <2>3. QED
    BY <1>4, <2>1, <2>2, Zenon
<1>8. QED
  BY <1>5, <1>7 DEF ClaimsInv

\* The places of a claim after its first task was reported.
LEMMA ClaimBehind ==
    ASSUME Typed, NEW d \in Drainers, Report(d)
    PROVE  \A e \in Drainers : \A i \in 1 .. Len(claimed'[e]) :
             \/ e # d /\ i \in 1 .. Len(claimed[e]) /\ claimed'[e][i] = claimed[e][i]
             \/ /\ e = d /\ i \in Nat \ {0} /\ i + 1 \in 1 .. Len(claimed[e])
                /\ claimed'[e][i] = claimed[e][i + 1]
<1>. SUFFICES ASSUME NEW e \in Drainers, NEW i \in 1 .. Len(claimed'[e])
     PROVE  \/ e # d /\ i \in 1 .. Len(claimed[e]) /\ claimed'[e][i] = claimed[e][i]
            \/ /\ e = d /\ i \in Nat \ {0} /\ i + 1 \in 1 .. Len(claimed[e])
               /\ claimed'[e][i] = claimed[e][i + 1]
  OBVIOUS
<1>1. /\ claimed' = [claimed EXCEPT ![d] = Tail(@)]
      /\ claimed \in [Drainers -> Seq(Tasks)] /\ claimed[d] # <<>>
  BY DEF Report, At, Typed, TypeOK, HoldsTask
<1>2. CASE e # d
  BY <1>1, <1>2
<1>3. CASE e = d
  <2>1. claimed'[e] = Tail(claimed[d]) /\ claimed[d] \in Seq(Tasks)
    BY <1>1, <1>3
  <2>2. /\ Len(claimed[d]) \in Nat \ {0} /\ Len(Tail(claimed[d])) = Len(claimed[d]) - 1
        /\ \A j \in 1 .. Len(claimed[d]) - 1 : Tail(claimed[d])[j] = claimed[d][j + 1]
    BY <1>1, <2>1, EmptySeq, HeadTailProperties
  <2>3. i \in 1 .. Len(claimed[d]) - 1
    BY <2>1, <2>2
  <2>4. i \in Nat \ {0} /\ i + 1 \in 1 .. Len(claimed[d])
    BY <2>2, <2>3
  <2>5. QED
    BY <1>3, <2>1, <2>2, <2>3, <2>4
<1>4. QED
  BY <1>2, <1>3

\* The report of a task leaves the others of the claim where they were, one
\* place on.
LEMMA ClaimReported ==
    ASSUME Typed, ClaimsInv, NEW d \in Drainers, Report(d)
    PROVE  ClaimsInv'
<1>1. submit' = submit /\ Elements(queue)' = Elements(queue)
  BY DEF Report, Elements
<1>2. ClaimedArePushed'
  BY <1>1, ClaimBehind DEF ClaimsInv, ClaimedArePushed
<1>3. ClaimedOnce'
  <2>. SUFFICES ASSUME NEW e \in Drainers, NEW f \in Drainers,
                       NEW i \in 1 .. Len(claimed'[e]), NEW j \in 1 .. Len(claimed'[f]),
                       claimed'[e][i] = claimed'[f][j]
       PROVE  e = f /\ i = j
    BY DEF ClaimedOnce
  <2>1. i \in Nat /\ j \in Nat
    BY ClaimBehind
  <2>2. PICK k \in 1 .. Len(claimed[e]) :
             claimed'[e][i] = claimed[e][k] /\ k = IF e = d THEN i + 1 ELSE i
    BY ClaimBehind
  <2>3. PICK n \in 1 .. Len(claimed[f]) :
             claimed'[f][j] = claimed[f][n] /\ n = IF f = d THEN j + 1 ELSE j
    BY ClaimBehind
  <2>4. claimed[e][k] = claimed[f][n]
    BY <2>2, <2>3, Zenon
  <2>5. e = f /\ k = n
    BY <2>4, SamePlace
  <2>6. QED
    BY <2>1, <2>2, <2>3, <2>5
<1>4. QED
  BY <1>2, <1>3 DEF ClaimsInv

\* The task taken back by a single process is in nobody's hands.
LEMMA ClaimTakenBack ==
    ASSUME OneProcess, Typed, Resting, NEW p \in Processes, Requeue(p)
    PROVE  /\ \A d \in Drainers : claimed'[d] = <<>>
           /\ ClaimsInv'
<1>1. \A d \in Drainers : Home(d) = p
  BY Zenon DEF OneProcess, Drainers, Home
<1>2. \A d \in Drainers : claimed'[d] = <<>>
  BY <1>1 DEF Requeue, drain, Resting, NoClaimsWhileDown
<1>3. \A d \in Drainers : 1 .. Len(claimed'[d]) = {}
  BY <1>2
<1>4. QED
  BY <1>2, <1>3 DEF ClaimsInv, ClaimedArePushed, ClaimedOnce

\* Every step of a single process keeps its claims apart.
LEMMA ClaimsStep ==
    ASSUME OneProcess, Typed, UndoneArePushed, UndoneOnce, Resting, ClaimsInv, Next
    PROVE  ClaimsInv'
<1>1. CASE Keeps
  BY <1>1, KeepsOrDrops, QueueKeeps, ClaimsKept
<1>2. ASSUME NEW d \in Drainers, Move(d) PROVE ClaimsInv'
  BY <1>2, ClaimTaken
<1>3. ASSUME NEW d \in Drainers, Report(d) PROVE ClaimsInv'
  BY <1>3, ClaimReported
<1>4. ASSUME NEW p \in Processes, Requeue(p) PROVE ClaimsInv'
  BY <1>4, ClaimTakenBack
<1>5. QED
  BY <1>1, <1>2, <1>3, <1>4, Zenon DEF Next, DrainOnce, Recover, Keeps

\* Every step leaves idle loops, and those of a process that is not up, without
\* tasks.
LEMMA RestingStep ==
    ASSUME Typed, Resting, Next
    PROVE  Resting'
<1>. /\ pc \in [Drainers -> {"idle", "claim", "stamp", "run", "execute", "ack",
                             "delete", "report"}]
     /\ claimed \in [Drainers -> Seq(Tasks)]
     /\ process \in [Processes -> {"up", "down", "requeue"}]
     /\ \A d \in Drainers : Home(d) \in Processes
  BY DEF Typed, TypeOK, Drainers, Home
<1>. SUFFICES ASSUME NEW e \in Drainers
     PROVE  /\ process'[Home(e)] # "up" => pc'[e] = "idle" /\ claimed'[e] = <<>>
            /\ pc'[e] = "idle" => claimed'[e] = <<>>
  BY DEF Resting, NoClaimsWhileDown, IdleHasNone
<1>. DEFINE Rests ==
            /\ process'[Home(e)] # "up" => pc'[e] = "idle" /\ claimed'[e] = <<>>
            /\ pc'[e] = "idle" => claimed'[e] = <<>>
<1>. HIDE DEF Rests
<1>1. /\ process[Home(e)] # "up" => pc[e] = "idle" /\ claimed[e] = <<>>
      /\ pc[e] = "idle" => claimed[e] = <<>>
  BY DEF Resting, NoClaimsWhileDown, IdleHasNone
<1>2. ASSUME claimed' = claimed, pc' = pc,
             process'[Home(e)] = "up" \/ process[Home(e)] # "up"
      PROVE  Rests
  BY <1>1, <1>2 DEF Rests
<1>3. ASSUME NEW d \in Drainers, NEW label, process' = process, process[Home(d)] = "up",
             Goto(d, label), \A f \in Drainers : f # d => claimed'[f] = claimed[f],
             label = "idle" => claimed'[d] = <<>>
      PROVE  Rests
  <2>1. CASE e = d
    BY <1>3, <2>1 DEF Rests, Goto
  <2>2. CASE e # d
    BY <1>1, <1>3, <2>2 DEF Rests, Goto
  <2>3. QED
    BY <2>1, <2>2
<1>4. ASSUME NEW t \in Tasks, Enqueue(t) \/ EnqueueFails(t) PROVE Rests
  BY <1>1, <1>4 DEF Rests, Enqueue, Push, StorePayload, StampQueued, EnqueueFails, drain
<1>5. ASSUME NEW d \in Drainers, BeginClaim(d) \/ StampRunning(d) \/ EndClaim(d)
      PROVE  Rests
  <2>1. process' = process /\ process[Home(d)] = "up" /\ claimed' = claimed
    BY <1>5 DEF BeginClaim, StampRunning, EndClaim, At
  <2>2. \E label : Goto(d, label) /\ (label = "idle" => claimed[d] = <<>>)
    BY <1>5 DEF BeginClaim, StampRunning, EndClaim
  <2>3. QED
    BY <1>3, <2>1, <2>2
<1>6. ASSUME NEW d \in Drainers,
             SuppressDuplicate(d) \/ StartRun(d) \/ EndRun(d) \/ AckRemove(d)
               \/ AckDelete(d) \/ AcknowledgeFails(d) \/ RemoveFails(d)
      PROVE  Rests
  <2>1. process' = process /\ process[Home(d)] = "up" /\ claimed' = claimed
    BY <1>6 DEF SuppressDuplicate, StartRun, EndRun, AckRemove, AckDelete,
                AcknowledgeFails, RemoveFails, Acknowledging, At
  <2>2. Goto(d, "execute") \/ Goto(d, "ack") \/ Goto(d, "delete") \/ Goto(d, "report")
    BY <1>6 DEF SuppressDuplicate, StartRun, EndRun, AckRemove, AckDelete,
                AcknowledgeFails, RemoveFails
  <2>3. QED
    BY <1>3, <2>1, <2>2
<1>7. ASSUME NEW d \in Drainers, Move(d) PROVE Rests
  BY <1>3, <1>7 DEF Move, At
<1>8. ASSUME NEW d \in Drainers, DrainFails(d) PROVE Rests
  BY <1>3, <1>8 DEF DrainFails, Acknowledging, At
<1>9. ASSUME NEW d \in Drainers, Report(d) PROVE Rests
  <2>1. claimed[d] \in Seq(Tasks) /\ claimed[d] # <<>>
    BY <1>9 DEF Report, At, Typed, HoldsTask
  <2>2. Len(claimed[d]) = 1 => Tail(claimed[d]) = <<>>
    <3>1. Tail(claimed[d]) \in Seq(Tasks) /\ Len(Tail(claimed[d])) = Len(claimed[d]) - 1
      BY <2>1, HeadTailProperties
    <3>2. Len(claimed[d]) = 1 => Len(Tail(claimed[d])) = 0
      BY <3>1
    <3>3. Len(Tail(claimed[d])) = 0 => Tail(claimed[d]) = <<>>
      BY <3>1, EmptySeq, Zenon
    <3>4. QED
      BY <3>2, <3>3, Zenon
  <2>3. \E label : Goto(d, label) /\ (label = "idle" => Len(claimed[d]) = 1)
    BY <1>9 DEF Report
  <2>4. /\ process' = process /\ process[Home(d)] = "up"
        /\ claimed' = [claimed EXCEPT ![d] = Tail(@)]
    BY <1>9 DEF Report, At
  <2>5. QED
    BY <1>3, <2>2, <2>3, <2>4
<1>10. ASSUME NEW p \in Processes, Crash(p) PROVE Rests
  <2>1. /\ pc'[e] = IF Home(e) = p THEN "idle" ELSE pc[e]
        /\ claimed'[e] = IF Home(e) = p THEN <<>> ELSE claimed[e]
        /\ process' = [process EXCEPT ![p] = "down"]
    BY <1>10 DEF Crash
  <2>2. QED
    BY <1>1, <2>1 DEF Rests
<1>11. ASSUME NEW p \in Processes, Recover(p) PROVE Rests
  BY <1>1, <1>11 DEF Rests, Recover, Start, Requeue, EndRequeue, drain
<1>12. Rests
  BY <1>4, <1>5, <1>6, <1>7, <1>8, <1>9, <1>10, <1>11 DEF Next, DrainOnce
<1>13. QED
  BY <1>12 DEF Rests

\* The count of a task's runs, while none is started and no process dies.
LEMMA CountKept ==
    ASSUME RunsCounted, runs' = runs, crashes' = crashes,
           \A t \in Tasks : ToBeRun(t)' => ToBeRun(t)
    PROVE  RunsCounted'
BY DEF RunsCounted

\* The claim of a task makes none to be run that was not so, ...
LEMMA ToBeRunMoved ==
    ASSUME OneProcess, Typed, UndoneArePushed, UndoneOnce, Resting, NEW t \in Tasks,
           NEW d \in Drainers, Move(d), ToBeRun(t)'
    PROVE  ToBeRun(t)
<1>. DEFINE h == Head(queue)
<1>1. /\ h \in Tasks /\ queue \in Seq(Tasks) /\ queue # <<>>
      /\ claimed \in [Drainers -> Seq(Tasks)]
      /\ pc \in [Drainers -> {"idle", "claim", "stamp", "run", "execute", "ack",
                              "delete", "report"}]
  BY HeadIsOnce DEF Move, Typed, TypeOK
<1>2. /\ submit' = submit /\ Elements(queue)' = Elements(Tail(queue))
      /\ processing' = Append(processing, h) /\ process' = process
      /\ claimed' = [claimed EXCEPT ![d] = Append(@, h)]
      /\ process[Home(d)] = "up"
      /\ pc[d] = "claim" /\ pc' = [pc EXCEPT ![d] = "stamp"]
  BY DEF Move, MoveToProcessing, Elements, At, Goto
<1>3. h \in Elements(queue) /\ Elements(queue)' \subseteq Elements(queue)
  BY <1>1, <1>2, ElementsOfTail
<1>. HIDE DEF h
<1>4. CASE t = h
  BY <1>3, <1>4 DEF ToBeRun
<1>5. CASE t # h
  <2>1. CASE submit'[t] = "new" \/ t \in Elements(queue)'
    BY <1>2, <1>3, <2>1 DEF ToBeRun
  <2>2. ASSUME NEW p \in Processes, process'[p] # "up" PROVE FALSE
    BY <1>2, <2>2 DEF OneProcess, Drainers, Home
  <2>3. ASSUME NEW e \in Drainers, NEW i \in Ahead(e)', claimed'[e][i] = t
        PROVE  ToBeRun(t)
    <3>1. i \in 1 .. Len(claimed'[e]) /\ (Running(e)' => i # 1)
      BY <2>3 DEF Ahead
    <3>2. CASE e # d
      <4>1. claimed'[e] = claimed[e] /\ pc'[e] = pc[e]
        BY <1>1, <1>2, <3>2
      <4>2. i \in Ahead(e) /\ claimed[e][i] = t
        BY <2>3, <3>1, <4>1 DEF Ahead, Running
      <4>3. QED
        BY <4>2 DEF ToBeRun
    <3>3. CASE e = d
      <4>1. claimed'[e] = Append(claimed[d], h) /\ claimed[d] \in Seq(Tasks)
        BY <1>1, <1>2, <3>3
      <4>2. /\ Len(Append(claimed[d], h)) = Len(claimed[d]) + 1
            /\ Append(claimed[d], h)[Len(claimed[d]) + 1] = h
            /\ \A j \in 1 .. Len(claimed[d]) : Append(claimed[d], h)[j] = claimed[d][j]
        BY <1>1, <4>1, AppendProperties
      <4>3. Len(claimed[d]) \in Nat
        BY <4>1
      <4>4. i # Len(claimed[d]) + 1
        BY <1>5, <2>3, <3>3, <4>1, <4>2
      <4>5. i \in 1 .. Len(claimed[d])
        BY <3>1, <4>1, <4>2, <4>3, <4>4
      <4>6. i \in Ahead(d) /\ claimed[d][i] = t
        BY <1>2, <2>3, <3>3, <4>1, <4>2, <4>5 DEF Ahead, Running
      <4>7. QED
        BY <4>6 DEF ToBeRun
    <3>4. QED
      BY <3>2, <3>3
  <2>4. QED
    BY <2>1, <2>2, <2>3 DEF ToBeRun
<1>6. QED
  BY <1>4, <1>5

\* ... the report of a task neither, ...
LEMMA ToBeRunReported ==
    ASSUME Typed, NEW t \in Tasks, NEW d \in Drainers, Report(d), ToBeRun(t)'
    PROVE  ToBeRun(t)
<1>1. /\ submit' = submit /\ Elements(queue)' = Elements(queue)
      /\ Elements(processing)' = Elements(processing) /\ process' = process
      /\ pc' = [pc EXCEPT ![d] = IF Len(claimed[d]) = 1 THEN "idle" ELSE "run"]
      /\ pc \in [Drainers -> {"idle", "claim", "stamp", "run", "execute", "ack",
                              "delete", "report"}]
  BY DEF Report, Goto, Elements, Typed, TypeOK
<1>2. CASE \/ submit'[t] = "new" \/ t \in Elements(queue)'
           \/ \E p \in Processes : process'[p] # "up" /\ t \in Elements(processing)'
  BY <1>1, <1>2 DEF ToBeRun
<1>3. ASSUME NEW e \in Drainers, NEW i \in Ahead(e)', claimed'[e][i] = t
      PROVE  ToBeRun(t)
  <2>1. i \in 1 .. Len(claimed'[e]) /\ (Running(e)' => i # 1)
    BY <1>3 DEF Ahead
  <2>2. CASE e # d
    <3>1. i \in 1 .. Len(claimed[e]) /\ claimed[e][i] = t
      BY <1>3, <2>1, <2>2, ClaimBehind
    <3>2. pc'[e] = pc[e]
      BY <1>1, <2>2
    <3>3. i \in Ahead(e)
      BY <2>1, <3>1, <3>2 DEF Ahead, Running
    <3>4. QED
      BY <3>1, <3>3 DEF ToBeRun
  <2>3. CASE e = d
    <3>1. i \in Nat \ {0} /\ i + 1 \in 1 .. Len(claimed[d]) /\ claimed[d][i + 1] = t
      BY <1>3, <2>1, <2>3, ClaimBehind
    <3>2. i + 1 \in Ahead(d)
      BY <3>1 DEF Ahead
    <3>3. QED
      BY <3>1, <3>2 DEF ToBeRun
  <2>4. QED
    BY <2>2, <2>3
<1>4. QED
  BY <1>2, <1>3 DEF ToBeRun

\* ... nor one that is taken back: it was in the second list of a process that
\* is not up.
LEMMA ToBeRunTakenBack ==
    ASSUME OneProcess, Typed, Resting, NEW t \in Tasks, NEW p \in Processes, Requeue(p),
           ToBeRun(t)'
    PROVE  ToBeRun(t)
<1>1. processing \in Seq(Tasks) /\ queue \in Seq(Tasks) /\ processing # <<>>
  BY DEF Typed, TypeOK, Requeue
<1>2. /\ Elements(queue)' \subseteq Elements(queue) \cup Elements(processing)
      /\ Elements(processing)' \subseteq Elements(processing)
  <2>1. processing' = AllButLast(processing) /\ queue' = LastAndThen(processing, queue)
    BY DEF Requeue, MoveBack, AllButLast, LastAndThen
  <2>2. /\ Elements(queue)' = Elements(LastAndThen(processing, queue))
        /\ Elements(processing)' = Elements(AllButLast(processing))
    BY <2>1, Zenon DEF Elements
  <2>3. QED
    BY <1>1, <2>2, ElementsTakenBack
<1>3. submit' = submit /\ process' = process /\ process[p] # "up"
  BY DEF Requeue
<1>4. \A d \in Drainers : Ahead(d)' = {}
  BY ClaimTakenBack DEF Ahead
<1>5. QED
  BY <1>2, <1>3, <1>4 DEF ToBeRun

\* A single process takes tasks back only after it died.
LEMMA RestartKeeps ==
    ASSUME OneProcess, Typed, NEW t \in Tasks, Keeps, \A p \in Processes : ~Crash(p)
    PROVE  \A p \in Processes : process'[p] # "up" /\ t \in Elements(processing)'
               => process[p] # "up" /\ t \in Elements(processing)
<1>. SUFFICES ASSUME NEW p \in Processes, process'[p] # "up", t \in Elements(processing)'
     PROVE  process[p] # "up" /\ t \in Elements(processing)
  OBVIOUS
<1>. DEFINE Kept == process[p] # "up" /\ t \in Elements(processing)
<1>. HIDE DEF Kept
<1>1. ASSUME process' = process, processing' = processing PROVE Kept
  BY <1>1 DEF Kept, Elements
<1>2. ASSUME NEW u \in Tasks, Enqueue(u) \/ EnqueueFails(u) PROVE Kept
  BY <1>1, <1>2 DEF Enqueue, Push, StorePayload, StampQueued, EnqueueFails, redis
<1>3. ASSUME NEW d \in Drainers,
             \/ BeginClaim(d) \/ StampRunning(d) \/ EndClaim(d)
             \/ SuppressDuplicate(d) \/ StartRun(d) \/ EndRun(d) \/ AckDelete(d)
             \/ AcknowledgeFails(d) \/ DrainFails(d) \/ RemoveFails(d)
      PROVE  Kept
  BY <1>1, <1>3 DEF BeginClaim, StampRunning, EndClaim, SuppressDuplicate, StartRun,
       EndRun, AckDelete, AcknowledgeFails, DrainFails, RemoveFails, redis
<1>4. ASSUME NEW d \in Drainers, AckRemove(d) PROVE FALSE
  <2>1. Home(d) = p
    BY Zenon DEF OneProcess, Drainers, Home
  <2>2. QED
    BY <1>4, <2>1 DEF AckRemove, At
<1>5. ASSUME NEW q \in Processes, Start(q) PROVE Kept
  BY <1>5 DEF Start, redis, Elements, OneProcess, Kept
<1>6. ASSUME NEW q \in Processes, EndRequeue(q) PROVE FALSE
  <2>1. p = q
    BY DEF OneProcess
  <2>2. process'[p] = "up"
    BY <1>6, <2>1 DEF EndRequeue, Typed, TypeOK
  <2>3. QED
    BY <2>2
<1>7. Kept
  BY <1>2, <1>3, <1>4, <1>5, <1>6 DEF Keeps
<1>8. QED
  BY <1>7 DEF Kept

\* A task whose run is started was to be run, and is not any more.
LEMMA RunIsDue ==
    ASSUME OneProcess, Typed, ClaimsInv, NEW d \in Drainers, StartRun(d)
    PROVE  \A u \in Tasks : /\ ToBeRun(u)' => ToBeRun(u)
                            /\ u = Task(d) => ToBeRun(u) /\ ~ToBeRun(u)'
<1>1. /\ claimed \in [Drainers -> Seq(Tasks)] /\ claimed[d] # <<>>
      /\ pc \in [Drainers -> {"idle", "claim", "stamp", "run", "execute", "ack",
                              "delete", "report"}]
      /\ pc[d] = "run" /\ process[Home(d)] = "up"
  BY DEF StartRun, At, Typed, TypeOK, HoldsTask
<1>2. /\ claimed' = claimed /\ submit' = submit /\ process' = process
      /\ queue' = queue /\ processing' = processing
      /\ pc' = [pc EXCEPT ![d] = "execute"]
  BY DEF StartRun, Goto, redis
<1>3. 1 \in 1 .. Len(claimed[d]) /\ claimed[d][1] = Task(d)
  <2>1. claimed[d] \in Seq(Tasks)
    BY <1>1
  <2>2. Len(claimed[d]) \in Nat \ {0}
    BY <1>1, <2>1, EmptySeq
  <2>3. QED
    BY <2>1, <2>2 DEF Task
<1>5. \A u \in Tasks : u = Task(d) => ToBeRun(u)
  BY <1>1, <1>3 DEF ToBeRun, Ahead, Running
<1>6. Keeps
  BY DEF Keeps
<1>7. \A u \in Tasks : ToBeRun(u)' => ToBeRun(u)
  BY <1>2, <1>6, KeepsOrDrops, QueueKeeps, ToBeRunKept
<1>8. ASSUME NEW u \in Tasks, u = Task(d) PROVE ~ToBeRun(u)'
  <2>1. submit'[u] # "new" /\ u \notin Elements(queue)'
    BY <1>2, <1>3, <1>8 DEF ClaimsInv, ClaimedArePushed, Elements
  <2>2. \A p \in Processes : process'[p] = "up"
    BY <1>1, <1>2, Zenon DEF OneProcess, Drainers, Home
  <2>3. ASSUME NEW e \in Drainers, NEW i \in Ahead(e)', claimed'[e][i] = u
        PROVE  FALSE
    <3>1. i \in 1 .. Len(claimed[e]) /\ (Running(e)' => i # 1)
      BY <1>2, <2>3 DEF Ahead
    <3>2. claimed[e][i] = claimed[d][1]
      BY <1>2, <1>3, <1>8, <2>3
    <3>3. e = d /\ i = 1
      BY <1>3, <3>1, <3>2, SamePlace
    <3>4. Running(e)'
      BY <1>1, <1>2, <3>3 DEF Running
    <3>5. QED
      BY <3>1, <3>3, <3>4
  <2>4. QED
    BY <2>1, <2>2, <2>3 DEF ToBeRun
<1>9. QED
  BY <1>5, <1>7, <1>8

\* Every step of a single process keeps the count of runs within that of its
\* crashes.
LEMMA CountStep ==
    ASSUME OneProcess, Typed, UndoneArePushed, UndoneOnce, Resting, ClaimsInv,
           RunsCounted, Next
    PROVE  RunsCounted'
<1>1. ASSUME NEW d \in Drainers, StartRun(d) PROVE RunsCounted'
  <2>. runs \in [Tasks -> 0 .. MaxRuns] /\ crashes \in Nat /\ MaxRuns \in Nat
    BY QueueConstants DEF Typed, TypeOK
  <2>1. /\ crashes' = crashes
        /\ runs' = [runs EXCEPT ![Task(d)] = IF @ < MaxRuns THEN @ + 1 ELSE @]
    BY <1>1 DEF StartRun, bounds
  <2>. SUFFICES ASSUME NEW t \in Tasks
       PROVE  runs'[t] <= 1 + crashes' /\ (ToBeRun(t)' => runs'[t] <= crashes')
    BY DEF RunsCounted
  <2>2. runs[t] <= 1 + crashes /\ (ToBeRun(t) => runs[t] <= crashes)
    BY DEF RunsCounted
  <2>3. CASE t = Task(d)
    <3>1. ToBeRun(t) /\ ~ToBeRun(t)'
      BY <1>1, <2>3, RunIsDue
    <3>2. runs'[t] <= runs[t] + 1
      BY <2>1, <2>3
    <3>3. QED
      BY <2>1, <2>2, <3>1, <3>2
  <2>4. CASE t # Task(d)
    <3>1. runs'[t] = runs[t] /\ (ToBeRun(t)' => ToBeRun(t))
      BY <1>1, <2>1, <2>4, RunIsDue
    <3>2. QED
      BY <2>1, <2>2, <3>1
  <2>5. QED
    BY <2>3, <2>4
<1>2. ASSUME NEW p \in Processes, Crash(p) PROVE RunsCounted'
  <2>1. runs' = runs /\ crashes' = crashes + 1
    BY <1>2 DEF Crash, history
  <2>2. QED
    BY <2>1 DEF RunsCounted, Typed, TypeOK
<1>3. CASE Keeps /\ (\A d \in Drainers : ~StartRun(d)) /\ (\A p \in Processes : ~Crash(p))
  <2>1. runs' = runs /\ crashes' = crashes
    BY <1>3 DEF Keeps, Enqueue, Push, StorePayload, StampQueued, EnqueueFails,
         BeginClaim, StampRunning, EndClaim, SuppressDuplicate, EndRun, AckRemove,
         AckDelete, AcknowledgeFails, DrainFails, RemoveFails, Start, EndRequeue,
         history, bounds
  <2>2. \A t \in Tasks : ToBeRun(t)' => ToBeRun(t)
    BY <1>3, KeepsOrDrops, QueueKeeps, RestartKeeps, ToBeRunKept
  <2>3. QED
    BY <2>1, <2>2, CountKept
<1>4. ASSUME NEW d \in Drainers, Move(d) PROVE RunsCounted'
  BY <1>4, ToBeRunMoved, CountKept DEF Move, history, bounds
<1>5. ASSUME NEW d \in Drainers, Report(d) PROVE RunsCounted'
  BY <1>5, ToBeRunReported, CountKept DEF Report, history, bounds
<1>6. ASSUME NEW p \in Processes, Requeue(p) PROVE RunsCounted'
  BY <1>6, ToBeRunTakenBack, CountKept DEF Requeue, history, bounds
<1>7. QED
  BY <1>1, <1>2, <1>3, <1>4, <1>5, <1>6, Zenon DEF Next, DrainOnce, Recover, Keeps

\* With a single gateway process, for any number of tasks, drain loops, restarts
\* and failing commands: a task's pipeline is started once, and once more at most
\* for each restart, however its acknowledgement fails.
THEOREM QueueRedelivers ==
    ASSUME OneProcess
    PROVE  Spec => []RedeliveredOnlyByRestart
<1>1. Init => SingleInv
  <2>. SUFFICES ASSUME Init PROVE SingleInv
    OBVIOUS
  <2>1. \A d \in Drainers : claimed[d] = <<>> /\ pc[d] = "idle"
    BY DEF Init
  <2>2. ClaimsInv
    BY <2>1 DEF ClaimsInv, ClaimedArePushed, ClaimedOnce
  <2>3. Resting
    BY <2>1 DEF Resting, NoClaimsWhileDown, IdleHasNone
  <2>4. RunsCounted
    <3>1. crashes = 0 /\ \A t \in Tasks : runs[t] = 0
      BY DEF Init
    <3>2. 0 <= 1 + 0 /\ 0 <= 0
      OBVIOUS
    <3>3. QED
      BY <3>1, <3>2, Zenon DEF RunsCounted
  <2>5. QED
    BY <2>2, <2>3, <2>4 DEF SingleInv
<1>2. Typed /\ QueueInv /\ UndoneOnce /\ SingleInv /\ [Next]_vars => SingleInv'
  <2>. SUFFICES ASSUME Typed, QueueInv, UndoneOnce, SingleInv, [Next]_vars
                PROVE  SingleInv'
    OBVIOUS
  <2>1. CASE Next
    BY <2>1, ClaimsStep, RestingStep, CountStep DEF SingleInv, QueueInv
  <2>2. CASE UNCHANGED vars
    BY <2>2 DEF vars, redis, drain, history, bounds, SingleInv, ClaimsInv, Resting,
         ClaimedArePushed, ClaimedOnce, NoClaimsWhileDown, IdleHasNone, RunsCounted,
         ToBeRun, Ahead, Running, Elements
  <2>3. QED
    BY <2>1, <2>2
<1>3. SingleInv => RedeliveredOnlyByRestart
  BY DEF SingleInv, RunsCounted, RedeliveredOnlyByRestart
<1>4. QED
  BY <1>1, <1>2, <1>3, QueueInvariant, PTL DEF Spec
=============================================================================
