-------------------------- MODULE MemoryQueueProofs --------------------------
(***************************************************************************)
(* The in-memory task queue implements the durable queue's promise, for    *)
(* any tasks, drain loops and restarts, and runs no task twice.            *)
(***************************************************************************)
EXTENDS MemoryTaskQueue, FiniteSetTheorems, WellFoundedInduction, TLAPS

-----------------------------------------------------------------------------
(* Numbers *)

\* A set of naturals has a least one.
LEMMA LeastNatural ==
    ASSUME NEW T, T \subseteq Nat, T # {}
    PROVE  \E x \in T : \A y \in T : x <= y
<1>. DEFINE R == OpToRel(<, Nat)
<1>1. IsWellFoundedOn(R, Nat)
  BY NatLessThanWellFounded
<1>2. \A x, y \in Nat : x < y => <<x, y>> \in R
  BY DEF OpToRel
<1>. HIDE DEF R
<1>3. PICK x \in T : \A y \in T : ~(<<y, x>> \in R)
  BY <1>1, WFMin
<1>4. ASSUME NEW y \in T PROVE x <= y
  <2>1. x \in Nat /\ y \in Nat /\ ~(y < x)
    BY <1>2, <1>3
  <2>. QED
    BY <2>1
<1>. QED
  BY <1>4

\* And a set of bounded ones has a greatest.
LEMMA GreatestNumber ==
    ASSUME NEW n \in Nat, NEW S, S \subseteq 1 .. n, S # {}
    PROVE  \E x \in S : \A y \in S : y <= x
<1>. DEFINE T == {n - y : y \in S}
<1>1. ASSUME NEW y \in S PROVE y \in 1 .. n /\ n - y \in Nat
  OBVIOUS
<1>2. T \subseteq Nat /\ T # {}
  BY <1>1
<1>3. PICK z \in T : \A y \in T : z <= y
  BY <1>2, LeastNatural
<1>4. PICK x \in S : z = n - x
  BY <1>3
<1>5. ASSUME NEW y \in S PROVE y <= x
  <2>1. n - y \in T
    OBVIOUS
  <2>. QED
    BY <1>1, <1>3, <1>4, <2>1
<1>. QED
  BY <1>4, <1>5

-----------------------------------------------------------------------------
(* Numbers in order *)

\* s lists the numbers of S in ascending order.
IsOrder(s, S) ==
    /\ s \in Seq(S)
    /\ \A i, k \in 1 .. Len(s) : i < k => s[i] < s[k]
    /\ \A x \in S : \E i \in 1 .. Len(s) : s[i] = x

\* Two functions on 1..n that ascend, the first of which misses no number of the second:
\* neither is ever below the other.
LEMMA AscendingAgree ==
    ASSUME NEW n \in Nat, NEW S, S \subseteq Nat,
           NEW s \in [1 .. n -> S], NEW c \in [1 .. n -> S],
           \A i, k \in 1 .. n : i < k => s[i] < s[k],
           \A i, k \in 1 .. n : i < k => c[i] < c[k],
           \A x \in S : \E i \in 1 .. n : s[i] = x
    PROVE  c = s
<1>1. ASSUME NEW i \in 1 .. n PROVE s[i] \in Nat /\ c[i] \in Nat /\ c[i] \in S /\ i \in Nat
  <2>1. s[i] \in S /\ c[i] \in S
    OBVIOUS
  <2>2. \A x \in S : x \in Nat
    OBVIOUS
  <2>3. s[i] \in Nat /\ c[i] \in Nat
    BY <2>1, <2>2, Zenon
  <2>. QED
    BY <2>1, <2>3
<1>2. ASSUME NEW i \in 1 .. n, c[i] < s[i] PROVE FALSE
  <2>. DEFINE T == {k \in 1 .. n : c[k] < s[k]}
  <2>1. T \subseteq Nat /\ T # {}
    BY <1>2
  <2>2. PICK m \in T : \A k \in T : m <= k
    BY <2>1, LeastNatural
  <2>3. m \in 1 .. n /\ c[m] < s[m]
    OBVIOUS
  <2>4. PICK k \in 1 .. n : s[k] = c[m]
    BY <1>1, <2>3
  <2>5. k < m
    <3>1. CASE m < k
      BY <1>1, <2>3, <2>4, <3>1
    <3>2. CASE m = k
      BY <1>1, <2>3, <2>4, <3>2
    <3>. QED
      BY <1>1, <2>3, <2>4, <3>1, <3>2
  <2>6. c[k] < c[m]
    BY <2>3, <2>4, <2>5
  <2>7. k \in T
    BY <2>4, <2>6
  <2>8. m <= k
    BY <2>2, <2>7
  <2>. QED
    BY <1>1, <2>3, <2>4, <2>5, <2>8
<1>3. ASSUME NEW i \in 1 .. n, s[i] < c[i] PROVE FALSE
  <2>. DEFINE T == {k \in 1 .. n : s[k] < c[k]}
  <2>1. T \subseteq 1 .. n /\ T # {}
    BY <1>3
  <2>2. PICK m \in T : \A k \in T : k <= m
    BY <2>1, GreatestNumber
  <2>3. m \in 1 .. n /\ s[m] < c[m]
    OBVIOUS
  <2>4. PICK k \in 1 .. n : s[k] = c[m]
    BY <1>1, <2>3
  <2>5. m < k
    <3>1. CASE k < m
      BY <1>1, <2>3, <2>4, <3>1
    <3>2. CASE m = k
      BY <1>1, <2>3, <2>4, <3>2
    <3>. QED
      BY <1>1, <2>3, <2>4, <3>1, <3>2
  <2>6. c[m] < c[k]
    BY <2>3, <2>4, <2>5
  <2>7. k \in T
    BY <2>4, <2>6
  <2>8. k <= m
    BY <2>2, <2>7
  <2>. QED
    BY <1>1, <2>3, <2>4, <2>5, <2>8
<1>4. ASSUME NEW i \in 1 .. n PROVE c[i] = s[i]
  <2>1. ~(c[i] < s[i]) /\ ~(s[i] < c[i])
    BY <1>2, <1>3
  <2>. QED
    BY <1>1, <2>1
<1>. QED
  BY <1>4

\* What is listed are numbers of S, each once.
LEMMA ListedOnce ==
    ASSUME NEW S, S \subseteq Nat, NEW s, IsOrder(s, S), NEW i \in 1 .. Len(s), NEW k \in 1 .. Len(s)
    PROVE  s[i] \in S /\ s[i] \in Nat /\ (s[i] = s[k] => i = k)
<1>1. s \in Seq(S)
  BY DEF IsOrder
<1>2. s[i] \in S /\ s[k] \in S /\ i \in Nat /\ k \in Nat
  BY <1>1
<1>3. s[i] \in Nat /\ s[k] \in Nat
  BY <1>2
<1>4. i < k => s[i] < s[k]
  BY DEF IsOrder
<1>5. k < i => s[k] < s[i]
  BY DEF IsOrder
<1>. QED
  BY <1>2, <1>3, <1>4, <1>5

\* There is one such list.
LEMMA OrderIsUnique ==
    ASSUME NEW S, S \subseteq Nat, NEW s, IsOrder(s, S)
    PROVE  InOrder(S) = s
<1>. DEFINE n == Len(s)
<1>1. n \in Nat /\ s \in [1 .. n -> S]
  BY DEF IsOrder
<1>2. ASSUME NEW i \in 1 .. n, NEW k \in 1 .. n, s[i] = s[k] PROVE i = k
  BY <1>2, ListedOnce
<1>3. Cardinality(S) = n
  <2>1. s \in Bijection(1 .. n, S)
    <3>1. s \in Injection(1 .. n, S)
      BY <1>1, <1>2 DEF Injection, IsInjective
    <3>2. \A x \in S : \E i \in 1 .. n : s[i] = x
      BY DEF IsOrder
    <3>. QED
      BY <1>1, <3>1, <3>2 DEF Bijection, Surjection
  <2>2. ExistsBijection(1 .. n, S)
    BY <2>1 DEF ExistsBijection
  <2>. QED
    BY <1>1, <2>2, FS_CountingElements
<1>4. /\ \E c \in [1 .. n -> S] : \A i, k \in DOMAIN c : i < k => c[i] < c[k]
      /\ \A i, k \in 1 .. n : i < k => s[i] < s[k]
      /\ \A x \in S : \E i \in 1 .. n : s[i] = x
  BY <1>1 DEF IsOrder
<1>5. PICK c : c = InOrder(S)
  OBVIOUS
<1>6. c \in [1 .. n -> S] /\ \A i, k \in 1 .. n : i < k => c[i] < c[k]
  BY <1>3, <1>4, <1>5 DEF InOrder
<1>7. c = s
  BY <1>1, <1>4, <1>6, AscendingAgree
<1>. QED
  BY <1>5, <1>7

\* The numbers from 1 to n are their own list.
LEMMA IntervalInOrder ==
    ASSUME NEW n \in Nat
    PROVE  InOrder(1 .. n) = [i \in 1 .. n |-> i]
<1>. DEFINE s == [i \in 1 .. n |-> i]
<1>1. s \in Seq(1 .. n) /\ Len(s) = n
  OBVIOUS
<1>2. IsOrder(s, 1 .. n)
  BY <1>1 DEF IsOrder
<1>. QED
  BY <1>2, OrderIsUnique

\* A greater number goes to the end.
LEMMA OrderAppended ==
    ASSUME NEW S, S \subseteq Nat, NEW s, IsOrder(s, S),
           NEW x \in Nat, \A y \in S : y < x
    PROVE  IsOrder(Append(s, x), S \cup {x})
<1>. DEFINE w == Append(s, x)
<1>1. /\ s \in Seq(S) /\ Len(s) \in Nat /\ w \in Seq(S \cup {x}) /\ Len(w) = Len(s) + 1
      /\ \A i \in 1 .. Len(s) : w[i] = s[i] /\ s[i] \in S
      /\ w[Len(s) + 1] = x
  BY DEF IsOrder
<1>2. ASSUME NEW i \in 1 .. Len(w), NEW k \in 1 .. Len(w), i < k PROVE w[i] < w[k]
  <2>1. i \in 1 .. Len(s) /\ (k \in 1 .. Len(s) \/ k = Len(s) + 1)
    BY <1>1, <1>2
  <2>. QED
    BY <1>1, <1>2, <2>1 DEF IsOrder
<1>3. ASSUME NEW y \in S \cup {x} PROVE \E i \in 1 .. Len(w) : w[i] = y
  <2>1. CASE y = x
    BY <1>1, <2>1
  <2>2. CASE y \in S
    <3>1. PICK i \in 1 .. Len(s) : s[i] = y
      BY <2>2 DEF IsOrder
    <3>2. i \in 1 .. Len(w) /\ w[i] = y
      BY <1>1, <3>1
    <3>. QED
      BY <3>2
  <2>. QED
    BY <2>1, <2>2
<1>. QED
  BY <1>1, <1>2, <1>3 DEF IsOrder

\* rest is a list of k places without its i-th.
LeavesOut(S, rest, list, k, i) ==
    /\ rest \in Seq(S) /\ Len(rest) = k - 1
    /\ \A j \in 1 .. k - 1 : rest[j] = IF j < i THEN list[j] ELSE list[j + 1]

\* The parts of a list before and behind its i-th place.
Around(S, before, after, list, k, i) ==
    /\ before \in Seq(S) /\ Len(before) = i - 1
    /\ \A j \in 1 .. i - 1 : before[j] = list[j]
    /\ after \in Seq(S) /\ Len(after) = k - i
    /\ \A j \in 1 .. k - i : after[j] = list[j + i]

\* Put together, the parts are the list without that place ...
LEMMA Joined ==
    ASSUME NEW S, NEW k \in Nat, NEW i \in 1 .. k, NEW list, NEW before, NEW after,
           Around(S, before, after, list, k, i)
    PROVE  LeavesOut(S, before \o after, list, k, i)
<1>. SUFFICES
    ASSUME NEW b \in Seq(S), Len(b) = i - 1,
           \A j \in 1 .. i - 1 : b[j] = list[j],
           NEW a \in Seq(S), Len(a) = k - i,
           \A j \in 1 .. k - i : a[j] = list[j + i]
    PROVE  /\ b \o a \in Seq(S) /\ Len(b \o a) = k - 1
           /\ \A j \in 1 .. k - 1 :
                 (b \o a)[j] = IF j < i THEN list[j] ELSE list[j + 1]
  BY Zenon DEF LeavesOut, Around
<1>1. b \o a \in Seq(S)
  OBVIOUS
<1>2. Len(b \o a) = k - 1
  OBVIOUS
<1>3. ASSUME NEW j \in 1 .. k - 1
      PROVE  (b \o a)[j] = IF j < i THEN list[j] ELSE list[j + 1]
  <2>1. (b \o a)[j] = IF j <= i - 1 THEN b[j] ELSE a[j - (i - 1)]
    OBVIOUS
  <2>2. CASE j < i
    BY <2>1, <2>2
  <2>3. CASE i <= j
    <3>1. a[j - (i - 1)] = list[(j - (i - 1)) + i]
      BY <2>3
    <3>2. (j - (i - 1)) + i = j + 1
      OBVIOUS
    <3>3. QED
      BY <2>1, <2>3, <3>1, <3>2
  <2>4. QED
    BY <2>2, <2>3
<1>4. QED
  BY <1>1, <1>2, <1>3

\* ... which is what the removal of an entry leaves.
LEMMA LeftOut ==
    ASSUME NEW S, NEW list \in Seq(S), NEW i \in 1 .. Len(list)
    PROVE  LeavesOut(S, SubSeq(list, 1, i - 1) \o SubSeq(list, i + 1, Len(list)), list, Len(list), i)
<1>0. Len(list) \in Nat /\ i \in 1 .. Len(list)
  OBVIOUS
<1>1. /\ SubSeq(list, 1, i - 1) \in Seq(S) /\ Len(SubSeq(list, 1, i - 1)) = i - 1
      /\ \A j \in 1 .. i - 1 : SubSeq(list, 1, i - 1)[j] = list[j]
  OBVIOUS
<1>2. /\ SubSeq(list, i + 1, Len(list)) \in Seq(S)
      /\ Len(SubSeq(list, i + 1, Len(list))) = Len(list) - i
      /\ \A j \in 1 .. Len(list) - i : SubSeq(list, i + 1, Len(list))[j] = list[j + i]
  OBVIOUS
<1>3. Around(S, SubSeq(list, 1, i - 1), SubSeq(list, i + 1, Len(list)), list, Len(list), i)
  BY <1>1, <1>2 DEF Around
<1>4. QED
  BY <1>0, <1>3, Joined, Zenon

\* A number is taken out.
LEMMA OrderWithout ==
    ASSUME NEW S, S \subseteq Nat, NEW s, IsOrder(s, S), NEW j \in 1 .. Len(s), NEW w,
           LeavesOut(S, w, s, Len(s), j)
    PROVE  IsOrder(w, S \ {s[j]})
<1>. DEFINE n == Len(s)
<1>1. n \in Nat /\ j \in 1 .. n /\ j \in Nat
  BY DEF IsOrder
<1>2. w \in Seq(S) /\ Len(w) = n - 1
  BY DEF LeavesOut
<1>3. \A i \in 1 .. n - 1 : w[i] = IF i < j THEN s[i] ELSE s[i + 1]
  BY DEF LeavesOut
<1>4. ASSUME NEW i \in 1 .. n - 1
      PROVE  \E k \in 1 .. n : k # j /\ w[i] = s[k] /\ k = IF i < j THEN i ELSE i + 1
  <2>1. CASE i < j
    <3>1. i \in 1 .. n /\ i # j /\ w[i] = s[i]
      BY <1>1, <1>3, <2>1
    <3>. QED
      BY <2>1, <3>1
  <2>2. CASE ~(i < j)
    <3>1. i + 1 \in 1 .. n /\ i + 1 # j /\ w[i] = s[i + 1]
      BY <1>1, <1>3, <2>2
    <3>. QED
      BY <2>2, <3>1
  <2>. QED
    BY <2>1, <2>2
<1>5. ASSUME NEW i \in 1 .. n - 1 PROVE w[i] \in S \ {s[j]}
  <2>1. PICK k \in 1 .. n : k # j /\ w[i] = s[k]
    BY <1>4
  <2>2. s[k] \in S /\ s[k] # s[j]
    BY <1>1, <2>1, ListedOnce
  <2>. QED
    BY <2>1, <2>2
<1>6. w \in Seq(S \ {s[j]})
  <2>1. w = [i \in 1 .. n - 1 |-> w[i]] /\ n - 1 \in Nat
    BY <1>1, <1>2
  <2>. QED
    BY <1>5, <2>1
<1>7. ASSUME NEW a \in 1 .. n - 1, NEW b \in 1 .. n - 1, a < b PROVE w[a] < w[b]
  <2>1. PICK k \in 1 .. n : w[a] = s[k] /\ k = IF a < j THEN a ELSE a + 1
    BY <1>4
  <2>2. PICK m \in 1 .. n : w[b] = s[m] /\ m = IF b < j THEN b ELSE b + 1
    BY <1>4
  <2>3. k < m
    BY <1>1, <1>7, <2>1, <2>2
  <2>. QED
    BY <2>1, <2>2, <2>3 DEF IsOrder
<1>8. ASSUME NEW x \in S \ {s[j]} PROVE \E i \in 1 .. n - 1 : w[i] = x
  <2>1. PICK k \in 1 .. n : s[k] = x /\ k # j
    BY DEF IsOrder
  <2>2. CASE k < j
    <3>1. k \in 1 .. n - 1 /\ w[k] = x
      BY <1>1, <1>3, <2>1, <2>2
    <3>. QED
      BY <3>1
  <2>3. CASE ~(k < j)
    <3>1. k - 1 \in 1 .. n - 1 /\ ~(k - 1 < j) /\ k - 1 + 1 = k
      BY <1>1, <2>1, <2>3
    <3>2. w[k - 1] = x
      BY <1>3, <2>1, <3>1
    <3>. QED
      BY <3>1, <3>2
  <2>. QED
    BY <2>2, <2>3
<1>. QED
  BY <1>2, <1>6, <1>7, <1>8 DEF IsOrder

-----------------------------------------------------------------------------
(* The invariant *)

AtWork == {t \in Tasks : status[t] \in {"QUEUED", "RUNNING"}}

QueueTypes ==
    /\ status \in [Tasks -> {"NONE", "QUEUED", "RUNNING", "SUCCEEDED", "FAILED"}]
    /\ queue \in Seq(Tasks)
    /\ claimed \in [Loops -> Seq(Tasks)]
    /\ runs \in [Tasks -> Nat]

\* Tasks come in the order of their numbers, and are run no sooner than claimed.
Submitted == \A t, u \in Tasks : u < t /\ status[t] # "NONE" => status[u] # "NONE"
NotYetRun == \A t \in Tasks : status[t] \in {"NONE", "QUEUED"} => runs[t] = 0

\* The list holds queued tasks, each once.
Waiting ==
    /\ \A i \in 1 .. Len(queue) : status[queue[i]] = "QUEUED"
    /\ \A i, k \in 1 .. Len(queue) : queue[i] = queue[k] => i = k

\* What the loops have claimed is RUNNING, is claimed once, and was run if it is the
\* first of a loop that has called run_pipeline.
Held ==
    /\ \A l \in Loops : l \in called => claimed[l] # << >>
    /\ \A l \in Loops : \A i \in 1 .. Len(claimed[l]) :
          /\ status[claimed[l][i]] = "RUNNING"
          /\ runs[claimed[l][i]] = IF i = 1 /\ l \in called THEN 1 ELSE 0
    /\ \A l, m \in Loops : \A i \in 1 .. Len(claimed[l]), k \in 1 .. Len(claimed[m]) :
          claimed[l][i] = claimed[m][k] => l = m /\ i = k

\* Open lists the tasks at work.
Listed == IsOrder(Open, AtWork)

QueueInv == QueueTypes /\ Submitted /\ NotYetRun /\ Waiting /\ Held /\ Listed

\* The invariant holds of an empty queue.
LEMMA InvInit ==
    ASSUME QueueAssumption, Init
    PROVE  QueueInv
<1>1. QueueTypes /\ Submitted /\ NotYetRun /\ Waiting /\ Held
  BY DEF Init, QueueTypes, Submitted, NotYetRun, Waiting, Held
<1>2. AtWork = {}
  BY DEF Init, AtWork
<1>3. IsOrder(<< >>, {})
  BY DEF IsOrder
<1>4. InOrder({}) = << >>
  BY <1>3, OrderIsUnique
<1>. QED
  BY <1>1, <1>2, <1>3, <1>4 DEF QueueInv, Listed, Open, AtWork

\* A list of tasks at work that is in order is what the durable queue sees.
LEMMA OpenBecomes ==
    ASSUME QueueAssumption, NEW w, IsOrder(w, AtWork')
    PROVE  Open' = w /\ Listed'
<1>1. PICK S : S = AtWork'
  OBVIOUS
<1>2. S \subseteq Nat
  BY <1>1 DEF AtWork, QueueAssumption
<1>3. InOrder(S) = w
  BY <1>1, <1>2, OrderIsUnique
<1>4. Open' = w
  BY <1>1, <1>3 DEF Open, AtWork
<1>. QED
  BY <1>4 DEF Listed

\* The tasks at work stay the same.
LEMMA OpenRests ==
    ASSUME QueueAssumption, QueueInv, AtWork' = AtWork
    PROVE  Open' = Open /\ Listed'
<1>1. IsOrder(Open, AtWork')
  BY DEF QueueInv, Listed
<1>. QED
  BY <1>1, OpenBecomes

\* enqueue keeps the invariant, and submits the task to the durable queue.
LEMMA EnqueueKeeps ==
    ASSUME QueueAssumption, QueueInv, NEW t \in Tasks, Enqueue(t)
    PROVE  QueueInv' /\ Abstract!Submit(t)
<1>1. /\ status[t] = "NONE" /\ \A u \in Tasks : u < t => status[u] # "NONE"
      /\ status' = [status EXCEPT ![t] = "QUEUED"]
      /\ queue' = Append(queue, t)
      /\ UNCHANGED <<claimed, called, runs>>
  BY DEF Enqueue
<1>2. QueueTypes /\ Submitted /\ NotYetRun /\ Waiting /\ Held /\ Listed
  BY DEF QueueInv
<1>3. /\ queue' \in Seq(Tasks) /\ Len(queue') = Len(queue) + 1 /\ Len(queue) \in Nat
      /\ \A i \in 1 .. Len(queue) : queue'[i] = queue[i] /\ queue[i] \in Tasks
      /\ queue'[Len(queue) + 1] = t
  BY <1>1, <1>2 DEF QueueTypes
<1>4. /\ \A u \in Tasks : status'[u] = IF u = t THEN "QUEUED" ELSE status[u]
      /\ QueueTypes'
  BY <1>1, <1>2, <1>3 DEF QueueTypes
<1>5. Submitted'
  BY <1>1, <1>2, <1>4 DEF Submitted
<1>6. NotYetRun'
  BY <1>1, <1>2, <1>4 DEF NotYetRun
<1>7. Waiting'
  <2>1. ASSUME NEW i \in 1 .. Len(queue') PROVE status'[queue'[i]] = "QUEUED"
    BY <1>1, <1>2, <1>3, <1>4 DEF Waiting
  <2>2. \A i \in 1 .. Len(queue) : queue[i] # t
    BY <1>1, <1>2 DEF Waiting
  <2>3. ASSUME NEW i \in 1 .. Len(queue'), NEW k \in 1 .. Len(queue'), queue'[i] = queue'[k]
        PROVE  i = k
    <3>1. /\ i \in 1 .. Len(queue) \/ i = Len(queue) + 1
          /\ k \in 1 .. Len(queue) \/ k = Len(queue) + 1
      BY <1>3
    <3>. QED
      BY <1>2, <1>3, <2>2, <2>3, <3>1 DEF Waiting
  <2>. QED
    BY <2>1, <2>3 DEF Waiting
<1>8. Held'
  <2>1. \A l \in Loops : \A i \in 1 .. Len(claimed[l]) : claimed[l][i] \in Tasks /\ claimed[l][i] # t
    BY <1>1, <1>2 DEF Held, QueueTypes
  <2>. QED
    BY <1>1, <1>2, <1>4, <2>1 DEF Held
<1>9. \A u \in AtWork : u < t /\ u \in Nat /\ u \in Tasks
  BY <1>1, <1>2 DEF AtWork, Submitted, QueueAssumption
<1>10. AtWork' = AtWork \cup {t} /\ AtWork \subseteq Nat /\ t \in Nat
  BY <1>4, <1>9 DEF AtWork, QueueAssumption
<1>11. IsOrder(Append(Open, t), AtWork')
  <2>1. IsOrder(Append(Open, t), AtWork \cup {t})
    BY <1>2, <1>9, <1>10, OrderAppended DEF Listed
  <2>. QED
    BY <1>10, <2>1
<1>12. Open' = Append(Open, t) /\ Listed'
  BY <1>11, OpenBecomes
<1>13. \A i \in 1 .. Len(Open) : Open[i] < t
  <2>1. \A i \in 1 .. Len(Open) : Open[i] \in AtWork
    BY <1>2, <1>10, ListedOnce DEF Listed
  <2>. QED
    BY <1>9, <2>1
<1>14. Abstract!Submit(t)
  BY <1>1, <1>12, <1>13 DEF Abstract!Submit
<1>. QED
  BY <1>4, <1>5, <1>6, <1>7, <1>8, <1>12, <1>14 DEF QueueInv

\* What claim_next takes: the first ids of the list, as these are all queued.
LEMMA ClaimTakes ==
    ASSUME QueueAssumption, QueueInv, NEW l \in Loops, ClaimNext(l)
    PROVE  \E n \in 0 .. Len(queue), c \in Seq(Tasks) :
              /\ Len(c) = n /\ \A i \in 1 .. n : c[i] = queue[i]
              /\ queue' \in Seq(Tasks) /\ Len(queue') = Len(queue) - n
              /\ \A i \in 1 .. Len(queue) - n : queue'[i] = queue[i + n]
              /\ claimed' = [claimed EXCEPT ![l] = c]
              /\ status' = [t \in Tasks |-> IF \E i \in 1 .. n : queue[i] = t
                                            THEN "RUNNING" ELSE status[t]]
<1>1. queue \in Seq(Tasks) /\ Len(queue) \in Nat
  BY DEF QueueInv, QueueTypes
<1>2. PICK n \in 0 .. Len(queue) :
        LET places == InOrder(QueuedAmong(n)) IN
        /\ queue' = SubSeq(queue, n + 1, Len(queue))
        /\ claimed' = [claimed EXCEPT ![l] = [i \in DOMAIN places |-> queue[places[i]]]]
        /\ status' = [t \in Tasks |-> IF \E i \in QueuedAmong(n) : queue[i] = t
                                      THEN "RUNNING" ELSE status[t]]
  BY DEF ClaimNext
<1>3. n \in Nat /\ 1 .. n \subseteq 1 .. Len(queue)
  BY <1>1
<1>4. QueuedAmong(n) = 1 .. n
  BY <1>3 DEF QueuedAmong, QueueInv, Waiting
<1>5. InOrder(QueuedAmong(n)) = [i \in 1 .. n |-> i]
  BY <1>3, <1>4, IntervalInOrder
<1>. DEFINE c == [i \in 1 .. n |-> queue[i]]
<1>6. claimed' = [claimed EXCEPT ![l] = c]
  <2>1. PICK p : p = InOrder(QueuedAmong(n))
    OBVIOUS
  <2>2. claimed' = [claimed EXCEPT ![l] = [i \in DOMAIN p |-> queue[p[i]]]]
    BY <1>2, <2>1
  <2>3. p = [i \in 1 .. n |-> i]
    BY <1>5, <2>1
  <2>4. [i \in DOMAIN p |-> queue[p[i]]] = c
    BY <2>3
  <2>. QED
    BY <2>2, <2>4
<1>7. c \in Seq(Tasks) /\ Len(c) = n /\ \A i \in 1 .. n : c[i] = queue[i]
  BY <1>1, <1>3
<1>8. /\ queue' \in Seq(Tasks) /\ Len(queue') = Len(queue) - n
      /\ \A i \in 1 .. Len(queue) - n : queue'[i] = queue[i + n]
  <2>1. queue' = SubSeq(queue, n + 1, Len(queue))
    BY <1>2
  <2>. QED
    BY <1>1, <1>3, <2>1
<1>9. status' = [t \in Tasks |-> IF \E i \in 1 .. n : queue[i] = t
                                THEN "RUNNING" ELSE status[t]]
  BY <1>2, <1>4
<1>. HIDE DEF c
<1>. QED
  BY <1>6, <1>7, <1>8, <1>9

\* claim_next keeps the invariant, and moves no task in the durable queue: a claimed one
\* is still open there.
LEMMA ClaimKeeps ==
    ASSUME QueueAssumption, QueueInv, NEW l \in Loops, ClaimNext(l)
    PROVE  QueueInv' /\ UNCHANGED <<Open, runs>>
<1>1. PICK n \in 0 .. Len(queue), c \in Seq(Tasks) :
              /\ Len(c) = n /\ \A i \in 1 .. n : c[i] = queue[i]
              /\ queue' \in Seq(Tasks) /\ Len(queue') = Len(queue) - n
              /\ \A i \in 1 .. Len(queue) - n : queue'[i] = queue[i + n]
              /\ claimed' = [claimed EXCEPT ![l] = c]
              /\ status' = [t \in Tasks |-> IF \E i \in 1 .. n : queue[i] = t
                                            THEN "RUNNING" ELSE status[t]]
  BY ClaimTakes
<1>2. claimed[l] = << >> /\ UNCHANGED <<called, runs>>
  BY DEF ClaimNext
<1>3. QueueTypes /\ Submitted /\ NotYetRun /\ Waiting /\ Held /\ Listed
  BY DEF QueueInv
<1>4. l \notin called /\ n \in Nat /\ Len(queue) \in Nat
  BY <1>2, <1>3 DEF Held, QueueTypes
<1>5. /\ \A i \in 1 .. n : queue[i] \in Tasks /\ status[queue[i]] = "QUEUED"
      /\ \A i \in 1 .. Len(queue) : queue[i] \in Tasks /\ status[queue[i]] = "QUEUED"
  BY <1>3 DEF Waiting, QueueTypes
<1>6. /\ \A i \in 1 .. n : status'[queue[i]] = "RUNNING"
      /\ \A t \in Tasks : status[t] # "QUEUED" => status'[t] = status[t]
      /\ \A t \in Tasks : status'[t] = status[t] \/ (status[t] = "QUEUED" /\ status'[t] = "RUNNING")
  <2>1. \A t \in Tasks : status'[t] = IF \E i \in 1 .. n : queue[i] = t
                                      THEN "RUNNING" ELSE status[t]
    BY <1>1
  <2>2. \A i \in 1 .. n : status'[queue[i]] = "RUNNING"
    BY <1>5, <2>1
  <2>3. ASSUME NEW t \in Tasks
        PROVE  status'[t] = status[t] \/ (status[t] = "QUEUED" /\ status'[t] = "RUNNING")
    <3>1. CASE \E i \in 1 .. n : queue[i] = t
      BY <1>5, <2>1, <3>1
    <3>2. CASE ~\E i \in 1 .. n : queue[i] = t
      BY <2>1, <3>2
    <3>. QED
      BY <3>1, <3>2
  <2>. QED
    BY <2>2, <2>3
<1>7. QueueTypes'
  BY <1>1, <1>2, <1>3 DEF QueueTypes
<1>8. Submitted' /\ NotYetRun'
  BY <1>2, <1>3, <1>6 DEF Submitted, NotYetRun
<1>9. Waiting'
  <2>1. ASSUME NEW i \in 1 .. Len(queue') PROVE status'[queue'[i]] = "QUEUED"
    <3>1. /\ i + n \in 1 .. Len(queue) /\ queue'[i] = queue[i + n]
          /\ \A k \in 1 .. n : k \in 1 .. Len(queue) /\ k # i + n
      BY <1>1, <1>4
    <3>2. \A k \in 1 .. n : queue[k] # queue[i + n]
      BY <1>3, <3>1 DEF Waiting
    <3>3. status'[queue[i + n]] = status[queue[i + n]]
      BY <1>1, <1>5, <3>1, <3>2
    <3>. QED
      BY <1>5, <3>1, <3>3
  <2>2. ASSUME NEW i \in 1 .. Len(queue'), NEW k \in 1 .. Len(queue'), queue'[i] = queue'[k]
        PROVE  i = k
    <3>1. /\ i + n \in 1 .. Len(queue) /\ queue'[i] = queue[i + n]
          /\ k + n \in 1 .. Len(queue) /\ queue'[k] = queue[k + n]
      BY <1>1, <1>4
    <3>2. i + n = k + n
      BY <1>3, <2>2, <3>1 DEF Waiting
    <3>. QED
      BY <1>4, <3>2
  <2>. QED
    BY <2>1, <2>2 DEF Waiting
<1>10. Held'
  <2>1. \A m \in Loops : claimed'[m] = IF m = l THEN c ELSE claimed[m]
    BY <1>1, <1>3 DEF QueueTypes
  <2>2. ASSUME NEW m \in Loops PROVE m \in called' => claimed'[m] # << >>
    BY <1>2, <1>3, <1>4, <2>1 DEF Held
  <2>3. ASSUME NEW m \in Loops, NEW i \in 1 .. Len(claimed[m])
        PROVE  claimed[m][i] \in Tasks /\ status[claimed[m][i]] = "RUNNING"
    BY <1>3 DEF Held, QueueTypes
  <2>4. ASSUME NEW m \in Loops, NEW i \in 1 .. Len(claimed'[m])
        PROVE  /\ status'[claimed'[m][i]] = "RUNNING"
               /\ runs'[claimed'[m][i]] = IF i = 1 /\ m \in called' THEN 1 ELSE 0
    <3>1. CASE m = l
      <4>1. claimed'[m][i] = queue[i] /\ i \in 1 .. n
        BY <1>1, <2>1, <3>1
      <4>2. runs[queue[i]] = 0
        BY <1>3, <1>5, <4>1 DEF NotYetRun
      <4>. QED
        BY <1>2, <1>4, <1>6, <3>1, <4>1, <4>2
    <3>2. CASE m # l
      <4>1. claimed'[m] = claimed[m]
        BY <2>1, <3>2
      <4>2. status'[claimed[m][i]] = "RUNNING"
        BY <1>6, <2>3, <4>1
      <4>. QED
        BY <1>2, <1>3, <4>1, <4>2 DEF Held
    <3>. QED
      BY <3>1, <3>2
  <2>5. ASSUME NEW m \in Loops, NEW i \in 1 .. n, NEW k \in 1 .. Len(claimed[m])
        PROVE  queue[i] # claimed[m][k]
    BY <1>5, <2>3
  <2>6. \A i, k \in 1 .. n : queue[i] = queue[k] => i = k
    BY <1>3, <1>4 DEF Waiting
  <2>7. ASSUME NEW m \in Loops, NEW j \in Loops, NEW i \in 1 .. Len(claimed'[m]),
               NEW k \in 1 .. Len(claimed'[j]), claimed'[m][i] = claimed'[j][k]
        PROVE  m = j /\ i = k
    <3>1. CASE m = l /\ j = l
      BY <1>1, <2>1, <2>6, <2>7, <3>1
    <3>2. CASE m = l /\ j # l
      BY <1>1, <2>1, <2>5, <2>7, <3>2
    <3>3. CASE m # l /\ j = l
      BY <1>1, <2>1, <2>5, <2>7, <3>3
    <3>4. CASE m # l /\ j # l
      BY <1>3, <2>1, <2>7, <3>4 DEF Held
    <3>. QED
      BY <3>1, <3>2, <3>3, <3>4
  <2>. QED
    BY <2>2, <2>4, <2>7 DEF Held
<1>11. AtWork' = AtWork
  BY <1>6 DEF AtWork
<1>12. Open' = Open /\ Listed'
  BY <1>11, OpenRests
<1>. QED
  BY <1>2, <1>7, <1>8, <1>9, <1>10, <1>12 DEF QueueInv

\* A handler keeps the invariant: the first that the task ever had, in the durable queue.
LEMMA RunKeeps ==
    ASSUME QueueAssumption, QueueInv, NEW l \in Loops, RunTask(l)
    PROVE  /\ QueueInv'
           /\ \E t \in Tasks :
                 /\ Abstract!Handle(t)
                 /\ runs[t] = 0 /\ status[t] = "RUNNING"
                 /\ \A u \in Tasks : u # t => runs'[u] = runs[u]
<1>1. QueueTypes /\ Submitted /\ NotYetRun /\ Waiting /\ Held /\ Listed
  BY DEF QueueInv
<1>2. /\ claimed[l] # << >> /\ l \notin called /\ called' = called \cup {l}
      /\ runs' = [runs EXCEPT ![Head(claimed[l])] = @ + 1]
      /\ UNCHANGED <<status, queue, claimed>>
  BY DEF RunTask
<1>3. PICK t : t = Head(claimed[l])
  OBVIOUS
<1>4. claimed[l] \in Seq(Tasks) /\ 1 \in 1 .. Len(claimed[l]) /\ t = claimed[l][1] /\ t \in Tasks
  BY <1>1, <1>2, <1>3 DEF QueueTypes
<1>5. status[t] = "RUNNING" /\ runs[t] = 0
  BY <1>1, <1>2, <1>4 DEF Held
<1>6. \A u \in Tasks : runs'[u] = (IF u = t THEN 1 ELSE runs[u]) /\ runs'[u] \in Nat
  BY <1>1, <1>2, <1>3, <1>4, <1>5 DEF QueueTypes
<1>7. QueueTypes'
  BY <1>1, <1>2, <1>3, <1>4 DEF QueueTypes
<1>8. Submitted' /\ NotYetRun' /\ Waiting'
  BY <1>1, <1>2, <1>5, <1>6 DEF Submitted, NotYetRun, Waiting
<1>9. Held'
  <2>1. ASSUME NEW m \in Loops, NEW i \in 1 .. Len(claimed[m])
        PROVE  /\ claimed[m][i] \in Tasks /\ i \in Nat
               /\ status[claimed[m][i]] = "RUNNING"
               /\ runs[claimed[m][i]] = IF i = 1 /\ m \in called THEN 1 ELSE 0
               /\ claimed[m][i] = t <=> (m = l /\ i = 1)
    BY <1>1, <1>4 DEF Held, QueueTypes
  <2>2. ASSUME NEW m \in Loops, NEW i \in 1 .. Len(claimed[m])
        PROVE  runs'[claimed[m][i]] = IF i = 1 /\ m \in called' THEN 1 ELSE 0
    <3>1. runs'[claimed[m][i]] = IF claimed[m][i] = t THEN 1 ELSE runs[claimed[m][i]]
      BY <1>6, <2>1
    <3>2. m \in called' <=> m \in called \/ m = l
      BY <1>2
    <3>. QED
      BY <1>2, <2>1, <3>1, <3>2
  <2>3. \A m \in Loops : m \in called' => claimed'[m] # << >>
    BY <1>1, <1>2 DEF Held
  <2>4. \A k, m \in Loops : \A i \in 1 .. Len(claimed[k]), j \in 1 .. Len(claimed[m]) :
          claimed[k][i] = claimed[m][j] => k = m /\ i = j
    BY <1>1 DEF Held
  <2>5. claimed' = claimed /\ status' = status
    BY <1>2
  <2>. QED
    BY <2>1, <2>2, <2>3, <2>4, <2>5 DEF Held
<1>10. Open' = Open /\ Listed'
  BY <1>2, OpenRests DEF AtWork
<1>11. Abstract!Handle(t)
  BY <1>4, <1>6, <1>10 DEF Abstract!Handle
<1>. QED
  BY <1>4, <1>5, <1>6, <1>7, <1>8, <1>9, <1>10, <1>11 DEF QueueInv

\* A verdict keeps the invariant, and acknowledges the task: the durable queue's first
\* open one, wherever it stood.
LEMMA MarkKeeps ==
    ASSUME QueueAssumption, QueueInv, NEW l \in Loops, NEW verdict \in {"SUCCEEDED", "FAILED"},
           MarkTask(l, verdict)
    PROVE  /\ QueueInv' /\ UNCHANGED runs
           /\ \E t \in Tasks : Abstract!Acknowledge(t)
<1>1. QueueTypes /\ Submitted /\ NotYetRun /\ Waiting /\ Held /\ Listed
  BY DEF QueueInv
<1>2. /\ l \in called /\ called' = called \ {l}
      /\ status' = [status EXCEPT ![Head(claimed[l])] = verdict]
      /\ claimed' = [claimed EXCEPT ![l] = Tail(claimed[l])]
      /\ UNCHANGED <<queue, runs>>
  BY DEF MarkTask, Done
<1>3. PICK t : t = Head(claimed[l])
  OBVIOUS
<1>4. /\ claimed[l] \in Seq(Tasks) /\ claimed[l] # << >> /\ 1 \in 1 .. Len(claimed[l])
      /\ t = claimed[l][1] /\ t \in Tasks
  BY <1>1, <1>2, <1>3 DEF QueueTypes, Held
<1>5. status[t] = "RUNNING" /\ runs[t] = 1
  BY <1>1, <1>2, <1>4 DEF Held
<1>6. PICK c : c = Tail(claimed[l])
  OBVIOUS
<1>7. /\ c \in Seq(Tasks) /\ Len(c) = Len(claimed[l]) - 1 /\ Len(claimed[l]) \in Nat
      /\ \A i \in 1 .. Len(c) : c[i] = claimed[l][i + 1]
  BY <1>4, <1>6
<1>8. /\ \A u \in Tasks : status'[u] = IF u = t THEN verdict ELSE status[u]
      /\ \A m \in Loops : claimed'[m] = IF m = l THEN c ELSE claimed[m]
  BY <1>1, <1>2, <1>3, <1>6 DEF QueueTypes
<1>9. QueueTypes'
  BY <1>1, <1>2, <1>3, <1>6, <1>7 DEF QueueTypes
<1>10. Submitted' /\ NotYetRun'
  BY <1>1, <1>2, <1>5, <1>8 DEF Submitted, NotYetRun
<1>11. Waiting'
  <2>1. \A i \in 1 .. Len(queue) : queue[i] \in Tasks /\ queue[i] # t
    BY <1>1, <1>5 DEF Waiting, QueueTypes
  <2>. QED
    BY <1>1, <1>2, <1>8, <2>1 DEF Waiting
<1>12. Held'
  <2>1. ASSUME NEW m \in Loops, NEW i \in 1 .. Len(claimed[m])
        PROVE  /\ claimed[m][i] \in Tasks /\ i \in Nat
               /\ status[claimed[m][i]] = "RUNNING"
               /\ runs[claimed[m][i]] = IF i = 1 /\ m \in called THEN 1 ELSE 0
               /\ claimed[m][i] = t => (m = l /\ i = 1)
    BY <1>1, <1>4 DEF Held, QueueTypes
  <2>2. ASSUME NEW m \in Loops, NEW i \in 1 .. Len(claimed'[m])
        PROVE  \E k \in 1 .. Len(claimed[m]) :
                  /\ claimed'[m][i] = claimed[m][k]
                  /\ k = IF m = l THEN i + 1 ELSE i
    <3>1. CASE m = l
      <4>1. claimed'[m] = c
        BY <1>8, <3>1
      <4>2. i + 1 \in 1 .. Len(claimed[m])
        BY <1>7, <3>1, <4>1
      <4>. QED
        BY <1>7, <3>1, <4>1, <4>2
    <3>2. CASE m # l
      BY <1>8, <3>2
    <3>. QED
      BY <3>1, <3>2
  <2>3. ASSUME NEW m \in Loops, NEW i \in 1 .. Len(claimed'[m])
        PROVE  /\ status'[claimed'[m][i]] = "RUNNING"
               /\ runs'[claimed'[m][i]] = IF i = 1 /\ m \in called' THEN 1 ELSE 0
    <3>1. PICK k \in 1 .. Len(claimed[m]) :
                  /\ claimed'[m][i] = claimed[m][k]
                  /\ k = IF m = l THEN i + 1 ELSE i
      BY <2>2
    <3>2. /\ claimed[m][k] \in Tasks /\ status[claimed[m][k]] = "RUNNING"
          /\ runs[claimed[m][k]] = IF k = 1 /\ m \in called THEN 1 ELSE 0
          /\ claimed[m][k] = t => (m = l /\ k = 1)
      BY <2>1
    <3>3. i \in Nat /\ i >= 1
      OBVIOUS
    <3>4. claimed[m][k] # t
      BY <3>1, <3>2, <3>3
    <3>5. m \in called' <=> m \in called /\ m # l
      BY <1>2
    <3>. QED
      BY <1>2, <1>8, <3>1, <3>2, <3>3, <3>4, <3>5
  <2>4. ASSUME NEW m \in Loops PROVE m \in called' => claimed'[m] # << >>
    BY <1>1, <1>2, <1>8 DEF Held
  <2>5. ASSUME NEW m \in Loops, NEW j \in Loops, NEW i \in 1 .. Len(claimed'[m]),
               NEW k \in 1 .. Len(claimed'[j]), claimed'[m][i] = claimed'[j][k]
        PROVE  m = j /\ i = k
    <3>1. PICK a \in 1 .. Len(claimed[m]) :
                  /\ claimed'[m][i] = claimed[m][a]
                  /\ a = IF m = l THEN i + 1 ELSE i
      BY <2>2
    <3>2. PICK b \in 1 .. Len(claimed[j]) :
                  /\ claimed'[j][k] = claimed[j][b]
                  /\ b = IF j = l THEN k + 1 ELSE k
      BY <2>2
    <3>3. claimed[m][a] = claimed[j][b]
      BY <2>5, <3>1, <3>2
    <3>4. m = j /\ a = b
      BY <1>1, <3>3 DEF Held
    <3>5. i \in Nat /\ k \in Nat
      OBVIOUS
    <3>. QED
      BY <3>1, <3>2, <3>4, <3>5
  <2>. QED
    BY <2>3, <2>4, <2>5 DEF Held
<1>13. AtWork' = AtWork \ {t} /\ t \in AtWork /\ AtWork \subseteq Nat
  BY <1>4, <1>5, <1>8 DEF AtWork, QueueAssumption
<1>14. PICK i \in 1 .. Len(Open) : Open[i] = t
  BY <1>1, <1>13 DEF Listed, IsOrder
<1>15. PICK w : w = SubSeq(Open, 1, i - 1) \o SubSeq(Open, i + 1, Len(Open))
  OBVIOUS
<1>16. IsOrder(w, AtWork')
  <2>1. Open \in Seq(AtWork)
    BY <1>1 DEF Listed, IsOrder
  <2>2. LeavesOut(AtWork, w, Open, Len(Open), i)
    BY <1>15, <2>1, LeftOut
  <2>3. IsOrder(w, AtWork \ {Open[i]})
    BY <1>1, <1>13, <2>2, OrderWithout DEF Listed
  <2>. QED
    BY <1>13, <1>14, <2>3
<1>17. Open' = w /\ Listed'
  BY <1>16, OpenBecomes
<1>18. t \in {u \in Tasks : runs[u] > 0}
  BY <1>4, <1>5
<1>19. Abstract!Acknowledge(t)
  BY <1>2, <1>14, <1>15, <1>17, <1>18 DEF Abstract!Acknowledge
<1>. QED
  BY <1>2, <1>4, <1>9, <1>10, <1>11, <1>12, <1>17, <1>19 DEF QueueInv

\* A step of the drain threads' life, or none.
LEMMA OthersKeep ==
    ASSUME QueueAssumption, QueueInv, UNCHANGED <<status, queue, claimed, called, runs>>
    PROVE  QueueInv' /\ Open' = Open
<1>1. Open' = Open /\ Listed'
  BY OpenRests DEF AtWork
<1>. QED
  BY <1>1 DEF QueueInv, QueueTypes, Submitted, NotYetRun, Waiting, Held

-----------------------------------------------------------------------------
(* The theorem *)

RunOnce == \A t \in Tasks : runs'[t] > runs[t] => runs[t] = 0 /\ status[t] = "RUNNING"

\* Every step keeps the invariant, is one of the durable queue or none, and runs no
\* task a second time.
LEMMA QueueStep ==
    ASSUME QueueAssumption, QueueInv, [Next]_vars
    PROVE  /\ QueueInv'
           /\ [Abstract!Next]_<<Open, {t \in Tasks : runs[t] > 0}>>
           /\ RunOnce
<1>1. \A t \in Tasks : runs[t] \in Nat
  BY DEF QueueInv, QueueTypes
<1>2. runs' = runs => RunOnce
  BY <1>1 DEF RunOnce
<1>3. ASSUME NEW t \in Tasks, Enqueue(t)
      PROVE  QueueInv' /\ Abstract!Next /\ RunOnce
  BY <1>2, <1>3, EnqueueKeeps DEF Abstract!Next, Enqueue
<1>4. ASSUME NEW l \in Loops, ClaimNext(l)
      PROVE  QueueInv' /\ UNCHANGED <<Open, runs>>
  BY <1>4, ClaimKeeps
<1>5. ASSUME NEW l \in Loops, RunTask(l)
      PROVE  QueueInv' /\ Abstract!Next /\ RunOnce
  <2>1. PICK t \in Tasks : /\ Abstract!Handle(t)
                          /\ runs[t] = 0 /\ status[t] = "RUNNING"
                          /\ \A u \in Tasks : u # t => runs'[u] = runs[u]
    BY <1>5, RunKeeps
  <2>2. RunOnce
    BY <1>1, <2>1 DEF RunOnce
  <2>3. Abstract!Next
    BY <2>1 DEF Abstract!Next
  <2>. QED
    BY <1>5, <2>2, <2>3, RunKeeps
<1>6. ASSUME NEW l \in Loops, NEW verdict \in {"SUCCEEDED", "FAILED"}, MarkTask(l, verdict)
      PROVE  QueueInv' /\ Abstract!Next /\ RunOnce
  BY <1>2, <1>6, MarkKeeps DEF Abstract!Next
<1>7. ASSUME UNCHANGED <<status, queue, claimed, called, runs>>
      PROVE  QueueInv' /\ UNCHANGED <<Open, runs>>
  BY <1>7, OthersKeep
<1>8. CASE \E t \in Tasks : Enqueue(t)
  BY <1>3, <1>8
<1>9. CASE \E l \in Loops : ClaimNext(l)
  BY <1>2, <1>4, <1>9
<1>10. CASE \E l \in Loops : RunTask(l)
  BY <1>5, <1>10
<1>11. CASE \E l \in Loops, verdict \in {"SUCCEEDED", "FAILED"} : MarkTask(l, verdict)
  BY <1>6, <1>11
<1>12. CASE UNCHANGED <<status, queue, claimed, called, runs>>
  BY <1>2, <1>7, <1>12
<1>13. \/ \E t \in Tasks : Enqueue(t)
       \/ \E l \in Loops : ClaimNext(l) \/ RunTask(l)
       \/ \E l \in Loops, verdict \in {"SUCCEEDED", "FAILED"} : MarkTask(l, verdict)
       \/ UNCHANGED <<status, queue, claimed, called, runs>>
  BY DEF Next, vars, StartUp, BeginShutdown, EndShutdown, WorkerEnds, BeginRequest, EndRequest
<1>. QED
  BY <1>8, <1>9, <1>10, <1>11, <1>12, <1>13

\* No task of the in-memory queue is lost while the process lives, each leaves the
\* backlog after its run, in the place it had, and none is run twice, however many
\* drain loops a shutdown that timed out has left behind.
THEOREM QueueRunsOnce == ASSUME QueueAssumption PROVE Spec => ImplementsExactlyOnce
<1>1. Init => QueueInv
  BY InvInit
<1>2. QueueInv /\ [Next]_vars =>
          /\ QueueInv' /\ [Abstract!Next]_<<Open, {t \in Tasks : runs[t] > 0}>>
          /\ [RunOnce]_vars
  BY QueueStep
<1>3. Init => Abstract!Init
  <2>. SUFFICES ASSUME Init PROVE Abstract!Init
    OBVIOUS
  <2>1. AtWork = {} /\ Listed
    BY InvInit DEF Init, AtWork, QueueInv
  <2>2. Open = << >>
    BY <2>1 DEF Listed, IsOrder
  <2>3. \A t \in Tasks : runs[t] = 0
    BY DEF Init
  <2>4. {t \in Tasks : runs[t] > 0} = {}
    BY <2>3
  <2>. QED
    BY <2>2, <2>4 DEF Abstract!Init
<1>. QED
  BY <1>1, <1>2, <1>3, PTL DEF Spec, Abstract!Spec, ImplementsExactlyOnce, RunOnce

=============================================================================
