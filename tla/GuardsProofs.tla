----------------------------- MODULE GuardsProofs -----------------------------
(***************************************************************************)
(* What is known of the rate limiter and of the issue lifecycle, one by    *)
(* one and in their composition: an invariant of each that every step      *)
(* keeps, and that says what is claimed of it.                             *)
(***************************************************************************)
EXTENDS MCGuards, FiniteSetTheorems, TLAPS

(* The rate limiter: two windows, never three, meet in a span *)

\* Admissions of a span: some of windows before the current one, of at least an age, and n of
\* this one.  The numbers of the newest leave the next one free.
Admission == [age : 0 .. Window - 1, n : Nat]
Newest(past) == {a \in past : a.age = 0}
Split(past, earlier, n, since) ==
    /\ earlier \subseteq past
    /\ Cardinality(earlier) <= Limit /\ Cardinality(past \ earlier) <= n
    /\ \A a \in earlier : a.age >= since
Kept(past, n, since) ==
    /\ past \subseteq Admission /\ IsFiniteSet(past)
    /\ \A a \in Newest(past) : a.n < Cardinality(Newest(past))
    /\ \E earlier : Split(past, earlier, n, since)

\* A counter in Redis that somebody has yet to give a life has counted him.
Pending == IF first = {} THEN 0 ELSE 1
RedisAge == IF ttl > 0 THEN Window - ttl ELSE 0

LimiterInv ==
    /\ DOMAIN admitted = Limiter!Backends
    /\ memory \in [count : 0 .. Limit, age : 0 .. Window]
    /\ Kept(admitted["memory"], memory.count, memory.age)
    /\ count \in Nat /\ ttl \in 0 .. Window
    /\ count = 0 => ttl = 0 /\ first = {}
    /\ first # {} => ttl = 0 /\ \E p : first = {p}
    /\ \E n \in Nat : /\ n + Pending <= Limit /\ n + Pending <= count
                      /\ Kept(admitted["redis"], n, RedisAge)

\* The limiter's cardinality is that of FiniteSets.
LEMMA CardinalityIsThat == \A S : Limiter!Cardinality(S) = Cardinality(S)
  BY DEF Limiter!Cardinality, Cardinality

\* An earlier age says less, and a larger number.
LEMMA KeptLonger ==
    ASSUME NEW past, NEW n, NEW since \in Nat, NEW less \in Nat, less <= since,
           Kept(past, n, since)
    PROVE  Kept(past, n, less)
<1>1. PICK earlier : Split(past, earlier, n, since)
  BY DEF Kept
<1>2. \A a \in past : a.age \in Int
  BY DEF Kept, Admission
<1>3. Split(past, earlier, n, less)
  BY <1>1, <1>2 DEF Split
<1>. QED
  BY <1>3 DEF Kept

\* Two windows hold at most twice the limit.
LEMMA KeptBelowTwice ==
    ASSUME Limiter!RateAssumption, NEW past, NEW n \in 0 .. Limit, NEW since,
           Kept(past, n, since)
    PROVE  Cardinality(past) <= 2 * Limit
<1>1. PICK earlier : Split(past, earlier, n, since)
  BY DEF Kept
<1>2. IsFiniteSet(past) /\ earlier \subseteq past
  BY <1>1 DEF Kept, Split
<1>3. IsFiniteSet(earlier) /\ IsFiniteSet(past \ earlier)
  BY <1>2, FS_Subset
<1>4. /\ Cardinality(earlier) \in Nat /\ Cardinality(past \ earlier) \in Nat
      /\ Cardinality(past) \in Nat
  BY <1>2, <1>3, FS_CardinalityType
<1>5. Cardinality(past) <= Cardinality(earlier) + Cardinality(past \ earlier)
  <2>1. past = earlier \cup (past \ earlier) /\ earlier \cap (past \ earlier) = {}
    BY <1>2
  <2>2. Cardinality(earlier \cup (past \ earlier)) =
           Cardinality(earlier) + Cardinality(past \ earlier) - Cardinality(earlier \cap (past \ earlier))
    BY <1>3, FS_Union
  <2>3. Cardinality(earlier \cap (past \ earlier)) = 0
    BY <2>1, FS_EmptySet
  <2>4. Cardinality(past) = Cardinality(earlier) + Cardinality(past \ earlier) - 0
    BY <2>1, <2>2, <2>3, Zenon
  <2>. QED
    BY ONLY <1>4, <2>4
<1>6. Cardinality(earlier) <= Limit /\ Cardinality(past \ earlier) <= n
  BY <1>1 DEF Split
<1>. QED
  BY <1>4, <1>5, <1>6 DEF Limiter!RateAssumption

\* The window is over: what is there is of windows before, and the ones before it are gone.
LEMMA KeptAtTurn ==
    ASSUME Limiter!RateAssumption, NEW past, NEW n \in 0 .. Limit, NEW since \in Nat,
           since >= Window,
           Kept(past, n, since)
    PROVE  Kept(past, 0, 0)
<1>1. PICK earlier : Split(past, earlier, n, since)
  BY DEF Kept
<1>2. \A a \in past : a.age \in 0 .. Window - 1
  BY DEF Kept, Admission
<1>3. earlier = {}
  BY <1>1, <1>2 DEF Split, Limiter!RateAssumption
<1>4. past \ earlier = past
  BY <1>3
<1>5. Cardinality(past) \in Nat /\ Cardinality(past) <= Limit
  <2>1. Cardinality(past) \in Nat
    BY FS_CardinalityType DEF Kept
  <2>2. Cardinality(past) <= n
    BY <1>1, <1>4 DEF Split
  <2>. QED
    BY <2>1, <2>2 DEF Limiter!RateAssumption
<1>6. Cardinality(past \ past) = 0
  <2>1. past \ past = {}
    OBVIOUS
  <2>. QED
    BY <2>1, FS_EmptySet
<1>7. Split(past, past, 0, 0)
  BY <1>2, <1>5, <1>6 DEF Split
<1>. QED
  BY <1>7 DEF Kept

\* An admission of the current window.
LEMMA KeptWithNewer ==
    ASSUME Limiter!RateAssumption, NEW past, NEW n \in Nat, NEW since \in Nat,
           Kept(past, n, since)
    PROVE  Kept(Limiter!Newer(past), n + 1, since)
<1>. DEFINE new == [age |-> 0, n |-> Cardinality(Newest(past))]
<1>1. PICK earlier : Split(past, earlier, n, since)
  BY DEF Kept
<1>2. /\ past \subseteq Admission /\ IsFiniteSet(past) /\ earlier \subseteq past
      /\ Newest(past) \subseteq past
      /\ \A a \in Newest(past) : a.n < Cardinality(Newest(past))
  BY <1>1 DEF Kept, Split, Newest
<1>3. Cardinality(Newest(past)) \in Nat /\ IsFiniteSet(Newest(past))
      /\ IsFiniteSet(past \ earlier)
  <2>1. IsFiniteSet(Newest(past)) /\ IsFiniteSet(past \ earlier)
    BY <1>2, FS_Subset
  <2>. QED
    BY <2>1, FS_CardinalityType
<1>4. new \in Admission /\ new.age = 0 /\ new.n = Cardinality(Newest(past))
  BY <1>3 DEF Admission, Limiter!RateAssumption
<1>5. Limiter!Newer(past) = past \cup {new}
  BY CardinalityIsThat DEF Limiter!Newer, Newest
<1>. HIDE DEF new
<1>6. new \notin past
  <2>. SUFFICES ASSUME new \in past PROVE FALSE
    OBVIOUS
  <2>1. new \in Newest(past)
    BY <1>4 DEF Newest
  <2>2. Cardinality(Newest(past)) < Cardinality(Newest(past))
    BY <1>2, <1>4, <2>1
  <2>. QED
    BY <1>3, <2>2
<1>7. Newest(past \cup {new}) = Newest(past) \cup {new} /\ new \notin Newest(past)
  BY <1>4, <1>6 DEF Newest
<1>8. IsFiniteSet(past \cup {new})
  BY <1>2, FS_AddElement
<1>9. Cardinality(Newest(past \cup {new})) = Cardinality(Newest(past)) + 1
  BY <1>3, <1>7, FS_AddElement
<1>10. \A a \in Newest(past \cup {new}) : a.n < Cardinality(Newest(past \cup {new}))
  <2>. SUFFICES ASSUME NEW a \in Newest(past \cup {new})
                PROVE  a.n < Cardinality(Newest(past)) + 1
    BY <1>9
  <2>1. CASE a = new
    BY <1>3, <1>4, <2>1
  <2>2. CASE a \in Newest(past)
    <3>1. a.n \in Nat
      BY <1>2, <2>2 DEF Admission
    <3>. QED
      BY <1>2, <1>3, <2>2, <3>1
  <2>. QED
    BY <1>7, <2>1, <2>2
<1>11. Split(past \cup {new}, earlier, n + 1, since)
  <2>1. (past \cup {new}) \ earlier = (past \ earlier) \cup {new} /\ new \notin past \ earlier
    BY <1>2, <1>6
  <2>2. Cardinality((past \cup {new}) \ earlier) = Cardinality(past \ earlier) + 1
    BY <1>3, <2>1, FS_AddElement
  <2>3. Cardinality(past \ earlier) \in Nat /\ Cardinality(past \ earlier) <= n
    BY <1>1, <1>3, FS_CardinalityType DEF Split
  <2>4. Cardinality((past \cup {new}) \ earlier) <= n + 1
    BY <2>2, <2>3
  <2>. QED
    BY <1>1, <1>2, <2>4 DEF Split
<1>. QED
  BY <1>2, <1>4, <1>5, <1>8, <1>10, <1>11 DEF Kept

\* Time passes.
LEMMA KeptOlder ==
    ASSUME Limiter!RateAssumption, NEW past, NEW n \in Nat, NEW since \in Nat,
           Kept(past, n, since)
    PROVE  Kept(Limiter!Older(past), n, since + 1)
<1>. DEFINE Later(S) == {x \in S : x.age + 1 < Window}
            grown(a) == [age |-> a.age + 1, n |-> a.n]
            Aged(S) == {grown(a) : a \in Later(S)}
<1>1. PICK earlier : Split(past, earlier, n, since)
  BY DEF Kept
<1>2. past \subseteq Admission /\ IsFiniteSet(past) /\ earlier \subseteq past
  BY <1>1 DEF Kept, Split
<1>3. Limiter!Older(past) = Aged(past)
  BY DEF Limiter!Older
<1>4. \A a \in past : a.age \in Nat /\ a.n \in Nat
  BY <1>2 DEF Admission
<1>5. \A S : S \subseteq past => /\ IsFiniteSet(S) /\ IsFiniteSet(Aged(S))
                                 /\ Cardinality(Aged(S)) <= Cardinality(S)
  <2>. SUFFICES ASSUME NEW S, S \subseteq past
                PROVE  /\ IsFiniteSet(S) /\ IsFiniteSet(Aged(S))
                       /\ Cardinality(Aged(S)) <= Cardinality(S)
    OBVIOUS
  <2>. DEFINE L == Later(S)
              g == [a \in L |-> grown(a)]
  <2>1. IsFiniteSet(S) /\ L \subseteq S
    BY <1>2, FS_Subset
  <2>2. IsFiniteSet(L) /\ Cardinality(L) <= Cardinality(S)
    BY <2>1, FS_Subset
  <2>3. Aged(S) = {g[a] : a \in L}
    OBVIOUS
  <2>4. g \in Surjection(L, Aged(S))
    BY <2>3 DEF Surjection
  <2>. HIDE DEF g, L, Aged
  <2>5. IsFiniteSet(Aged(S)) /\ Cardinality(Aged(S)) <= Cardinality(L)
    BY <2>2, <2>4, FS_Surjection
  <2>6. Cardinality(S) \in Nat /\ Cardinality(L) \in Nat /\ Cardinality(Aged(S)) \in Nat
    BY <2>1, <2>2, <2>5, FS_CardinalityType
  <2>. QED
    BY <2>1, <2>2, <2>5, <2>6
<1>6. \A a \in Aged(past) : a \in Admission /\ a.age > 0
  BY <1>4 DEF Admission, Limiter!RateAssumption
<1>7. Newest(Aged(past)) = {}
  BY <1>6 DEF Newest, Admission
<1>8. Split(Aged(past), Aged(earlier), n, since + 1)
  <2>1. Aged(earlier) \subseteq Aged(past)
        /\ Aged(past) \ Aged(earlier) \subseteq Aged(past \ earlier)
    BY <1>2
  <2>2. \A a \in Aged(earlier) : a.age >= since + 1
    <3>1. \A a \in earlier : a.age >= since /\ a.age \in Nat
      BY <1>1, <1>2, <1>4 DEF Split
    <3>. QED
      BY <3>1
  <2>3. Cardinality(earlier) <= Limit /\ Cardinality(past \ earlier) <= n
    BY <1>1 DEF Split
  <2>. HIDE DEF Aged
  <2>4. /\ IsFiniteSet(Aged(past \ earlier))
           /\ Cardinality(Aged(past \ earlier)) <= Cardinality(past \ earlier)
        /\ IsFiniteSet(Aged(earlier)) /\ Cardinality(Aged(earlier)) <= Cardinality(earlier)
        /\ IsFiniteSet(earlier) /\ IsFiniteSet(past \ earlier)
    BY <1>2, <1>5
  <2>5. /\ IsFiniteSet(Aged(past) \ Aged(earlier))
        /\ Cardinality(Aged(past) \ Aged(earlier)) <= Cardinality(Aged(past \ earlier))
    BY <2>1, <2>4, FS_Subset
  <2>6. /\ Cardinality(Aged(past \ earlier)) \in Nat /\ Cardinality(past \ earlier) \in Nat
        /\ Cardinality(Aged(earlier)) \in Nat /\ Cardinality(earlier) \in Nat
        /\ Cardinality(Aged(past) \ Aged(earlier)) \in Nat
    BY <2>4, <2>5, FS_CardinalityType
  <2>7. Cardinality(Aged(earlier)) <= Limit /\ Cardinality(Aged(past) \ Aged(earlier)) <= n
    BY <2>3, <2>4, <2>5, <2>6 DEF Limiter!RateAssumption
  <2>. QED
    BY <2>1, <2>2, <2>7 DEF Split
<1>9. IsFiniteSet(Aged(past))
  BY <1>5
<1>. HIDE DEF Aged
<1>. QED
  BY <1>3, <1>6, <1>7, <1>8, <1>9 DEF Kept

\* Nobody has asked yet.
LEMMA LimiterInit == Limiter!RateAssumption /\ Limiter!Init => LimiterInv
<1>. SUFFICES ASSUME Limiter!RateAssumption, Limiter!Init PROVE LimiterInv
  OBVIOUS
<1>1. Kept({}, 0, 0)
  <2>1. IsFiniteSet({}) /\ Cardinality({}) = 0
    BY FS_EmptySet
  <2>2. {} \ {} = {}
    OBVIOUS
  <2>3. Split({}, {}, 0, 0)
    BY <2>1, <2>2 DEF Split, Limiter!RateAssumption
  <2>4. Newest({}) = {}
    BY DEF Newest
  <2>. QED
    BY <2>1, <2>3, <2>4 DEF Kept
<1>2. Kept({}, 0, Window)
  BY <1>1 DEF Kept, Split
<1>3. admitted["memory"] = {} /\ admitted["redis"] = {} /\ DOMAIN admitted = Limiter!Backends
  BY DEF Limiter!Init, Limiter!Backends
<1>4. /\ memory.count = 0 /\ memory.age = Window
      /\ memory \in [count : 0 .. Limit, age : 0 .. Window]
  BY DEF Limiter!Init, Limiter!RateAssumption
<1>5. Pending = 0 /\ RedisAge = 0 /\ first = {} /\ ttl = 0 /\ count = 0
  BY DEF Limiter!Init, Pending, RedisAge
<1>6. 0 + Pending <= Limit /\ 0 + Pending <= count /\ Kept(admitted["redis"], 0, RedisAge)
  BY <1>1, <1>3, <1>5 DEF Limiter!RateAssumption
<1>7. \E n \in Nat : /\ n + Pending <= Limit /\ n + Pending <= count
                     /\ Kept(admitted["redis"], n, RedisAge)
  BY <1>6
<1>. QED
  BY <1>2, <1>3, <1>4, <1>5, <1>7 DEF LimiterInv, Limiter!RateAssumption

\* A request in memory.
LEMMA CheckMemoryKeeps == ASSUME Limiter!RateAssumption, LimiterInv, Limiter!CheckMemory
    PROVE LimiterInv'
<1>. DEFINE past == admitted["memory"]
<1>1. /\ DOMAIN admitted = Limiter!Backends
         /\ memory \in [count : 0 .. Limit, age : 0 .. Window]
      /\ Kept(past, memory.count, memory.age)
  BY DEF LimiterInv
<1>2. UNCHANGED <<count, ttl, first>>
      /\ admitted' = [admitted EXCEPT !["memory"] = Limiter!Newer(@)]
  BY DEF Limiter!CheckMemory, Limiter!Admit
<1>. DEFINE now == Limiter!CurrentWindow
<1>3. now.count < Limit /\ memory' = [now EXCEPT !.count = @ + 1]
  BY DEF Limiter!CheckMemory, Limiter!BelowLimit
<1>4. /\ now \in [count : 0 .. Limit, age : 0 .. Window]
      /\ Kept(past, now.count, now.age)
  <2>1. CASE memory.age >= Window
    <3>1. now = [count |-> 0, age |-> 0]
      BY <2>1 DEF Limiter!CurrentWindow
    <3>2. Kept(past, 0, 0)
      <4>1. memory.count \in 0 .. Limit /\ memory.age \in Nat
        BY <1>1 DEF Limiter!RateAssumption
      <4>. HIDE DEF past, now
      <4>. QED
        BY <1>1, <2>1, <4>1, KeptAtTurn
    <3>3. now.count = 0 /\ now.age = 0
      BY ONLY <3>1
    <3>4. now \in [count : 0 .. Limit, age : 0 .. Window]
      BY <3>1 DEF Limiter!RateAssumption
    <3>. HIDE DEF past, now
    <3>. QED
      BY <3>2, <3>3, <3>4
  <2>2. CASE ~(memory.age >= Window)
    BY <1>1, <2>2 DEF Limiter!CurrentWindow
  <2>. QED
    BY <2>1, <2>2
<1>. HIDE DEF now
<1>5. memory' \in [count : 0 .. Limit, age : 0 .. Window]
      /\ memory'.count = now.count + 1 /\ memory'.age = now.age
  BY <1>3, <1>4 DEF Limiter!RateAssumption
<1>6. Kept(Limiter!Newer(past), memory'.count, memory'.age)
  <2>1. now.count \in Nat /\ now.age \in Nat
    BY <1>4 DEF Limiter!RateAssumption
  <2>. HIDE DEF past
  <2>2. Kept(Limiter!Newer(past), now.count + 1, now.age)
    BY <1>4, <2>1, KeptWithNewer
  <2>. QED
    BY <1>5, <2>2
<1>7. admitted'["memory"] = Limiter!Newer(past) /\ admitted'["redis"] = admitted["redis"]
      /\ DOMAIN admitted' = Limiter!Backends
  BY <1>1, <1>2 DEF Limiter!Backends
<1>. HIDE DEF past
<1>8. Pending' = Pending /\ RedisAge' = RedisAge
  BY <1>2 DEF Pending, RedisAge
<1>9. Kept(admitted["memory"], memory.count, memory.age)'
  BY <1>6, <1>7 DEF Kept, Split
<1>10. ASSUME NEW n \in Nat, Kept(admitted["redis"], n, RedisAge)
       PROVE  Kept(admitted["redis"], n, RedisAge)'
  BY <1>7, <1>8, <1>10 DEF Kept, Split
<1>11. \E n \in Nat : /\ n + Pending' <= Limit /\ n + Pending' <= count'
                      /\ Kept(admitted["redis"], n, RedisAge)'
  BY <1>2, <1>8, <1>10 DEF LimiterInv
<1>. QED
  BY <1>2, <1>5, <1>7, <1>9, <1>11 DEF LimiterInv

\* A step of the counter in Redis.
LEMMA RedisKeeps ==
    ASSUME LimiterInv, UNCHANGED memory, DOMAIN admitted' = Limiter!Backends,
           admitted'["memory"] = admitted["memory"], count' \in Nat, ttl' \in 0 .. Window,
           count' = 0 => ttl' = 0 /\ first' = {},
           first' # {} => ttl' = 0 /\ \E p : first' = {p},
           NEW n \in Nat, n + Pending' <= Limit, n + Pending' <= count',
           Kept(admitted'["redis"], n, RedisAge')
    PROVE  LimiterInv'
<1>1. /\ memory' \in [count : 0 .. Limit, age : 0 .. Window]
      /\ Kept(admitted'["memory"], memory'.count, memory'.age)
  BY DEF LimiterInv
<1>. QED
  BY <1>1 DEF LimiterInv, Kept, Split

\* A request is counted.
LEMMA IncrementKeeps ==
    ASSUME Limiter!RateAssumption, LimiterInv, NEW p \in Processes, Limiter!Increment(p)
    PROVE  LimiterInv'
<1>1. /\ DOMAIN admitted = Limiter!Backends /\ count \in Nat /\ ttl \in 0 .. Window
      /\ count = 0 => ttl = 0 /\ first = {}
      /\ first # {} => ttl = 0 /\ \E q : first = {q}
  BY DEF LimiterInv
<1>2. PICK n \in Nat : /\ n + Pending <= Limit /\ n + Pending <= count
                       /\ Kept(admitted["redis"], n, RedisAge)
  BY DEF LimiterInv
<1>3. UNCHANGED <<memory, ttl>> /\ RedisAge' = RedisAge
      /\ count' = IF count > Limit THEN count ELSE count + 1
  BY DEF Limiter!Increment, RedisAge
<1>4. CASE count = 0
  <2>1. first' = {p} /\ admitted' = admitted /\ count' = 1
    BY <1>1, <1>3, <1>4 DEF Limiter!Increment, Limiter!RateAssumption
  <2>2. n = 0 /\ Pending' = 1
    BY <1>1, <1>2, <1>4, <2>1 DEF Pending
  <2>3. n + Pending' <= Limit /\ n + Pending' <= count'
    BY <2>1, <2>2 DEF Limiter!RateAssumption
  <2>4. ttl' \in 0 .. Window /\ ttl' = 0 /\ count' \in Nat /\ count' # 0
    BY <1>1, <1>3, <1>4, <2>1
  <2>5. Kept(admitted'["redis"], n, RedisAge')
    BY <1>2, <1>3, <2>1
  <2>6. DOMAIN admitted' = Limiter!Backends /\ admitted'["memory"] = admitted["memory"]
    BY <1>1, <2>1
  <2>. QED
    BY <1>3, <2>1, <2>3, <2>4, <2>5, <2>6, RedisKeeps
<1>5. CASE count # 0
  <2>1. UNCHANGED first /\ Pending' = Pending /\ count' \in Nat /\ count' # 0 /\ count <= count'
        /\ ttl' \in 0 .. Window
    BY <1>1, <1>3, <1>5 DEF Limiter!Increment, Pending
  <2>2. CASE count < Limit
    <3>1. Limiter!Admit("redis") /\ count' = count + 1
      BY <1>1, <1>3, <1>5, <2>2 DEF Limiter!Increment, Limiter!RateAssumption
    <3>2. admitted'["redis"] = Limiter!Newer(admitted["redis"])
          /\ admitted'["memory"] = admitted["memory"] /\ DOMAIN admitted' = Limiter!Backends
      BY <1>1, <3>1 DEF Limiter!Admit, Limiter!Backends
    <3>3. n + 1 + Pending' <= Limit /\ n + 1 + Pending' <= count' /\ n + 1 \in Nat
      BY <1>1, <1>2, <2>1, <2>2, <3>1 DEF Limiter!RateAssumption, Pending
    <3>4. RedisAge \in Nat
      BY <1>1 DEF RedisAge, Limiter!RateAssumption
    <3>5. Kept(Limiter!Newer(admitted["redis"]), n + 1, RedisAge)
      BY <1>2, <3>4, KeptWithNewer
    <3>6. Kept(admitted'["redis"], n + 1, RedisAge')
      BY <1>3, <3>2, <3>5
    <3>. QED
      BY <1>1, <1>3, <2>1, <3>2, <3>3, <3>6, RedisKeeps
  <2>3. CASE ~(count < Limit)
    <3>1. admitted' = admitted
      BY <1>5, <2>3 DEF Limiter!Increment
    <3>2. n + Pending' <= Limit /\ n + Pending' <= count'
      BY <1>1, <1>2, <2>1 DEF Pending, Limiter!RateAssumption
    <3>. QED
      BY <1>1, <1>2, <1>3, <2>1, <3>1, <3>2, RedisKeeps
  <2>. QED
    BY <2>2, <2>3
<1>. QED
  BY <1>4, <1>5

\* The counter gets a life, and its first request goes on.
LEMMA SetExpiryKeeps ==
    ASSUME Limiter!RateAssumption, LimiterInv, NEW p \in Processes, Limiter!SetExpiry(p)
    PROVE  LimiterInv'
<1>1. /\ DOMAIN admitted = Limiter!Backends /\ count \in Nat /\ count # 0 /\ first = {p}
  BY DEF LimiterInv, Limiter!SetExpiry
<1>2. PICK n \in Nat : /\ n + Pending <= Limit /\ n + Pending <= count
                       /\ Kept(admitted["redis"], n, RedisAge)
  BY DEF LimiterInv
<1>3. UNCHANGED <<memory, count>> /\ ttl' = Window /\ first' = {} /\ Limiter!Admit("redis")
  BY <1>1 DEF Limiter!SetExpiry, Limiter!Life
<1>4. admitted'["redis"] = Limiter!Newer(admitted["redis"])
      /\ admitted'["memory"] = admitted["memory"] /\ DOMAIN admitted' = Limiter!Backends
  BY <1>1, <1>3 DEF Limiter!Admit, Limiter!Backends
<1>5. Pending = 1 /\ Pending' = 0 /\ RedisAge' = 0
  BY <1>1, <1>3 DEF Pending, RedisAge, Limiter!RateAssumption
<1>6. n + 1 \in Nat /\ (n + 1) + Pending' <= Limit /\ (n + 1) + Pending' <= count'
  BY <1>1, <1>2, <1>3, <1>5 DEF Limiter!RateAssumption
<1>7. Kept(Limiter!Newer(admitted["redis"]), n + 1, 0)
  <2>1. RedisAge \in Nat
    BY DEF RedisAge, Limiter!RateAssumption, LimiterInv
  <2>2. Kept(admitted["redis"], n, 0)
    BY <1>2, <2>1, KeptLonger
  <2>. QED
    BY <2>2, KeptWithNewer
<1>8. Kept(admitted'["redis"], n + 1, RedisAge')
  BY <1>4, <1>5, <1>7
<1>9. ttl' \in 0 .. Window /\ count' \in Nat /\ count' # 0
  BY <1>1, <1>3 DEF Limiter!RateAssumption
<1>. QED
  BY <1>3, <1>4, <1>6, <1>8, <1>9, RedisKeeps

\* It gets none.
LEMMA ExpiryLostKeeps ==
    ASSUME Limiter!RateAssumption, LimiterInv, NEW p \in Processes, Limiter!ExpiryLost(p)
    PROVE  LimiterInv'
<1>1. /\ DOMAIN admitted = Limiter!Backends /\ count \in Nat /\ count # 0 /\ first = {p}
      /\ ttl \in 0 .. Window
  BY DEF LimiterInv, Limiter!ExpiryLost
<1>2. PICK n \in Nat : /\ n + Pending <= Limit /\ n + Pending <= count
                       /\ Kept(admitted["redis"], n, RedisAge)
  BY DEF LimiterInv
<1>3. UNCHANGED <<memory, count, ttl, admitted>> /\ first' = {} /\ RedisAge' = RedisAge
  BY <1>1 DEF Limiter!ExpiryLost, RedisAge
<1>4. Pending = 1 /\ Pending' = 0
  BY <1>1, <1>3 DEF Pending
<1>5. n + Pending' <= Limit /\ n + Pending' <= count'
  BY <1>1, <1>2, <1>3, <1>4 DEF Limiter!RateAssumption
<1>. QED
  BY <1>1, <1>2, <1>3, <1>5, RedisKeeps

\* Time passes for both.
LEMMA TickKeeps == ASSUME Limiter!RateAssumption, LimiterInv, Limiter!Tick PROVE LimiterInv'
<1>1. /\ DOMAIN admitted = Limiter!Backends /\ count \in Nat /\ ttl \in 0 .. Window
      /\ memory \in [count : 0 .. Limit, age : 0 .. Window]
      /\ Kept(admitted["memory"], memory.count, memory.age)
      /\ count = 0 => ttl = 0 /\ first = {}
      /\ first # {} => ttl = 0 /\ \E q : first = {q}
  BY DEF LimiterInv
<1>2. PICK n \in Nat : /\ n + Pending <= Limit /\ n + Pending <= count
                       /\ Kept(admitted["redis"], n, RedisAge)
  BY DEF LimiterInv
<1>3. /\ DOMAIN admitted' = Limiter!Backends /\ UNCHANGED first /\ Pending' = Pending
      /\ admitted'["memory"] = Limiter!Older(admitted["memory"])
      /\ admitted'["redis"] = Limiter!Older(admitted["redis"])
  BY DEF Limiter!Tick, Limiter!Backends, Pending
<1>4. memory' \in [count : 0 .. Limit, age : 0 .. Window]
      /\ Kept(admitted'["memory"], memory'.count, memory'.age)
  <2>1. memory.count \in Nat /\ memory.age \in Nat
    BY <1>1 DEF Limiter!RateAssumption
  <2>2. Kept(admitted'["memory"], memory.count, memory.age + 1)
    BY <1>1, <1>3, <2>1, KeptOlder
  <2>3. CASE memory.age >= Window
    <3>1. memory' = memory
      BY <2>3 DEF Limiter!Tick
    <3>2. Kept(admitted'["memory"], memory.count, memory.age)
      BY <2>1, <2>2, KeptLonger
    <3>. QED
      BY <1>1, <3>1, <3>2
  <2>4. CASE ~(memory.age >= Window)
    <3>1. memory' = [memory EXCEPT !.age = @ + 1]
      BY <2>4 DEF Limiter!Tick
    <3>2. /\ memory' \in [count : 0 .. Limit, age : 0 .. Window]
          /\ memory'.count = memory.count /\ memory'.age = memory.age + 1
      BY <1>1, <2>4, <3>1 DEF Limiter!RateAssumption
    <3>. QED
      BY <2>2, <3>2
  <2>. QED
    BY <2>3, <2>4
<1>5. /\ count' \in Nat /\ ttl' \in 0 .. Window
      /\ count' = 0 => ttl' = 0 /\ first' = {}
      /\ first' # {} => ttl' = 0 /\ \E q : first' = {q}
  <2>1. ttl' = (IF ttl = 0 THEN 0 ELSE ttl - 1) /\ count' = IF ttl = 1 THEN 0 ELSE count
    BY DEF Limiter!Tick
  <2>2. first' = first
    BY DEF Limiter!Tick
  <2>3. count \in Nat /\ ttl \in 0 .. Window /\ Window \in Nat
    BY <1>1 DEF Limiter!RateAssumption
  <2>4. count' \in Nat /\ ttl' \in 0 .. Window
    BY <2>1, <2>3
  <2>5. count' = 0 => count = 0 \/ ttl = 1
    BY <2>1
  <2>6. ttl = 0 \/ ttl = 1 => ttl' = 0
    BY <2>1
  <2>7. first # {} => ttl = 0 /\ \E q : first = {q}
    BY <1>1
  <2>8. count = 0 => ttl = 0 /\ first = {}
    BY <1>1
  <2>9. count' = 0 => ttl' = 0 /\ first' = {}
    BY <2>2, <2>5, <2>6, <2>7, <2>8
  <2>. QED
    BY <2>2, <2>4, <2>6, <2>7, <2>9
<1>6. RedisAge \in Nat /\ Kept(admitted'["redis"], n, RedisAge + 1)
  <2>1. RedisAge \in Nat
    BY <1>1 DEF RedisAge, Limiter!RateAssumption
  <2>. QED
    BY <1>2, <1>3, <2>1, KeptOlder
<1>7. \E k \in Nat : /\ k + Pending' <= Limit /\ k + Pending' <= count'
                     /\ Kept(admitted'["redis"], k, RedisAge')
  <2>1. CASE ttl = 1
    <3>1. count' = 0 /\ ttl' = 0 /\ RedisAge' = 0 /\ RedisAge + 1 >= Window /\ Pending' = 0
      BY <1>1, <1>3, <2>1 DEF Limiter!Tick, RedisAge, Pending, Limiter!RateAssumption
    <3>2. n \in 0 .. Limit /\ RedisAge + 1 \in Nat
      BY <1>2, <1>6 DEF Pending, Limiter!RateAssumption
    <3>3. Kept(admitted'["redis"], 0, 0)
      BY <1>6, <3>1, <3>2, KeptAtTurn
    <3>4. 0 + Pending' <= Limit /\ 0 + Pending' <= count'
      BY <3>1 DEF Limiter!RateAssumption
    <3>. QED
      BY <3>1, <3>3, <3>4
  <2>2. CASE ttl # 1
    <3>1. count' = count /\ RedisAge' \in Nat /\ RedisAge' <= RedisAge + 1
      BY <1>1, <2>2 DEF Limiter!Tick, RedisAge, Limiter!RateAssumption
    <3>2. Kept(admitted'["redis"], n, RedisAge')
      <4>1. RedisAge + 1 \in Nat
        BY <1>6
      <4>. QED
        BY <1>6, <3>1, <4>1, KeptLonger
    <3>. QED
      BY <1>2, <1>3, <3>1, <3>2
  <2>. QED
    BY <2>1, <2>2
<1>. QED
  BY <1>3, <1>4, <1>5, <1>7 DEF LimiterInv, Kept, Split

\* Every step of the rate limiter keeps what is known of it.
LEMMA LimiterStep == Limiter!RateAssumption /\ LimiterInv /\ [Limiter!Next]_Limiter!vars
    => LimiterInv'
<1>. SUFFICES ASSUME Limiter!RateAssumption, LimiterInv, [Limiter!Next]_Limiter!vars
                     PROVE LimiterInv'
  OBVIOUS
<1>1. CASE UNCHANGED Limiter!vars
  <2>1. UNCHANGED <<memory, count, ttl, first, admitted>>
    BY <1>1 DEF Limiter!vars
  <2>. QED
    BY <2>1 DEF LimiterInv, Pending, RedisAge, Kept, Split
<1>. QED
  BY <1>1, CheckMemoryKeeps, IncrementKeeps, SetExpiryKeeps, ExpiryLostKeeps, TickKeeps
     DEF Limiter!Next

\* What is known of it bounds the admissions of a span.
LEMMA LimiterImplied == Limiter!RateAssumption /\ LimiterInv => Limiter!AtMostTwiceTheLimit
<1>. SUFFICES ASSUME Limiter!RateAssumption, LimiterInv PROVE Limiter!AtMostTwiceTheLimit
  OBVIOUS
<1>1. Cardinality(admitted["memory"]) <= 2 * Limit
  <2>1. memory.count \in 0 .. Limit /\ Kept(admitted["memory"], memory.count, memory.age)
    BY DEF LimiterInv
  <2>. QED
    BY <2>1, KeptBelowTwice
<1>2. Cardinality(admitted["redis"]) <= 2 * Limit
  <2>1. PICK n \in Nat : n + Pending <= Limit /\ Kept(admitted["redis"], n, RedisAge)
    BY DEF LimiterInv
  <2>2. n \in 0 .. Limit
    BY <2>1 DEF Pending, Limiter!RateAssumption
  <2>. QED
    BY <2>1, <2>2, KeptBelowTwice
<1>. QED
  BY <1>1, <1>2, CardinalityIsThat DEF Limiter!AtMostTwiceTheLimit, Limiter!Backends

-----------------------------------------------------------------------------
(* The lifecycle of issues: what closes them, and who overwrites their labels *)

\* A scan has read the labels of the issues it works on, and is at one that was not fixed then.
AtWork == {"move", "plan", "dispatch", "ready", "fallback"}
ScanRecord ==
    [pc : AtWork \cup {"idle", "next"},
     seen : UNION {[S -> Lifecycle!Labels] : S \in SUBSET Issues},
     todo : SUBSET Issues, issue : Issues \cup {Lifecycle!None}, plan : {"none", "complete"}]
GoodScan(w, label, marked) ==
    /\ w \in ScanRecord /\ DOMAIN w.seen \subseteq Issues
    /\ w.todo \subseteq DOMAIN w.seen
    /\ w.pc \in AtWork => w.issue \in DOMAIN w.seen /\ w.seen[w.issue] # "fixed"
    /\ \A i \in DOMAIN w.seen : w.seen[i] # "fixed" /\ label[i] = "fixed" => i \in marked

PullRecord == [issue : Issues, state : {"open", "closed", "merged"}, own : BOOLEAN]
WorkerRecord == [pc : {"idle", "work", "mark", "end"}, issue : Issues \cup {Lifecycle!None},
                 labels : Lifecycle!Labels \cup {""}]
Typed ==
    /\ DOMAIN stage = Issues /\ open \subseteq Issues
    /\ queue \in Seq(Lifecycle!Keys) /\ pulls \in Seq(PullRecord)
    /\ worker \in [Workers -> WorkerRecord]
    /\ \A w \in Workers : worker[w].pc # "idle" => worker[w].issue \in Issues
    /\ DOMAIN scan = Scans /\ DOMAIN older = Scans

LifecycleInv ==
    /\ Typed
    /\ \A s \in Scans : GoodScan(scan[s], stage, older[s])
    /\ Lifecycle!ClosedByMergedWork

\* Labels other than fixed do not age what a scan has read.
LEMMA LabelsMove ==
    ASSUME NEW w, NEW label, NEW next, NEW marked, NEW more, marked \subseteq more,
           GoodScan(w, label, marked),
           \A i \in Issues : next[i] = "fixed" => label[i] = "fixed" \/ i \in more
    PROVE  GoodScan(w, next, more)
  BY DEF GoodScan

\* A scan moves.
LEMMA ScanMovesOn ==
    ASSUME LifecycleInv, NEW s \in Scans, NEW w, scan' = [scan EXCEPT ![s] = w],
           GoodScan(w, stage, older[s]), DOMAIN stage' = Issues,
           \A i \in Issues : stage'[i] = "fixed" => stage[i] = "fixed",
           UNCHANGED <<older, worker, pulls, open>>, queue' \in Seq(Lifecycle!Keys)
    PROVE  LifecycleInv'
<1>1. DOMAIN scan = Scans /\ \A u \in Scans : GoodScan(scan[u], stage, older[u])
  BY DEF LifecycleInv, Typed
<1>2. DOMAIN scan' = Scans /\ \A u \in Scans : scan'[u] = IF u = s THEN w ELSE scan[u]
  BY <1>1
<1>3. \A u \in Scans : GoodScan(scan'[u], stage, older[u])
  BY <1>1, <1>2
<1>4. \A u \in Scans : GoodScan(scan'[u], stage', older'[u])
  BY <1>3, LabelsMove
<1>5. Lifecycle!ClosedByMergedWork'
  BY DEF LifecycleInv, Lifecycle!ClosedByMergedWork
<1>6. Typed'
  BY <1>2 DEF LifecycleInv, Typed
<1>. QED
  BY <1>4, <1>5, <1>6 DEF LifecycleInv, GoodScan

\* A scan at rest has read nothing.
LEMMA NoScanRecord ==
    /\ Lifecycle!NoScan \in ScanRecord /\ Lifecycle!NoScan.pc = "idle"
       /\ Lifecycle!NoScan.todo = {}
    /\ DOMAIN Lifecycle!NoScan.seen = {}
<1>1. [i \in {} |-> ""] \in [{} -> Lifecycle!Labels]
  OBVIOUS
<1>2. [i \in {} |-> ""] \in UNION {[S -> Lifecycle!Labels] : S \in SUBSET Issues}
  BY <1>1
<1>. QED
  BY <1>2 DEF Lifecycle!NoScan, ScanRecord, AtWork

\* A scan begins.
LEMMA BeginScanKeeps ==
    ASSUME LifecycleInv, NEW s \in Scans, Lifecycle!BeginScan(s)
    PROVE  LifecycleInv'
<1>. DEFINE found == Lifecycle!Listed \ Rejected
            read == [i \in found |-> stage[i]]
            w == [Lifecycle!NoScan EXCEPT !.pc = "next", !.todo = found, !.seen = read]
<1>1. /\ UNCHANGED <<stage, open, comment, queue, worker, remembered, pulls, faults>>
      /\ scan' = [scan EXCEPT ![s] = [Lifecycle!NoScan EXCEPT !.pc = "next", !.todo = found,
                                                    !.seen = read]]
      /\ older' = [older EXCEPT ![s] = {}]
  BY DEF Lifecycle!BeginScan
<1>2. /\ DOMAIN scan = Scans /\ DOMAIN older = Scans /\ DOMAIN stage = Issues
      /\ open \subseteq Issues /\ \A u \in Scans : GoodScan(scan[u], stage, older[u])
  BY DEF LifecycleInv, Typed
<1>3. found \subseteq Issues /\ \A i \in found : stage[i] \in Lifecycle!Labels
  BY <1>2 DEF Lifecycle!Listed
<1>. HIDE DEF found
<1>4. DOMAIN read = found /\ \A i \in found : read[i] = stage[i]
  OBVIOUS
<1>. HIDE DEF read
<1>5. read \in UNION {[S -> Lifecycle!Labels] : S \in SUBSET Issues} /\ found \in SUBSET Issues
  <2>1. read \in [found -> Lifecycle!Labels]
    BY <1>3 DEF read
  <2>. QED
    BY <1>3, <2>1
<1>6. w \in ScanRecord /\ w.pc = "next" /\ w.seen = read /\ w.todo = found
  <2>1. Lifecycle!NoScan \in ScanRecord
    BY NoScanRecord
  <2>. QED
    BY <1>5, <2>1 DEF ScanRecord
<1>. HIDE DEF w
<1>7. GoodScan(w, stage, {})
  BY <1>3, <1>4, <1>6 DEF GoodScan, AtWork
<1>8. /\ \A u \in Scans : scan'[u] = IF u = s THEN w ELSE scan[u]
      /\ \A u \in Scans : older'[u] = IF u = s THEN {} ELSE older[u]
      /\ DOMAIN scan' = Scans /\ DOMAIN older' = Scans
  BY <1>1, <1>2 DEF w
<1>9. \A u \in Scans : GoodScan(scan'[u], stage, older'[u])
  BY <1>2, <1>7, <1>8
<1>10. Typed' /\ Lifecycle!ClosedByMergedWork'
  BY <1>1, <1>8 DEF LifecycleInv, Typed, Lifecycle!ClosedByMergedWork
<1>. QED
  BY <1>1, <1>9, <1>10 DEF LifecycleInv, GoodScan

\* A scan that leaves its issue.
LEMMA ScanLeaves ==
    ASSUME NEW label, NEW marked, NEW w, GoodScan(w, label, marked), NEW rest,
           rest \subseteq w.todo
    PROVE  /\ GoodScan(Lifecycle!NoScan, label, marked)
           /\ GoodScan([w EXCEPT !.pc = "next", !.issue = Lifecycle!None, !.plan = "none"],
              label, marked)
           /\ w.pc = "next" => GoodScan([w EXCEPT !.todo = rest], label, marked)
<1>1. w \in ScanRecord
  BY DEF GoodScan
<1>2. GoodScan(Lifecycle!NoScan, label, marked)
  BY NoScanRecord DEF GoodScan, AtWork
<1>3. GoodScan([w EXCEPT !.pc = "next", !.issue = Lifecycle!None, !.plan = "none"], label,
      marked)
  <2>. DEFINE u == [w EXCEPT !.pc = "next", !.issue = Lifecycle!None, !.plan = "none"]
  <2>1. u \in ScanRecord /\ u.pc = "next" /\ u.seen = w.seen /\ u.todo = w.todo
    BY <1>1 DEF ScanRecord
  <2>. HIDE DEF u
  <2>2. GoodScan(u, label, marked)
    BY <1>1, <2>1 DEF GoodScan, AtWork
  <2>. QED
    BY <2>2 DEF u
<1>4. ASSUME w.pc = "next" PROVE GoodScan([w EXCEPT !.todo = rest], label, marked)
  <2>. DEFINE u == [w EXCEPT !.todo = rest]
  <2>1. u \in ScanRecord /\ u.pc = w.pc /\ u.seen = w.seen /\ u.todo = rest
    BY <1>1 DEF ScanRecord
  <2>. HIDE DEF u
  <2>2. GoodScan(u, label, marked)
    BY <1>4, <2>1 DEF GoodScan, AtWork
  <2>. QED
    BY <2>2 DEF u
<1>. QED
  BY <1>2, <1>3, <1>4

\* A scan is at an issue, and goes on with it.
LEMMA ScanAt ==
    ASSUME NEW label, NEW marked, NEW w, GoodScan(w, label, marked), NEW place \in AtWork,
           NEW plan \in {"none", "complete"}
    PROVE  /\ w.pc \in AtWork => GoodScan([w EXCEPT !.pc = place], label, marked)
           /\ w.pc \in AtWork => GoodScan([w EXCEPT !.pc = place, !.plan = plan], label, marked)
           /\ \A i \in w.todo : w.seen[i] # "fixed" =>
                 GoodScan([w EXCEPT !.pc = place, !.issue = i, !.plan = plan, !.todo = @ \ {i}],
                          label, marked)
<1>1. w \in ScanRecord
  BY DEF GoodScan
<1>2. ASSUME w.pc \in AtWork PROVE GoodScan([w EXCEPT !.pc = place], label, marked)
  <2>. DEFINE u == [w EXCEPT !.pc = place]
  <2>1. u \in ScanRecord /\ u.pc = place /\ u.seen = w.seen /\ u.todo = w.todo
        /\ u.issue = w.issue
    BY <1>1 DEF ScanRecord
  <2>. HIDE DEF u
  <2>2. GoodScan(u, label, marked)
    BY <1>2, <2>1 DEF GoodScan
  <2>. QED
    BY <2>2 DEF u
<1>3. ASSUME w.pc \in AtWork
             PROVE GoodScan([w EXCEPT !.pc = place, !.plan = plan], label, marked)
  <2>. DEFINE u == [w EXCEPT !.pc = place, !.plan = plan]
  <2>1. u \in ScanRecord /\ u.pc = place /\ u.seen = w.seen /\ u.todo = w.todo
        /\ u.issue = w.issue
    BY <1>1 DEF ScanRecord
  <2>. HIDE DEF u
  <2>2. GoodScan(u, label, marked)
    BY <1>3, <2>1 DEF GoodScan
  <2>. QED
    BY <2>2 DEF u
<1>4. ASSUME NEW i \in w.todo, w.seen[i] # "fixed"
      PROVE  GoodScan([w EXCEPT !.pc = place, !.issue = i, !.plan = plan, !.todo = @ \ {i}],
                      label, marked)
  <2>. DEFINE u == [w EXCEPT !.pc = place, !.issue = i, !.plan = plan, !.todo = @ \ {i}]
  <2>1. /\ u \in ScanRecord /\ u.pc = place /\ u.seen = w.seen /\ u.todo = w.todo \ {i}
        /\ u.issue = i
    BY <1>1 DEF ScanRecord
  <2>. HIDE DEF u
  <2>2. GoodScan(u, label, marked)
    BY <1>4, <2>1 DEF GoodScan
  <2>. QED
    BY <2>2 DEF u
<1>. QED
  BY <1>2, <1>3, <1>4

\* What a scan writes is not that an issue is fixed.
LEMMA StageWritten ==
    ASSUME Typed, NEW i, NEW target, target # "fixed", Lifecycle!WriteStage(i, target)
    PROVE  /\ DOMAIN stage' = Issues
           /\ \A k \in Issues : stage'[k] = "fixed" => stage[k] = "fixed"
           /\ \A k \in Issues : stage'[k] # stage[k] => k = i
  BY DEF Typed, Lifecycle!WriteStage

\* A scan is done with its issue, whatever label it wrote.
LEMMA LeaveIssueKeeps ==
    ASSUME LifecycleInv, NEW s \in Scans, Lifecycle!LeaveIssue(s), DOMAIN stage' = Issues,
           \A i \in Issues : stage'[i] = "fixed" => stage[i] = "fixed",
           UNCHANGED <<older, worker, pulls, open, queue>>
    PROVE  LifecycleInv'
<1>. DEFINE w == IF scan[s].todo = {} THEN Lifecycle!NoScan
                 ELSE [scan[s] EXCEPT !.pc = "next", !.issue = Lifecycle!None, !.plan = "none"]
<1>1. DOMAIN scan = Scans /\ GoodScan(scan[s], stage, older[s])
      /\ queue' \in Seq(Lifecycle!Keys)
  BY DEF LifecycleInv, Typed
<1>2. scan' = [scan EXCEPT ![s] = w]
  BY <1>1 DEF Lifecycle!LeaveIssue
<1>3. GoodScan(w, stage, older[s])
  BY <1>1, ScanLeaves
<1>. HIDE DEF w
<1>. QED
  BY <1>1, <1>2, <1>3, ScanMovesOn

\* A scan goes on with its issue.
LEMMA AdvanceKeeps ==
    ASSUME LifecycleInv, NEW s \in Scans, scan[s].pc \in AtWork, NEW place \in AtWork,
           Lifecycle!AdvanceTo(s, place), DOMAIN stage' = Issues,
           \A i \in Issues : stage'[i] = "fixed" => stage[i] = "fixed",
           UNCHANGED <<older, worker, pulls, open>>, queue' \in Seq(Lifecycle!Keys)
    PROVE  LifecycleInv'
<1>. DEFINE w == [scan[s] EXCEPT !.pc = place]
<1>1. DOMAIN scan = Scans /\ GoodScan(scan[s], stage, older[s])
  BY DEF LifecycleInv, Typed
<1>2. scan' = [scan EXCEPT ![s] = w]
  BY <1>1 DEF Lifecycle!AdvanceTo
<1>3. GoodScan(w, stage, older[s])
  <2>1. "none" \in {"none", "complete"}
    OBVIOUS
  <2>. QED
    BY <1>1, <2>1, ScanAt
<1>. HIDE DEF w
<1>. QED
  BY <1>2, <1>3, ScanMovesOn

\* A scan takes an issue up.
LEMMA TakeUpKeeps ==
    ASSUME LifecycleInv, NEW s \in Scans, NEW i \in Issues, Lifecycle!TakeUp(s, i)
    PROVE  LifecycleInv'
<1>1. /\ UNCHANGED <<stage, open, comment, queue, worker, remembered, pulls, older>>
      /\ i \in scan[s].todo /\ scan[s].seen[i] # "fixed"
  BY DEF Lifecycle!TakeUp, Lifecycle!IsFixed
<1>2. /\ DOMAIN scan = Scans /\ GoodScan(scan[s], stage, older[s])
         /\ queue' \in Seq(Lifecycle!Keys)
      /\ DOMAIN stage' = Issues /\ \A k \in Issues : stage'[k] = "fixed" => stage[k] = "fixed"
  BY <1>1 DEF LifecycleInv, Typed
<1>3. PICK place \in AtWork,
      plan \in {"none", "complete"} : Lifecycle!AtIssue(s, i, place, plan)
  <2>1. "dispatch" \in AtWork /\ "plan" \in AtWork /\ "move" \in AtWork
    BY DEF AtWork
  <2>2. \/ Lifecycle!AtIssue(s, i, "dispatch", "complete")
           \/ Lifecycle!AtIssue(s, i, "plan", "none")
        \/ Lifecycle!AtIssue(s, i, "move", "none")
    BY DEF Lifecycle!TakeUp
  <2>. QED
    BY <2>1, <2>2
<1>. DEFINE w == [scan[s] EXCEPT !.pc = place, !.issue = i, !.plan = plan, !.todo = @ \ {i}]
<1>4. scan' = [scan EXCEPT ![s] = w]
  BY <1>2, <1>3 DEF Lifecycle!AtIssue
<1>5. GoodScan(w, stage, older[s])
  BY <1>1, <1>2, ScanAt
<1>. HIDE DEF w
<1>. QED
  BY <1>1, <1>2, <1>4, <1>5, ScanMovesOn

LEMMA MoveToPlanningKeeps ==
    ASSUME LifecycleInv, NEW s \in Scans, Lifecycle!MoveToPlanning(s)
    PROVE  LifecycleInv'
<1>1. /\ UNCHANGED <<open, comment, queue, worker, remembered, pulls, older>>
      /\ scan[s].pc = "move" /\ Lifecycle!AdvanceTo(s, "plan")
         /\ Lifecycle!WriteStage(scan[s].issue, "planning")
  BY DEF Lifecycle!MoveToPlanning
<1>2. "move" \in AtWork /\ "plan" \in AtWork
  BY DEF AtWork
<1>3. Typed /\ queue' \in Seq(Lifecycle!Keys)
  BY <1>1 DEF LifecycleInv, Typed
<1>4. DOMAIN stage' = Issues /\ \A k \in Issues : stage'[k] = "fixed" => stage[k] = "fixed"
  BY <1>1, <1>3, StageWritten
<1>. QED
  BY <1>1, <1>2, <1>3, <1>4, AdvanceKeeps

LEMMA PlanIssueKeeps ==
    ASSUME LifecycleInv, NEW s \in Scans, Lifecycle!PlanIssue(s)
    PROVE  LifecycleInv'
<1>1. /\ UNCHANGED <<stage, open, queue, worker, remembered, pulls, older>>
      /\ scan[s].pc = "plan"
  BY DEF Lifecycle!PlanIssue
<1>2. /\ DOMAIN scan = Scans /\ GoodScan(scan[s], stage, older[s])
         /\ queue' \in Seq(Lifecycle!Keys)
      /\ DOMAIN stage' = Issues /\ \A k \in Issues : stage'[k] = "fixed" => stage[k] = "fixed"
  BY <1>1 DEF LifecycleInv, Typed
<1>3. CASE Lifecycle!LeaveIssue(s)
  BY <1>1, <1>2, <1>3, LeaveIssueKeeps
<1>4. CASE scan' = [scan EXCEPT ![s].pc = "dispatch", ![s].plan = "complete"]
  <2>. DEFINE w == [scan[s] EXCEPT !.pc = "dispatch", !.plan = "complete"]
  <2>1. scan' = [scan EXCEPT ![s] = w]
    BY <1>2, <1>4
  <2>2. "dispatch" \in AtWork /\ "plan" \in AtWork
    BY DEF AtWork
  <2>3. GoodScan(w, stage, older[s])
    BY <1>1, <1>2, <2>2, ScanAt
  <2>. HIDE DEF w
  <2>. QED
    BY <1>1, <1>2, <2>1, <2>3, ScanMovesOn
<1>. QED
  BY <1>3, <1>4 DEF Lifecycle!PlanIssue

LEMMA DispatchKeeps ==
    ASSUME LifecycleInv, NEW s \in Scans, Lifecycle!Dispatch(s)
    PROVE  LifecycleInv'
<1>1. /\ UNCHANGED <<stage, open, comment, worker, remembered, pulls, older>>
      /\ scan[s].pc = "dispatch"
  BY DEF Lifecycle!Dispatch
<1>2. "dispatch" \in AtWork /\ "ready" \in AtWork /\ "fallback" \in AtWork
  BY DEF AtWork
<1>3. /\ GoodScan(scan[s], stage, older[s]) /\ queue \in Seq(Lifecycle!Keys)
      /\ DOMAIN stage' = Issues /\ \A k \in Issues : stage'[k] = "fixed" => stage[k] = "fixed"
  BY <1>1 DEF LifecycleInv, Typed
<1>4. CASE queue' = Append(queue, [issue |-> scan[s].issue,
           labels |-> scan[s].seen[scan[s].issue]])
           /\ Lifecycle!AdvanceTo(s, "ready")
  <2>1. scan[s].issue \in Issues /\ scan[s].seen[scan[s].issue] \in Lifecycle!Labels
    <3>1. scan[s].issue \in DOMAIN scan[s].seen /\ scan[s] \in ScanRecord
          /\ DOMAIN scan[s].seen \subseteq Issues
      BY <1>1, <1>2, <1>3 DEF GoodScan
    <3>2. \A i \in DOMAIN scan[s].seen : scan[s].seen[i] \in Lifecycle!Labels
      BY <3>1 DEF ScanRecord
    <3>. QED
      BY <3>1, <3>2
  <2>. DEFINE key == [issue |-> scan[s].issue, labels |-> scan[s].seen[scan[s].issue]]
  <2>2. key \in Lifecycle!Keys
    BY <2>1 DEF Lifecycle!Keys
  <2>. HIDE DEF key
  <2>3. queue' \in Seq(Lifecycle!Keys)
    BY <1>3, <1>4, <2>2 DEF key
  <2>. QED
    BY <1>1, <1>2, <1>3, <1>4, <2>3, AdvanceKeeps
<1>5. CASE UNCHANGED queue /\ Lifecycle!AdvanceTo(s, "fallback")
  BY <1>1, <1>2, <1>3, <1>5, AdvanceKeeps
<1>. QED
  BY <1>4, <1>5 DEF Lifecycle!Dispatch

LEMMA LabelDispatchedKeeps ==
    ASSUME LifecycleInv, NEW s \in Scans, Lifecycle!LabelDispatched(s)
    PROVE  LifecycleInv'
<1>1. PICK target : target # "fixed" /\ Lifecycle!WriteStage(scan[s].issue, target)
  <2>1. "ready" # "fixed" /\ Lifecycle!Fallback(scan[s].seen[scan[s].issue]) # "fixed"
    BY DEF Lifecycle!Fallback
  <2>. QED
    BY <2>1 DEF Lifecycle!LabelDispatched
<1>2. /\ UNCHANGED <<open, comment, queue, worker, remembered, pulls, older>>
      /\ Lifecycle!LeaveIssue(s)
  BY DEF Lifecycle!LabelDispatched
<1>3. Typed
  BY DEF LifecycleInv
<1>4. DOMAIN stage' = Issues /\ \A k \in Issues : stage'[k] = "fixed" => stage[k] = "fixed"
  BY <1>1, <1>3, StageWritten
<1>. QED
  BY <1>2, <1>4, LeaveIssueKeeps

\* An issue is closed for merged work of its own, or of one whose number begins with its.
LEMMA ProcessFixedIssueKeeps ==
    ASSUME LifecycleInv, NEW s \in Scans, NEW i \in Issues, Lifecycle!ProcessFixedIssue(s, i)
    PROVE  LifecycleInv'
<1>. DEFINE rest == scan[s].todo \ {i}
            w == IF rest = {} THEN Lifecycle!NoScan ELSE [scan[s] EXCEPT !.todo = rest]
<1>1. /\ UNCHANGED <<stage, comment, queue, worker, remembered, pulls, older>>
      /\ scan[s].pc = "next"
      /\ scan' = [scan EXCEPT ![s] = IF rest = {} THEN Lifecycle!NoScan ELSE [@ EXCEPT !.todo = rest]]
  BY DEF Lifecycle!ProcessFixedIssue
<1>2. /\ DOMAIN scan = Scans /\ \A u \in Scans : GoodScan(scan[u], stage, older[u])
  BY DEF LifecycleInv, Typed
<1>3. GoodScan(w, stage, older[s])
  <2>1. rest \subseteq scan[s].todo
    OBVIOUS
  <2>. HIDE DEF rest
  <2>. QED
    BY <1>1, <1>2, <2>1, ScanLeaves
<1>4. DOMAIN scan' = Scans /\ \A u \in Scans : scan'[u] = IF u = s THEN w ELSE scan[u]
  BY <1>1, <1>2
<1>. HIDE DEF w
<1>5. \A u \in Scans : GoodScan(scan'[u], stage', older'[u])
  BY <1>1, <1>2, <1>3, <1>4 DEF GoodScan
<1>6. open' \subseteq open /\ (open' # open => open' = open \ {i}
      /\ Lifecycle!MergedFor(i) # {})
  BY DEF Lifecycle!ProcessFixedIssue
<1>7. Lifecycle!MergedFor(i) # {} =>
         \E n \in DOMAIN pulls : pulls[n].state = "merged"
         /\ Lifecycle!StartsWith(pulls[n].issue, i)
  BY DEF Lifecycle!MergedFor, Lifecycle!StartsWith
<1>8. Lifecycle!ClosedByMergedWork'
  <2>. SUFFICES ASSUME NEW k \in Issues \ open'
                PROVE  \E n \in DOMAIN pulls : /\ pulls[n].state = "merged"
                                               /\ Lifecycle!StartsWith(pulls[n].issue, k)
    BY <1>1 DEF Lifecycle!ClosedByMergedWork, Lifecycle!StartsWith
  <2>1. CASE k \notin open
    BY <2>1 DEF LifecycleInv, Lifecycle!ClosedByMergedWork
  <2>2. CASE k \in open
    BY <1>6, <1>7, <2>2
  <2>. QED
    BY <2>1, <2>2
<1>9. Typed'
  BY <1>1, <1>4, <1>6 DEF LifecycleInv, Typed
<1>. QED
  BY <1>5, <1>8, <1>9 DEF LifecycleInv, GoodScan

\* A step of a worker, of people or of time that writes no label.
LEMMA OthersKeep ==
    ASSUME LifecycleInv, UNCHANGED <<stage, open, scan, older>>, queue' \in Seq(Lifecycle!Keys),
           pulls' \in Seq(PullRecord), worker' \in [Workers -> WorkerRecord],
           \A w \in Workers : worker'[w].pc # "idle" => worker'[w].issue \in Issues,
           \A n \in DOMAIN pulls : pulls[n].state = "merged" =>
               n \in DOMAIN pulls' /\ pulls'[n].state = "merged"
               /\ pulls'[n].issue = pulls[n].issue
    PROVE  LifecycleInv'
<1>1. Lifecycle!ClosedByMergedWork'
  BY DEF LifecycleInv, Lifecycle!ClosedByMergedWork, Lifecycle!StartsWith
<1>. QED
  BY <1>1 DEF LifecycleInv, Typed, GoodScan

LEMMA StartRunKeeps ==
    ASSUME LifecycleInv, NEW w \in Workers, Lifecycle!StartRun(w)
    PROVE  LifecycleInv'
<1>1. /\ queue # <<>> /\ queue' = Tail(queue)
      /\ UNCHANGED <<stage, open, comment, scan, remembered, pulls, older, faults>>
  BY DEF Lifecycle!StartRun
<1>2. /\ queue \in Seq(Lifecycle!Keys) /\ pulls \in Seq(PullRecord)
      /\ worker \in [Workers -> WorkerRecord]
      /\ \A u \in Workers : worker[u].pc # "idle" => worker[u].issue \in Issues
  BY DEF LifecycleInv, Typed
<1>3. Head(queue) \in Lifecycle!Keys /\ queue' \in Seq(Lifecycle!Keys)
  BY <1>1, <1>2
<1>. DEFINE busy == [pc |-> "work", issue |-> Head(queue).issue, labels |-> Head(queue).labels]
<1>4. busy \in WorkerRecord /\ busy.issue \in Issues
  BY <1>3 DEF Lifecycle!Keys, WorkerRecord
<1>5. worker' = worker \/ worker' = [worker EXCEPT ![w] = busy]
  BY DEF Lifecycle!StartRun
<1>. HIDE DEF busy
<1>6. /\ worker' \in [Workers -> WorkerRecord]
      /\ \A u \in Workers : worker'[u].pc # "idle" => worker'[u].issue \in Issues
  BY <1>2, <1>4, <1>5
<1>. QED
  BY <1>1, <1>2, <1>3, <1>6, OthersKeep

\* A worker goes on, or ends.
LEMMA WorkerMoves ==
    ASSUME Typed, NEW w \in Workers, NEW place \in {"mark", "end"}, worker[w].pc # "idle",
           worker' = [worker EXCEPT ![w].pc = place]
    PROVE  /\ worker' \in [Workers -> WorkerRecord]
           /\ \A u \in Workers : worker'[u].pc # "idle" => worker'[u].issue \in Issues
<1>. DEFINE next == [worker[w] EXCEPT !.pc = place]
<1>1. /\ worker \in [Workers -> WorkerRecord] /\ worker[w].issue \in Issues
      /\ \A u \in Workers : worker[u].pc # "idle" => worker[u].issue \in Issues
  BY DEF Typed
<1>2. next \in WorkerRecord /\ next.issue = worker[w].issue
  BY <1>1 DEF WorkerRecord
<1>3. worker' = [worker EXCEPT ![w] = next]
  BY <1>1
<1>. HIDE DEF next
<1>. QED
  BY <1>1, <1>2, <1>3

\* Work is published: what is merged stays merged.
LEMMA DeliverKeeps ==
    ASSUME LifecycleInv, NEW w \in Workers, Lifecycle!Deliver(w)
    PROVE  LifecycleInv'
<1>1. /\ UNCHANGED <<stage, open, comment, scan, queue, remembered, older>>
      /\ worker[w].pc = "work"
  BY DEF Lifecycle!Deliver
<1>2. /\ Typed /\ queue \in Seq(Lifecycle!Keys) /\ pulls \in Seq(PullRecord)
         /\ worker[w].issue \in Issues
  BY <1>1 DEF LifecycleInv, Typed
<1>3. PICK place \in {"mark", "end"} : worker' = [worker EXCEPT ![w].pc = place]
  BY DEF Lifecycle!Deliver
<1>4. /\ worker' \in [Workers -> WorkerRecord]
      /\ \A u \in Workers : worker'[u].pc # "idle" => worker'[u].issue \in Issues
  BY <1>1, <1>2, <1>3, WorkerMoves
<1>. DEFINE i == worker[w].issue
            shut == Lifecycle!ClosePulls(Lifecycle!OnBranch(i))
            pull == [issue |-> i, state |-> "open", own |-> Lifecycle!OnBranch(i) = {}]
<1>5. shut \in Seq(PullRecord) /\ DOMAIN shut = DOMAIN pulls
      /\ \A n \in DOMAIN pulls : /\ shut[n].issue = pulls[n].issue
                                 /\ pulls[n].state = "merged" => shut[n].state = "merged"
  <2>. DEFINE part(n) == [pulls[n] EXCEPT !.state = IF @ = "open" THEN "closed" ELSE @,
                                          !.own = FALSE]
  <2>1. \A n \in DOMAIN pulls : pulls[n] \in PullRecord
    BY <1>2
  <2>2. \A n \in DOMAIN pulls : /\ part(n) \in PullRecord /\ part(n).issue = pulls[n].issue
                                /\ pulls[n].state = "merged" => part(n).state = "merged"
    BY <2>1 DEF PullRecord
  <2>3. shut = [n \in DOMAIN pulls |-> IF n \in Lifecycle!OnBranch(i) THEN part(n) ELSE pulls[n]]
    BY DEF Lifecycle!ClosePulls
  <2>. HIDE DEF part, shut
  <2>4. \A n \in DOMAIN pulls : shut[n] \in PullRecord
    BY <2>1, <2>2, <2>3
  <2>5. DOMAIN pulls = 1 .. Len(pulls) /\ Len(pulls) \in Nat
    BY <1>2
  <2>6. shut \in Seq(PullRecord)
    BY <2>3, <2>4, <2>5
  <2>. QED
    BY <2>2, <2>3, <2>6
<1>6. pull \in PullRecord
  <2>1. (Lifecycle!OnBranch(i) = {}) \in BOOLEAN
    OBVIOUS
  <2>. QED
    BY <1>2, <2>1 DEF PullRecord
<1>7. pulls' = Append(shut, pull) \/ pulls' = pulls
  BY DEF Lifecycle!Deliver
<1>. HIDE DEF shut, pull, i
<1>8. pulls' \in Seq(PullRecord)
      /\ \A n \in DOMAIN pulls : pulls[n].state = "merged" =>
            n \in DOMAIN pulls' /\ pulls'[n].state = "merged"
            /\ pulls'[n].issue = pulls[n].issue
  <2>1. CASE pulls' = Append(shut, pull)
    <3>1. pulls' \in Seq(PullRecord) /\ Len(pulls') = Len(shut) + 1
          /\ DOMAIN shut = 1 .. Len(shut)
          /\ Len(shut) \in Nat /\ DOMAIN pulls' = 1 .. Len(pulls')
      BY <1>5, <1>6, <2>1
    <3>2. \A n \in DOMAIN shut : n \in DOMAIN pulls' /\ pulls'[n] = shut[n]
      BY <1>5, <2>1, <3>1
    <3>. QED
      BY <1>5, <3>1, <3>2
  <2>2. CASE pulls' = pulls
    BY <1>2, <2>2
  <2>. QED
    BY <1>7, <2>1, <2>2
<1>. QED
  BY <1>1, <1>2, <1>4, <1>8, OthersKeep

\* An issue is marked as fixed: every scan that has read it is older.
LEMMA MarkIssueAsFixedKeeps ==
    ASSUME LifecycleInv, NEW w \in Workers, Lifecycle!MarkIssueAsFixed(w)
    PROVE  LifecycleInv'
<1>. DEFINE i == worker[w].issue
<1>1. /\ UNCHANGED <<open, comment, scan, queue, remembered, pulls>>
      /\ worker[w].pc = "mark" /\ worker' = [worker EXCEPT ![w].pc = "end"]
      /\ older' = [s \in Scans |-> older[s] \cup {i}]
      /\ Lifecycle!WriteStage(i, "fixed")
  BY DEF Lifecycle!MarkIssueAsFixed
<1>2. Typed /\ \A s \in Scans : GoodScan(scan[s], stage, older[s])
  BY DEF LifecycleInv
<1>3. /\ worker' \in [Workers -> WorkerRecord]
      /\ \A u \in Workers : worker'[u].pc # "idle" => worker'[u].issue \in Issues
  BY <1>1, <1>2, WorkerMoves
<1>4. DOMAIN stage' = Issues /\ \A k \in Issues : stage'[k] = "fixed" => stage[k] = "fixed"
      \/ k = i
  BY <1>1, <1>2 DEF Lifecycle!WriteStage, Typed
<1>. HIDE DEF i
<1>5. \A s \in Scans : GoodScan(scan[s], stage', older'[s])
  <2>. SUFFICES ASSUME NEW s \in Scans PROVE GoodScan(scan[s], stage', older'[s])
    OBVIOUS
  <2>1. older[s] \subseteq older'[s] /\ i \in older'[s]
    BY <1>1
  <2>2. \A k \in Issues : stage'[k] = "fixed" => stage[k] = "fixed" \/ k \in older'[s]
    BY <1>4, <2>1
  <2>. QED
    BY <1>2, <2>1, <2>2, LabelsMove
<1>6. Typed'
  BY <1>1, <1>2, <1>3, <1>4 DEF Typed
<1>7. Lifecycle!ClosedByMergedWork'
  BY <1>1 DEF LifecycleInv, Lifecycle!ClosedByMergedWork, Lifecycle!StartsWith
<1>. QED
  BY <1>1, <1>5, <1>6, <1>7 DEF LifecycleInv, GoodScan

LEMMA EndRunKeeps ==
    ASSUME LifecycleInv, NEW w \in Workers, Lifecycle!EndRun(w)
    PROVE  LifecycleInv'
<1>1. /\ UNCHANGED <<stage, open, comment, scan, queue, pulls, older, faults>>
      /\ worker' = [worker EXCEPT ![w] = Lifecycle!NoRun]
  BY DEF Lifecycle!EndRun
<1>2. /\ queue \in Seq(Lifecycle!Keys) /\ pulls \in Seq(PullRecord)
      /\ worker \in [Workers -> WorkerRecord]
      /\ \A u \in Workers : worker[u].pc # "idle" => worker[u].issue \in Issues
  BY DEF LifecycleInv, Typed
<1>3. Lifecycle!NoRun \in WorkerRecord /\ Lifecycle!NoRun.pc = "idle"
  BY DEF Lifecycle!NoRun, WorkerRecord
<1>4. /\ worker' \in [Workers -> WorkerRecord]
      /\ \A u \in Workers : worker'[u].pc # "idle" => worker'[u].issue \in Issues
  BY <1>1, <1>2, <1>3
<1>. QED
  BY <1>1, <1>2, <1>4, OthersKeep

LEMMA MergeKeeps ==
    ASSUME LifecycleInv, NEW n \in DOMAIN pulls, Lifecycle!Merge(n)
    PROVE  LifecycleInv'
<1>1. /\ UNCHANGED <<stage, open, comment, scan, queue, worker, remembered, older, faults>>
      /\ pulls' = [pulls EXCEPT ![n].state = "merged"]
  BY DEF Lifecycle!Merge
<1>2. /\ queue \in Seq(Lifecycle!Keys) /\ pulls \in Seq(PullRecord)
      /\ worker \in [Workers -> WorkerRecord]
      /\ \A u \in Workers : worker[u].pc # "idle" => worker[u].issue \in Issues
  BY DEF LifecycleInv, Typed
<1>. DEFINE pull == [pulls[n] EXCEPT !.state = "merged"]
<1>3. pulls[n] \in PullRecord
  BY <1>2
<1>4. pull \in PullRecord /\ pull.state = "merged" /\ pull.issue = pulls[n].issue
  BY <1>3 DEF PullRecord
<1>5. pulls' = [pulls EXCEPT ![n] = pull]
  BY <1>1
<1>. HIDE DEF pull
<1>6. pulls' \in Seq(PullRecord) /\ DOMAIN pulls' = DOMAIN pulls
      /\ \A k \in DOMAIN pulls : pulls'[k] = IF k = n THEN pull ELSE pulls[k]
  BY <1>2, <1>4, <1>5
<1>7. \A k \in DOMAIN pulls : pulls[k].state = "merged" =>
         k \in DOMAIN pulls' /\ pulls'[k].state = "merged" /\ pulls'[k].issue = pulls[k].issue
  BY <1>4, <1>6
<1>. QED
  BY <1>1, <1>2, <1>6, <1>7, OthersKeep

\* Nothing has been read, queued or published yet.
LEMMA LifecycleInit == Lifecycle!Init => LifecycleInv
<1>. SUFFICES ASSUME Lifecycle!Init PROVE LifecycleInv
  OBVIOUS
<1>1. Typed
  <2>1. Lifecycle!NoRun \in WorkerRecord /\ Lifecycle!NoRun.pc = "idle"
    BY DEF Lifecycle!NoRun, WorkerRecord
  <2>2. worker \in [Workers -> WorkerRecord] /\ \A w \in Workers : worker[w] = Lifecycle!NoRun
    BY <2>1 DEF Lifecycle!Init
  <2>3. queue = <<>> /\ pulls = <<>>
    BY DEF Lifecycle!Init
  <2>4. queue \in Seq(Lifecycle!Keys) /\ pulls \in Seq(PullRecord)
    BY <2>3
  <2>. QED
    BY <2>1, <2>2, <2>4 DEF Lifecycle!Init, Typed
<1>2. \A s \in Scans : GoodScan(scan[s], stage, older[s])
  BY NoScanRecord DEF Lifecycle!Init, GoodScan, AtWork
<1>3. Lifecycle!ClosedByMergedWork
  BY DEF Lifecycle!Init, Lifecycle!ClosedByMergedWork
<1>. QED
  BY <1>1, <1>2, <1>3 DEF LifecycleInv

\* Every step keeps what is known of the issues.
LEMMA LifecycleStep == LifecycleInv /\ [Lifecycle!Next]_Lifecycle!vars => LifecycleInv'
<1>. SUFFICES ASSUME LifecycleInv, [Lifecycle!Next]_Lifecycle!vars PROVE LifecycleInv'
  OBVIOUS
<1>1. ASSUME UNCHANGED <<stage, open, scan, queue, worker, pulls, older>> PROVE LifecycleInv'
  BY <1>1, OthersKeep DEF LifecycleInv, Typed
<1>2. ASSUME NEW key \in Lifecycle!Keys, Lifecycle!KeyExpires(key) PROVE LifecycleInv'
  BY <1>1, <1>2 DEF Lifecycle!KeyExpires
<1>3. CASE UNCHANGED Lifecycle!vars
  BY <1>1, <1>3 DEF Lifecycle!vars
<1>4. ASSUME NEW s \in Scans,
             Lifecycle!BeginScan(s) \/ Lifecycle!MoveToPlanning(s) \/ Lifecycle!PlanIssue(s)
             \/ Lifecycle!Dispatch(s) \/ Lifecycle!LabelDispatched(s)
      PROVE  LifecycleInv'
  BY <1>4, BeginScanKeeps, MoveToPlanningKeeps, PlanIssueKeeps, DispatchKeeps,
     LabelDispatchedKeeps
<1>5. ASSUME NEW s \in Scans, NEW i \in Issues, Lifecycle!TakeUp(s, i)
             \/ Lifecycle!ProcessFixedIssue(s, i)
      PROVE  LifecycleInv'
  BY <1>5, TakeUpKeeps, ProcessFixedIssueKeeps
<1>6. ASSUME NEW w \in Workers, Lifecycle!StartRun(w) \/ Lifecycle!Deliver(w)
             \/ Lifecycle!MarkIssueAsFixed(w) \/ Lifecycle!EndRun(w)
      PROVE  LifecycleInv'
  BY <1>6, StartRunKeeps, DeliverKeeps, MarkIssueAsFixedKeeps, EndRunKeeps
<1>7. ASSUME NEW n \in DOMAIN pulls, Lifecycle!Merge(n) PROVE LifecycleInv'
  BY <1>7, MergeKeeps
<1>. QED
  BY <1>2, <1>3, <1>4, <1>5, <1>6, <1>7 DEF Lifecycle!Next

\* A step that takes the label fixed from an issue is one of a scan that is older.
LEMMA LabelLost == LifecycleInv /\ [Lifecycle!Next]_Lifecycle!vars
    => [Lifecycle!FixedIsLostToOlderScans]_Lifecycle!vars
<1>. SUFFICES ASSUME LifecycleInv, [Lifecycle!Next]_Lifecycle!vars, NEW i \in Issues,
                     stage[i] = "fixed", stage'[i] # "fixed"
              PROVE  \E s \in Scans : scan[s].issue = i /\ i \in older[s]
  BY DEF Lifecycle!FixedIsLostToOlderScans
<1>1. Typed /\ \A s \in Scans : GoodScan(scan[s], stage, older[s])
  BY DEF LifecycleInv
<1>2. ASSUME NEW s \in Scans, scan[s].pc \in AtWork, scan[s].issue = i
      PROVE  scan[s].issue = i /\ i \in older[s]
  BY <1>1, <1>2 DEF GoodScan
<1>3. ASSUME NEW s \in Scans, Lifecycle!MoveToPlanning(s)
      PROVE  scan[s].issue = i /\ i \in older[s]
  <2>1. scan[s].pc \in AtWork /\ Lifecycle!WriteStage(scan[s].issue, "planning")
    BY <1>3 DEF Lifecycle!MoveToPlanning, AtWork
  <2>2. scan[s].issue = i
    BY <1>1, <2>1, StageWritten
  <2>. QED
    BY <1>2, <2>1, <2>2
<1>4. ASSUME NEW s \in Scans, Lifecycle!LabelDispatched(s)
      PROVE  scan[s].issue = i /\ i \in older[s]
  <2>1. PICK target : target # "fixed" /\ Lifecycle!WriteStage(scan[s].issue, target)
    <3>1. "ready" # "fixed" /\ Lifecycle!Fallback(scan[s].seen[scan[s].issue]) # "fixed"
      BY DEF Lifecycle!Fallback
    <3>. QED
      BY <1>4, <3>1 DEF Lifecycle!LabelDispatched
  <2>2. scan[s].pc \in AtWork
    BY <1>4 DEF Lifecycle!LabelDispatched, AtWork
  <2>3. scan[s].issue = i
    BY <1>1, <2>1, StageWritten
  <2>. QED
    BY <1>2, <2>2, <2>3
<1>5. ASSUME NEW w \in Workers, Lifecycle!MarkIssueAsFixed(w) PROVE FALSE
  <2>1. Lifecycle!WriteStage(worker[w].issue, "fixed")
    BY <1>5 DEF Lifecycle!MarkIssueAsFixed
  <2>. QED
    BY <1>1, <2>1 DEF Lifecycle!WriteStage, Typed
<1>6. CASE UNCHANGED stage
  BY <1>6
<1>7. \/ UNCHANGED stage
      \/ \E s \in Scans : Lifecycle!MoveToPlanning(s) \/ Lifecycle!LabelDispatched(s)
      \/ \E w \in Workers : Lifecycle!MarkIssueAsFixed(w)
  BY DEF Lifecycle!Next, Lifecycle!vars, Lifecycle!BeginScan, Lifecycle!TakeUp,
     Lifecycle!PlanIssue, Lifecycle!Dispatch, Lifecycle!ProcessFixedIssue,
     Lifecycle!StartRun, Lifecycle!Deliver,
     Lifecycle!EndRun, Lifecycle!KeyExpires, Lifecycle!Merge
<1>. QED
  BY <1>3, <1>4, <1>5, <1>6, <1>7

-----------------------------------------------------------------------------
(* The composition *)

\* RateLimiter.is_allowed, in memory and in Redis: whatever process sets the life of the
\* counter late, no span of a window's length admits more than twice the limit.
THEOREM AlwaysAtMostTwice == Spec => []AtMostTwiceTheLimit
<1>1. Init => LimiterInv
  BY LimiterInit, GuardsAssumption DEF Init
<1>2. LimiterInv /\ [Next]_vars => LimiterInv'
  <2>1. [Next]_vars => [Limiter!Next]_Limiter!vars
    BY DEF Next, vars, limiterVars, Limiter!vars
  <2>. QED
    BY <2>1, LimiterStep, GuardsAssumption
<1>3. LimiterInv => AtMostTwiceTheLimit
  BY LimiterImplied, GuardsAssumption DEF AtMostTwiceTheLimit
<1>. QED
  BY <1>1, <1>2, <1>3, PTL DEF Spec

\* issue_pipeline_dispatcher.py beside merges and webhooks: whatever scans and runs overlap,
\* an issue is closed only on account of merged work for an issue whose number begins with
\* its own, and one labelled fixed loses the label only to a scan that read it before.
THEOREM LabelsAlwaysFollowWork == Spec => LabelsFollowWork
<1>1. Init => LifecycleInv
  BY LifecycleInit DEF Init
<1>2. [Next]_vars => [Lifecycle!Next]_Lifecycle!vars
  BY DEF Next, vars, lifecycleVars, Lifecycle!vars
<1>3. LifecycleInv /\ [Next]_vars => LifecycleInv'
  BY <1>2, LifecycleStep
<1>4. LifecycleInv => Lifecycle!ClosedByMergedWork
  BY DEF LifecycleInv
<1>5. LifecycleInv /\ [Next]_vars => [Lifecycle!FixedIsLostToOlderScans]_Lifecycle!vars
  BY <1>2, LabelLost
<1>6. Spec => []Lifecycle!ClosedByMergedWork /\ [][Lifecycle!FixedIsLostToOlderScans]_Lifecycle!vars
  BY <1>1, <1>3, <1>4, <1>5, PTL DEF Spec
<1>. QED
  BY <1>6 DEF LabelsFollowWork, Lifecycle!LabelsFollowWork
=============================================================================
