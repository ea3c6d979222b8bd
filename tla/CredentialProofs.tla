---------------------------- MODULE CredentialProofs ----------------------------
(***************************************************************************)
(* Shared OAuth credentials, for any number of processes, tokens and       *)
(* mishaps: they are refreshed by one process at a time, once, and not     *)
(* lost.                                                                   *)
(***************************************************************************)
EXTENDS QwenOAuth, TLAPS

-----------------------------------------------------------------------------
(* The invariant *)

Kinds == {"reverted", "broken", "lost", "unsaved", "crashed"}

Wrappers == [pc : {"idle", "built", "use", "wait", "cooldown", "locked", "last try",
                   "no lock", "post", "save", "persist"},
             key : 0 .. MaxTokens, token : 0 .. MaxTokens, holds : BOOLEAN]

\* A token is handed on with its key, both issued.
Issued(p) == /\ proc[p].key \in 1 .. newest
             /\ proc[p].token \in 1 .. newest

TypeOK ==
    /\ newest \in Tokens
    /\ issuedTo \in [Tokens -> 0 .. MaxTokens]
    /\ lapsed \subseteq Tokens /\ locks \subseteq Tokens
    /\ secret \in 1 .. newest
    /\ stored \in [Tokens -> 0 .. newest]
    /\ proc \in [Processes -> Wrappers]
    /\ refused \subseteq Tokens \X Tokens
    /\ blame \subseteq Kinds
    /\ \A p \in Processes : proc[p] = NoWrapper \/ Issued(p)

Holders == {"locked", "post", "save", "persist"}
Lockless == {"last try", "no lock"}

\* While no lock was broken, who refreshes holds the lock of its key, alone.
LockedByHolder == \A p \in Processes :
    /\ proc[p].holds <=> proc[p].pc \in Holders
    /\ proc[p].pc \notin Lockless
    /\ proc[p].holds => proc[p].key \in locks

HoldersDiffer == \A p, q \in Processes :
    proc[p].holds /\ proc[q].holds /\ proc[p].key = proc[q].key => p = q

LockInv == "broken" \notin blame => LockedByHolder /\ HoldersDiffer

\* The files of the keys and the numbers of the tokens.
FilesAreLater == \A k \in Tokens : stored[k] # 0 => stored[k] > k
TokensAreLater == \A p \in Processes : proc[p].token >= proc[p].key
OnlyIssued == \A g \in Tokens : issuedTo[g] # 0 => g <= newest
RefusedAreSpent == \A r \in refused : r[2] < newest

\* A token that was issued and is not yet in both of its places is the newest, and
\* nobody else has it who could refresh it.
OnItsWay(p) == proc[p].pc \in {"save", "persist"}

SavedIsNewest == \A p \in Processes : OnItsWay(p) =>
    proc[p].token = newest /\ newest > proc[p].key /\ secret # newest

Unseen == \A p \in Processes : OnItsWay(p) =>
    /\ \A q \in Processes \ {p} : proc[q].token = newest =>
          At(p, "persist") /\ proc[q].key = proc[p].key
    /\ \A k \in Tokens : stored[k] = newest =>
          At(p, "persist") /\ k = proc[p].key

\* Who posts a token has just read it from the file of its key, if there is one.
PostsStored == \A p \in Processes : At(p, "post") =>
    stored[proc[p].key] \in {0, proc[p].token}

\* The refusal of a token that another key spent removes the file of its key.
RemovedAbove(k, t) == \E q \in refused : q[1] = k /\ q[2] > t /\ issuedTo[q[2] + 1] # q[1]

\* A token that a key has spent is behind that key's file, or its successor is
\* about to be saved, or the file was removed.
SpentIsBehind == \A k, t \in Tokens : t + 1 \in Tokens /\ issuedTo[t + 1] = k =>
    \/ \E p \in Processes : At(p, "save") /\ proc[p].key = k
    \/ stored[k] > t
    \/ RemovedAbove(k, t)

Reachable == \/ Reloaded(secret, secret) = newest
             \/ \E p \in Processes : OnItsWay(p)

Explained == \A r \in refused : issuedTo[r[2] + 1] # r[1] \/ RemovedAbove(r[1], r[2])

Calm == /\ FilesAreLater /\ TokensAreLater /\ OnlyIssued /\ RefusedAreSpent
        /\ SavedIsNewest /\ Unseen /\ PostsStored /\ SpentIsBehind
        /\ Reachable /\ Explained

CredentialInv == TypeOK /\ LockInv /\ (blame = {} => Calm)

-----------------------------------------------------------------------------
(* Types *)

\* What a step makes of a process.
Becomes(p, wrapper) ==
    /\ proc' = [proc EXCEPT ![p] = wrapper]
    /\ wrapper \in Wrappers
    /\ wrapper = NoWrapper \/ (wrapper.key \in 1 .. newest' /\ wrapper.token \in 1 .. newest')

ProcTyped == /\ proc \in [Processes -> Wrappers]
             /\ \A p \in Processes : proc[p] = NoWrapper \/ Issued(p)

\* A step of one process keeps the others typed.
LEMMA ProcTypedStep ==
    ASSUME TokenAssumption, TypeOK, newest' \in newest .. MaxTokens,
           NEW p \in Processes, NEW wrapper, Becomes(p, wrapper)
    PROVE  ProcTyped'
<1>1. proc' \in [Processes -> Wrappers]
  BY DEF TypeOK, Becomes
<1>2. newest \in Nat /\ newest' \in Nat /\ newest <= newest'
  BY DEF TypeOK, Tokens, TokenAssumption
<1>3. ASSUME NEW q \in Processes PROVE proc'[q] = NoWrapper \/ Issued(q)'
  <2>1. CASE q = p
    BY <2>1 DEF TypeOK, Becomes, Issued
  <2>2. CASE q # p
    <3>1. proc'[q] = proc[q]
      BY <2>2 DEF TypeOK, Becomes
    <3>2. proc[q] = NoWrapper \/ Issued(q)
      BY DEF TypeOK
    <3>3. QED
      BY <1>2, <3>1, <3>2 DEF Issued
  <2>3. QED
    BY <2>1, <2>2
<1>4. QED
  BY <1>1, <1>3 DEF ProcTyped

\* What a process that has a wrapper holds.
LEMMA HasWrapper ==
    ASSUME TokenAssumption, TypeOK, NEW p \in Processes, proc[p].pc # "idle"
    PROVE  /\ proc[p] \in Wrappers
           /\ proc[p].key \in 1 .. newest /\ proc[p].token \in 1 .. newest
           /\ proc[p].key \in Tokens /\ proc[p].token \in Tokens
           /\ newest \in Nat
BY DEF TypeOK, NoWrapper, Issued, Tokens, TokenAssumption

\* A number of an issued token is one of a token.
LEMMA IssuedIsToken ==
    ASSUME TokenAssumption, TypeOK, NEW token \in 1 .. newest
    PROVE  token \in 0 .. MaxTokens
<1>1. newest \in 1 .. MaxTokens /\ MaxTokens \in Nat /\ newest \in Nat
  BY DEF TypeOK, Tokens, TokenAssumption
<1>2. QED
  BY <1>1

\* What a file or the token at hand is, is an issued token.
LEMMA ReloadedIssued ==
    ASSUME TokenAssumption, TypeOK, NEW k \in Tokens, NEW token \in 1 .. newest
    PROVE  Reloaded(k, token) \in 1 .. newest
<1>1. stored[k] \in 0 .. newest /\ newest \in Nat
  BY DEF TypeOK, Tokens, TokenAssumption
<1>2. QED
  BY <1>1 DEF Reloaded

\* The moves of a process that do not issue a token.
LEMMA GoesBecomes ==
    ASSUME TokenAssumption, TypeOK, newest' = newest, NEW p \in Processes, proc[p].pc # "idle",
           NEW pc \in {"built", "use", "wait", "cooldown", "last try", "persist"}, Goes(p, pc)
    PROVE  \E wrapper : /\ Becomes(p, wrapper) /\ wrapper.pc = pc
                        /\ wrapper.key = proc[p].key /\ wrapper.token = proc[p].token
                        /\ wrapper.holds = proc[p].holds
<1>. DEFINE wrapper == [proc[p] EXCEPT !.pc = pc]
<1>1. /\ proc[p] \in Wrappers
      /\ proc[p].key \in 1 .. newest /\ proc[p].token \in 1 .. newest
  BY HasWrapper
<1>2. proc' = [proc EXCEPT ![p] = wrapper]
  BY DEF Goes, TypeOK
<1>3. wrapper \in Wrappers /\ wrapper.pc = pc /\ wrapper.key = proc[p].key
      /\ wrapper.token = proc[p].token /\ wrapper.holds = proc[p].holds
  BY <1>1 DEF Wrappers
<1>. HIDE DEF wrapper
<1>4. Becomes(p, wrapper)
  BY <1>1, <1>2, <1>3 DEF Becomes
<1>5. QED
  BY <1>3, <1>4

\* A process that leaves the refresh has no lock, and the token it comes with.
LEMMA LeaveBecomes ==
    ASSUME TokenAssumption, TypeOK, newest' \in newest .. MaxTokens, NEW p \in Processes, proc[p].pc # "idle",
           NEW token \in 1 .. newest, Leave(p, token)
    PROVE  \E wrapper : /\ Becomes(p, wrapper) /\ wrapper.pc = "use"
                        /\ wrapper.key = proc[p].key /\ wrapper.token = token
                        /\ wrapper.holds = FALSE
<1>. DEFINE wrapper == [proc[p] EXCEPT !.pc = "use", !.token = token, !.holds = FALSE]
<1>1. /\ proc[p] \in Wrappers /\ newest \in 1 .. MaxTokens /\ newest \in Nat /\ MaxTokens \in Nat
      /\ proc[p].key \in 1 .. newest /\ proc[p].token \in 1 .. newest
  BY HasWrapper DEF TypeOK, Tokens, TokenAssumption
<1>2. proc' = [proc EXCEPT ![p] = wrapper]
  BY DEF Leave, TypeOK
<1>3. token \in 0 .. MaxTokens
  BY <1>1
<1>4. wrapper \in Wrappers /\ wrapper.pc = "use" /\ wrapper.key = proc[p].key
      /\ wrapper.token = token /\ wrapper.holds = FALSE
  BY <1>1, <1>3 DEF Wrappers
<1>5. wrapper.key \in 1 .. newest' /\ wrapper.token \in 1 .. newest'
  BY <1>1, <1>4
<1>. HIDE DEF wrapper
<1>6. Becomes(p, wrapper)
  BY <1>2, <1>4, <1>5 DEF Becomes
<1>7. QED
  BY <1>4, <1>6

\* A refresh issues the next token, and does so for the newest.
LEMMA IssueIssues ==
    ASSUME TokenAssumption, TypeOK, NEW p \in Processes, Issue(p)
    PROVE  /\ newest \in Nat /\ newest' = newest + 1 /\ newest' \in Tokens
           /\ issuedTo' \in [Tokens -> 0 .. MaxTokens]
           /\ \A g \in Tokens : issuedTo'[g] = IF g = newest + 1 THEN proc[p].key ELSE issuedTo[g]
           /\ proc[p].pc = "post" /\ proc[p].token = newest
<1>1. /\ newest \in Tokens /\ newest < MaxTokens /\ newest' = newest + 1 /\ MaxTokens \in Nat
      /\ issuedTo' = [issuedTo EXCEPT ![newest + 1] = proc[p].key]
      /\ proc[p].pc = "post" /\ proc[p].token = newest
  BY DEF Issue, At, TypeOK, TokenAssumption
<1>2. proc[p].key \in 1 .. MaxTokens
  BY <1>1, HasWrapper DEF Tokens
<1>3. newest + 1 \in Tokens
  BY <1>1 DEF Tokens
<1>4. QED
  BY <1>1, <1>2, <1>3 DEF TypeOK, Tokens

-----------------------------------------------------------------------------
(* Locks *)

\* What a step of one process may do to the locks while none was broken.
LockMove(p, wrapper) ==
    /\ wrapper.holds <=> wrapper.pc \in Holders
    /\ wrapper.pc \notin Lockless
    /\ wrapper.holds => /\ wrapper.key \in locks'
                        /\ \/ proc[p].holds /\ proc[p].key = wrapper.key
                           \/ wrapper.key \notin locks
    /\ \A k \in locks \ locks' : proc[p].holds /\ proc[p].key = k

\* A step that moves the locks so keeps the lock of each key with one holder.
LEMMA LockStep ==
    ASSUME TypeOK, LockInv, blame \subseteq blame',
           NEW p \in Processes, NEW wrapper, Becomes(p, wrapper),
           "broken" \notin blame' => LockMove(p, wrapper)
    PROVE  LockInv'
<1>. SUFFICES ASSUME "broken" \notin blame' PROVE LockedByHolder' /\ HoldersDiffer'
  BY DEF LockInv
<1>1. LockedByHolder /\ HoldersDiffer /\ LockMove(p, wrapper)
  BY DEF LockInv
<1>2. proc'[p] = wrapper /\ \A q \in Processes : q # p => proc'[q] = proc[q]
  BY DEF Becomes, TypeOK
<1>3. LockedByHolder'
  <2>1. ASSUME NEW q \in Processes
        PROVE  /\ proc'[q].holds <=> proc'[q].pc \in Holders
               /\ proc'[q].pc \notin Lockless
               /\ proc'[q].holds => proc'[q].key \in locks'
    <3>1. CASE q = p
      BY <1>1, <1>2, <3>1 DEF LockMove
    <3>2. CASE q # p
      BY <1>1, <1>2, <3>2 DEF LockMove, LockedByHolder, HoldersDiffer
    <3>3. QED
      BY <3>1, <3>2
  <2>2. QED
    BY <2>1 DEF LockedByHolder, Holders, Lockless
<1>4. HoldersDiffer'
  <2>1. ASSUME NEW q \in Processes, NEW r \in Processes,
               proc'[q].holds, proc'[r].holds, proc'[q].key = proc'[r].key
        PROVE  q = r
    BY <1>1, <1>2, <2>1 DEF LockMove, LockedByHolder, HoldersDiffer
  <2>2. QED
    BY <2>1 DEF HoldersDiffer
<1>5. QED
  BY <1>3, <1>4

-----------------------------------------------------------------------------
(* Tokens *)

\* What a process may do to its own wrapper while nothing went wrong, the tokens
\* and the files left as they are.
QuietMove(p, wrapper) ==
    /\ proc[p].pc \notin {"save", "persist"} /\ wrapper.pc \notin {"save", "persist"}
    /\ wrapper.token >= wrapper.key
    /\ \/ wrapper = NoWrapper
       \/ wrapper.key = proc[p].key /\ wrapper.token = proc[p].token
       \/ wrapper.key \in Tokens /\ wrapper.token = stored[wrapper.key]
       \/ wrapper.token = secret
    /\ wrapper.pc = "post" => stored[wrapper.key] \in {0, wrapper.token}

\* A step that only moves one process so keeps the tokens in order.
LEMMA QuietKeepsCalm ==
    ASSUME TokenAssumption, TypeOK, Calm, NEW p \in Processes, NEW wrapper,
           Becomes(p, wrapper), QuietMove(p, wrapper),
           UNCHANGED <<newest, issuedTo, secret, stored, refused>>
    PROVE  Calm'
<1>1. proc'[p] = wrapper /\ \A q \in Processes : q # p => proc'[q] = proc[q]
  BY DEF Becomes, TypeOK
<1>2. FilesAreLater' /\ OnlyIssued' /\ RefusedAreSpent' /\ Explained'
  BY DEF Calm, FilesAreLater, OnlyIssued, RefusedAreSpent, Explained, RemovedAbove
<1>3. TokensAreLater'
  BY <1>1 DEF Calm, TokensAreLater, QuietMove
<1>4. SavedIsNewest'
  BY <1>1 DEF Calm, SavedIsNewest, OnItsWay, QuietMove
<1>5. Unseen'
  <2>1. ASSUME NEW q \in Processes, OnItsWay(q)'
        PROVE  /\ q # p /\ OnItsWay(q) /\ proc'[q] = proc[q]
    BY <1>1, <2>1 DEF OnItsWay, QuietMove
  <2>2. ASSUME NEW q \in Processes, OnItsWay(q)', NEW r \in Processes \ {q},
               proc'[r].token = newest'
        PROVE  At(q, "persist")' /\ proc'[r].key = proc'[q].key
    <3>1. CASE r # p
      BY <1>1, <2>1, <2>2, <3>1 DEF Calm, Unseen, At
    <3>2. CASE r = p
      <4>1. newest \in 1 .. MaxTokens /\ wrapper.token = newest /\ secret # newest
        BY <1>1, <2>1, <2>2, <3>2 DEF Calm, SavedIsNewest, TypeOK, Tokens
      <4>2. wrapper # NoWrapper
        BY <4>1 DEF NoWrapper, TokenAssumption
      <4>3. \/ wrapper.key = proc[p].key /\ proc[p].token = newest
            \/ wrapper.key \in Tokens /\ stored[wrapper.key] = newest
        BY <4>1, <4>2 DEF QuietMove
      <4>4. At(q, "persist") /\ wrapper.key = proc[q].key
        BY <2>1, <2>2, <4>3 DEF Calm, Unseen
      <4>5. QED
        BY <1>1, <2>1, <2>2, <3>2, <4>4 DEF At
    <3>3. QED
      BY <3>1, <3>2
  <2>3. ASSUME NEW q \in Processes, OnItsWay(q)', NEW k \in Tokens, stored'[k] = newest'
        PROVE  At(q, "persist")' /\ k = proc'[q].key
    BY <2>1, <2>3 DEF Calm, Unseen, At
  <2>4. QED
    BY <2>2, <2>3 DEF Unseen
<1>6. PostsStored'
  BY <1>1 DEF Calm, PostsStored, QuietMove, At
<1>7. SpentIsBehind'
  <2>1. ASSUME NEW k \in Tokens, NEW t \in Tokens, t + 1 \in Tokens, issuedTo'[t + 1] = k
        PROVE  \/ \E q \in Processes : At(q, "save")' /\ proc'[q].key = k
               \/ stored'[k] > t
               \/ RemovedAbove(k, t)'
    <3>1. \/ \E q \in Processes : At(q, "save") /\ proc[q].key = k
          \/ stored[k] > t
          \/ RemovedAbove(k, t)
      BY <2>1 DEF Calm, SpentIsBehind
    <3>2. ASSUME NEW q \in Processes, At(q, "save"), proc[q].key = k
          PROVE  At(q, "save")' /\ proc'[q].key = k
      BY <1>1, <3>2 DEF At, QuietMove
    <3>3. QED
      BY <3>1, <3>2 DEF RemovedAbove
  <2>2. QED
    BY <2>1 DEF SpentIsBehind
<1>8. Reachable'
  BY <1>1 DEF Calm, Reachable, Reloaded, OnItsWay, QuietMove
<1>9. QED
  BY <1>2, <1>3, <1>4, <1>5, <1>6, <1>7, <1>8 DEF Calm

-----------------------------------------------------------------------------
(* Steps that issue no token and leave the files alone *)

\* Such a step keeps the invariant when it moves the locks and the process well.
LEMMA QuietStep ==
    ASSUME TokenAssumption, CredentialInv, NEW p \in Processes, NEW wrapper,
           Becomes(p, wrapper), "broken" \notin blame' => LockMove(p, wrapper),
           UNCHANGED <<newest, issuedTo, lapsed, stored, refused>>,
           locks' \subseteq Tokens, secret' \in {secret, 1},
           blame \subseteq blame', blame' \subseteq Kinds,
           blame' = {} => secret' = secret /\ QuietMove(p, wrapper)
    PROVE  CredentialInv'
<1>1. TypeOK /\ LockInv /\ newest \in 1 .. MaxTokens /\ MaxTokens \in Nat
  BY DEF CredentialInv, TypeOK, Tokens, TokenAssumption
<1>2. newest' \in newest .. MaxTokens
  BY <1>1
<1>3. ProcTyped'
  BY <1>1, <1>2, ProcTypedStep
<1>4. secret' \in 1 .. newest'
  BY <1>1 DEF TypeOK
<1>5. TypeOK'
  BY <1>1, <1>3, <1>4 DEF TypeOK, ProcTyped, Issued
<1>6. LockInv'
  BY <1>1, LockStep
<1>7. ASSUME blame' = {} PROVE Calm'
  <2>1. blame = {} /\ UNCHANGED <<newest, issuedTo, secret, stored, refused>>
        /\ QuietMove(p, wrapper)
    BY <1>7
  <2>2. Calm
    BY <2>1 DEF CredentialInv
  <2>3. QED
    BY <1>1, <2>1, <2>2, QuietKeepsCalm
<1>8. QED
  BY <1>5, <1>6, <1>7 DEF CredentialInv

\* Building a wrapper.
LEMMA BuildStep ==
    ASSUME TokenAssumption, CredentialInv, NEW p \in Processes,
           Build(p) \/ BuildFromGateway(p)
    PROVE  CredentialInv'
<1>. DEFINE from == IF Build(p) THEN secret ELSE 1
            wrapper == [NoWrapper EXCEPT !.pc = "built", !.key = from,
                                         !.token = Reloaded(from, from)]
<1>1. TypeOK /\ newest \in 1 .. MaxTokens /\ MaxTokens \in Nat
  BY DEF CredentialInv, TypeOK, Tokens, TokenAssumption
<1>2. /\ from \in 1 .. newest /\ from \in Tokens
      /\ Reloaded(from, from) \in 1 .. newest
      /\ from \in 0 .. MaxTokens /\ Reloaded(from, from) \in 0 .. MaxTokens
  <2>1. from \in 1 .. newest /\ from \in Tokens
    BY <1>1 DEF TypeOK, Tokens
  <2>2. Reloaded(from, from) \in 1 .. newest
    BY <1>1, <2>1, ReloadedIssued
  <2>. HIDE DEF from
  <2>3. QED
    BY <1>1, <2>1, <2>2
<1>3. /\ wrapper.pc = "built" /\ wrapper.key = from /\ wrapper.holds = FALSE
      /\ wrapper.token = Reloaded(from, from)
  BY DEF NoWrapper
<1>4. wrapper \in Wrappers
  BY <1>2 DEF Wrappers, NoWrapper
<1>5. proc[p].pc = "idle" /\ proc' = [proc EXCEPT ![p] = wrapper]
  BY DEF Build, BuildFromGateway, BuildFrom, At
<1>6. /\ UNCHANGED <<newest, issuedTo, lapsed, stored, refused, locks>>
      /\ secret' \in {secret, 1} /\ blame \subseteq blame' /\ blame' \subseteq Kinds
      /\ blame' = {} => secret' = secret /\ from = secret
  BY <1>1 DEF Build, BuildFromGateway, Mishap, TypeOK, Kinds
<1>. HIDE DEF wrapper, from
<1>7. Becomes(p, wrapper)
  BY <1>2, <1>3, <1>4, <1>5, <1>6 DEF Becomes
<1>8. LockMove(p, wrapper)
  BY <1>3, <1>6 DEF LockMove, Holders, Lockless
<1>9. ASSUME blame' = {} PROVE secret' = secret /\ QuietMove(p, wrapper)
  <2>1. blame = {} /\ from = secret /\ secret' = secret
    BY <1>6, <1>9
  <2>2. FilesAreLater
    BY <2>1 DEF CredentialInv, Calm
  <2>3. \/ wrapper.token = from /\ wrapper.token = secret
        \/ wrapper.token = stored[from] /\ stored[from] > from
    BY <1>2, <1>3, <2>1, <2>2 DEF Reloaded, FilesAreLater
  <2>4. wrapper.token \in Nat /\ from \in Nat
    BY <1>1, <1>2, <1>3
  <2>5. QED
    BY <1>2, <1>3, <1>5, <2>1, <2>3, <2>4 DEF QuietMove
<1>10. locks' \subseteq Tokens
  BY <1>1, <1>6 DEF TypeOK
<1>11. QED
  BY <1>6, <1>7, <1>8, <1>9, <1>10, QuietStep

\* The token at hand, or the one in the file of its key.
LEMMA ReloadedIsLater ==
    ASSUME TokenAssumption, TypeOK, Calm, NEW p \in Processes, proc[p].pc # "idle",
           NEW token, token = proc[p].token \/ token = Reloaded(proc[p].key, proc[p].token)
    PROVE  /\ token >= proc[p].key
           /\ token = proc[p].token \/ token = stored[proc[p].key]
<1>1. /\ proc[p].key \in Tokens /\ proc[p].token \in Nat /\ proc[p].key \in Nat
      /\ stored[proc[p].key] \in Nat
  <2>1. /\ proc[p].key \in Tokens /\ proc[p].token \in 1 .. newest
        /\ proc[p].key \in 1 .. newest /\ newest \in Nat
    BY HasWrapper
  <2>2. stored[proc[p].key] \in 0 .. newest
    BY <2>1 DEF TypeOK
  <2>3. QED
    BY <2>1, <2>2
<1>2. FilesAreLater /\ TokensAreLater
  BY DEF Calm
<1>3. proc[p].token >= proc[p].key
  BY <1>2 DEF TokensAreLater
<1>4. stored[proc[p].key] = 0 \/ stored[proc[p].key] > proc[p].key
  BY <1>1, <1>2 DEF FilesAreLater
<1>5. QED
  BY <1>1, <1>3, <1>4 DEF Reloaded

\* A process that keeps its key, and its token or the one in the file.
LEMMA OwnStep ==
    ASSUME TokenAssumption, CredentialInv, NEW p \in Processes, proc[p].pc # "idle",
           NEW wrapper \in Wrappers, proc' = [proc EXCEPT ![p] = wrapper],
           wrapper.key = proc[p].key,
           \/ wrapper.token = proc[p].token
           \/ wrapper.token = Reloaded(proc[p].key, proc[p].token),
           "broken" \notin blame' => LockMove(p, wrapper),
           UNCHANGED <<newest, issuedTo, lapsed, secret, stored, refused>>,
           locks' \subseteq Tokens, blame \subseteq blame', blame' \subseteq Kinds,
           blame' = {} =>
              /\ proc[p].pc \notin {"save", "persist"} /\ wrapper.pc \notin {"save", "persist"}
              /\ wrapper.pc = "post" =>
                    wrapper.token = Reloaded(proc[p].key, proc[p].token)
    PROVE  CredentialInv'
<1>1. TypeOK
  BY DEF CredentialInv
<1>2. /\ proc[p].key \in Tokens /\ proc[p].key \in 1 .. newest
      /\ proc[p].token \in 1 .. newest
  BY <1>1, HasWrapper
<1>3. Reloaded(proc[p].key, proc[p].token) \in 1 .. newest
  BY <1>1, <1>2, ReloadedIssued
<1>4. Becomes(p, wrapper)
  BY <1>2, <1>3 DEF Becomes
<1>5. ASSUME blame' = {} PROVE QuietMove(p, wrapper)
  <2>1. Calm
    BY <1>5 DEF CredentialInv
  <2>2. /\ wrapper.token >= proc[p].key
        /\ wrapper.token = proc[p].token \/ wrapper.token = stored[proc[p].key]
    BY <1>1, <2>1, ReloadedIsLater
  <2>3. wrapper.pc = "post" => stored[proc[p].key] \in {0, wrapper.token}
    BY <1>5 DEF Reloaded
  <2>4. QED
    BY <1>2, <1>5, <2>2, <2>3 DEF QuietMove
<1>6. secret' \in {secret, 1}
  OBVIOUS
<1>7. QED
  BY <1>4, <1>5, <1>6, QuietStep

\* Who is not in a refresh has no lock, who refreshes has one, unless a lock was broken.
LEMMA HoldsItsLock ==
    ASSUME CredentialInv, "broken" \notin blame', blame \subseteq blame', NEW p \in Processes
    PROVE  /\ proc[p].holds <=> proc[p].pc \in Holders
           /\ proc[p].pc \notin Lockless
           /\ proc[p].holds => proc[p].key \in locks
BY DEF CredentialInv, LockInv, LockedByHolder

\* Steps of a process outside of the refresh, and a look at its credentials.
LEMMA MoveStep ==
    ASSUME TokenAssumption, CredentialInv, NEW p \in Processes, NEW wrapper \in Wrappers,
           proc[p].pc \in {"built", "use", "wait", "cooldown", "save"},
           proc' = [proc EXCEPT ![p] = wrapper],
           wrapper.key = proc[p].key, wrapper.holds = proc[p].holds,
           \/ wrapper.token = proc[p].token
           \/ wrapper.token = Reloaded(proc[p].key, proc[p].token),
           wrapper.pc \in {"built", "use", "wait", "cooldown", "persist"},
           wrapper.pc = "persist" <=> proc[p].pc = "save",
           UNCHANGED <<newest, issuedTo, lapsed, secret, stored, refused, locks>>,
           blame \subseteq blame', blame' \subseteq Kinds,
           proc[p].pc = "save" => blame' # {}
    PROVE  CredentialInv'
<1>1. locks' \subseteq Tokens /\ proc[p].pc # "idle"
  BY DEF CredentialInv, TypeOK
<1>2. "broken" \notin blame' => LockMove(p, wrapper)
  BY HoldsItsLock DEF LockMove, Holders, Lockless
<1>3. blame' = {} =>
         /\ proc[p].pc \notin {"save", "persist"} /\ wrapper.pc \notin {"save", "persist"}
         /\ wrapper.pc = "post" => wrapper.token = Reloaded(proc[p].key, proc[p].token)
  OBVIOUS
<1>4. UNCHANGED <<newest, issuedTo, lapsed, secret, stored, refused>>
  OBVIOUS
<1>5. QED
  BY <1>1, <1>2, <1>3, <1>4, OwnStep

\* A look at the token at hand or at the file.
LEMMA CheckStep ==
    ASSUME TokenAssumption, CredentialInv, NEW p \in Processes, NEW reload \in BOOLEAN,
           Check(p, reload)
    PROVE  CredentialInv'
<1>. DEFINE token == IF reload THEN Reloaded(proc[p].key, proc[p].token) ELSE proc[p].token
            pc == IF IsValid(token) THEN "use" ELSE "wait"
            wrapper == [proc[p] EXCEPT !.token = token, !.pc = pc]
<1>1. TypeOK /\ proc[p].pc = "built" /\ newest \in 1 .. MaxTokens /\ MaxTokens \in Nat
  BY DEF CredentialInv, Check, At, TypeOK, Tokens, TokenAssumption
<1>2. /\ proc[p] \in Wrappers /\ proc[p].token \in 1 .. newest
      /\ Reloaded(proc[p].key, proc[p].token) \in 1 .. newest
  BY <1>1, HasWrapper, ReloadedIssued
<1>3. token \in 0 .. MaxTokens
  BY <1>1, <1>2
<1>4. /\ proc' = [proc EXCEPT ![p] = wrapper]
      /\ UNCHANGED <<newest, issuedTo, lapsed, secret, stored, refused, locks, blame>>
  BY <1>1 DEF Check, TypeOK
<1>5. /\ token = proc[p].token \/ token = Reloaded(proc[p].key, proc[p].token)
      /\ pc \in {"use", "wait"}
  OBVIOUS
<1>. HIDE DEF token, pc
<1>6. /\ wrapper \in Wrappers /\ wrapper.pc = pc /\ wrapper.key = proc[p].key
      /\ wrapper.token = token /\ wrapper.holds = proc[p].holds
  BY <1>2, <1>3, <1>5 DEF Wrappers
<1>. HIDE DEF wrapper
<1>7. UNCHANGED <<newest, issuedTo, lapsed, secret, stored, refused, locks>>
      /\ blame \subseteq blame' /\ blame' \subseteq Kinds
  BY <1>1, <1>4 DEF TypeOK
<1>8. /\ proc[p].pc \in {"built", "use", "wait", "cooldown", "save"}
      /\ proc[p].pc # "save"
      /\ wrapper.pc \in {"built", "use", "wait", "cooldown", "persist"}
      /\ wrapper.pc # "persist"
  BY <1>1, <1>5, <1>6
<1>9. QED
  BY <1>4, <1>5, <1>6, <1>7, <1>8, MoveStep

\* The steps of a process that only goes on.
LEMMA GoStep ==
    ASSUME TokenAssumption, CredentialInv, NEW p \in Processes,
           NEW pc \in {"built", "use", "wait", "cooldown", "persist"}, Goes(p, pc),
           proc[p].pc \in {"built", "use", "wait", "cooldown", "save"},
           pc = "persist" <=> proc[p].pc = "save",
           UNCHANGED <<newest, issuedTo, lapsed, secret, stored, refused, locks>>,
           blame \subseteq blame', blame' \subseteq Kinds,
           proc[p].pc = "save" => blame' # {}
    PROVE  CredentialInv'
<1>. DEFINE wrapper == [proc[p] EXCEPT !.pc = pc]
<1>1. TypeOK /\ proc[p].pc # "idle"
  BY DEF CredentialInv
<1>2. proc[p] \in Wrappers
  BY <1>1, HasWrapper
<1>3. proc' = [proc EXCEPT ![p] = wrapper]
  BY <1>1 DEF Goes, TypeOK
<1>4. /\ wrapper \in Wrappers /\ wrapper.pc = pc /\ wrapper.key = proc[p].key
      /\ wrapper.token = proc[p].token /\ wrapper.holds = proc[p].holds
  BY <1>2 DEF Wrappers
<1>. HIDE DEF wrapper
<1>5. QED
  BY <1>3, <1>4, MoveStep

\* A process drops its wrapper, or dies with it.
LEMMA DropStep ==
    ASSUME TokenAssumption, CredentialInv, NEW p \in Processes, proc[p].pc # "idle",
           proc' = [proc EXCEPT ![p] = NoWrapper],
           UNCHANGED <<newest, issuedTo, lapsed, secret, stored, refused, locks>>,
           blame \subseteq blame', blame' \subseteq Kinds,
           blame' = {} => proc[p].pc = "use"
    PROVE  CredentialInv'
<1>1. TypeOK /\ MaxTokens \in Nat
  BY DEF CredentialInv, TokenAssumption
<1>2. Becomes(p, NoWrapper)
  BY <1>1 DEF Becomes, Wrappers, NoWrapper
<1>3. LockMove(p, NoWrapper)
  BY DEF LockMove, NoWrapper, Holders, Lockless
<1>4. ASSUME blame' = {} PROVE QuietMove(p, NoWrapper)
  BY <1>4 DEF QuietMove, NoWrapper
<1>5. locks' \subseteq Tokens /\ secret' \in {secret, 1}
      /\ UNCHANGED <<newest, issuedTo, lapsed, stored, refused>> /\ secret' = secret
  BY <1>1 DEF TypeOK
<1>6. QED
  BY <1>2, <1>3, <1>4, <1>5, QuietStep

\* A process that takes the lock.
LEMMA TakeStep ==
    ASSUME TokenAssumption, CredentialInv, NEW p \in Processes, Takes(p),
           proc[p].pc \in {"wait", "last try"}, locks' = locks \cup {proc[p].key},
           proc[p].key \notin locks,
           UNCHANGED <<newest, issuedTo, lapsed, secret, stored, refused, blame>>
    PROVE  CredentialInv'
<1>. DEFINE wrapper == [proc[p] EXCEPT !.pc = "locked", !.holds = TRUE]
<1>1. TypeOK /\ proc[p].pc # "idle"
  BY DEF CredentialInv
<1>2. proc[p] \in Wrappers /\ proc[p].key \in Tokens
  BY <1>1, HasWrapper
<1>3. proc' = [proc EXCEPT ![p] = wrapper]
  BY <1>1 DEF Takes, TypeOK
<1>4. /\ wrapper \in Wrappers /\ wrapper.pc = "locked" /\ wrapper.key = proc[p].key
      /\ wrapper.token = proc[p].token /\ wrapper.holds = TRUE
  BY <1>2 DEF Wrappers
<1>. HIDE DEF wrapper
<1>5. LockMove(p, wrapper)
  BY <1>4 DEF LockMove, Holders, Lockless
<1>6. /\ locks' \subseteq Tokens /\ blame \subseteq blame' /\ blame' \subseteq Kinds
      /\ UNCHANGED <<newest, issuedTo, lapsed, secret, stored, refused>>
  BY <1>1, <1>2 DEF TypeOK
<1>7. proc[p].pc \notin {"save", "persist"} /\ wrapper.pc \notin {"save", "persist", "post"}
  BY <1>4
<1>8. QED
  BY <1>1, <1>3, <1>4, <1>5, <1>6, <1>7, OwnStep

\* A process that leaves the refresh with the token it has, or with the file's.
LEMMA LeaveStep ==
    ASSUME TokenAssumption, CredentialInv, NEW p \in Processes,
           proc[p].pc \in {"locked", "no lock", "post", "persist"},
           NEW token, Leave(p, token),
           token = proc[p].token \/ token = Reloaded(proc[p].key, proc[p].token),
           UNCHANGED <<newest, issuedTo, lapsed, secret, stored, refused>>,
           blame \subseteq blame', blame' \subseteq Kinds,
           proc[p].pc = "persist" => blame' # {}
    PROVE  CredentialInv'
<1>. DEFINE wrapper == [proc[p] EXCEPT !.pc = "use", !.token = token, !.holds = FALSE]
<1>1. TypeOK /\ proc[p].pc # "idle" /\ newest \in 1 .. MaxTokens /\ MaxTokens \in Nat
  BY DEF CredentialInv, TypeOK, Tokens, TokenAssumption
<1>2. /\ proc[p] \in Wrappers /\ proc[p].token \in 1 .. newest
      /\ Reloaded(proc[p].key, proc[p].token) \in 1 .. newest
  BY <1>1, HasWrapper, ReloadedIssued
<1>3. token \in 0 .. MaxTokens
  <2>1. token \in 1 .. newest
    BY <1>2
  <2>2. QED
    BY <1>1, <2>1, IssuedIsToken
<1>4. proc' = [proc EXCEPT ![p] = wrapper]
  BY <1>1 DEF Leave, TypeOK
<1>5. /\ wrapper \in Wrappers /\ wrapper.pc = "use" /\ wrapper.key = proc[p].key
      /\ wrapper.token = token /\ wrapper.holds = FALSE
  BY <1>2, <1>3 DEF Wrappers
<1>. HIDE DEF wrapper
<1>6. LockMove(p, wrapper)
  BY <1>5 DEF LockMove, Leave, Holders, Lockless
<1>7. locks' \subseteq Tokens
  BY <1>1 DEF Leave, TypeOK
<1>8. /\ wrapper.pc \notin {"save", "persist", "post"}
      /\ blame' = {} => proc[p].pc \notin {"save", "persist"}
  BY <1>5
<1>9. QED
  BY <1>1, <1>4, <1>5, <1>6, <1>7, <1>8, OwnStep

\* Waiting for the lock, and giving up.
LEMMA WaitSteps ==
    ASSUME TokenAssumption, CredentialInv, NEW p \in Processes,
           Lock(p) \/ BreakLock(p) \/ LastTry(p)
    PROVE  CredentialInv'
<1>1. TypeOK
  BY DEF CredentialInv
<1>2. CASE Lock(p)
  BY <1>2, TakeStep DEF Lock, At
<1>3. CASE LastTry(p) /\ proc[p].key \notin locks
  BY <1>3, TakeStep DEF LastTry, At
<1>4. CASE (LastTry(p) /\ proc[p].key \in locks) \/ BreakLock(p)
  <2>. DEFINE pc == IF BreakLock(p) THEN "last try" ELSE "no lock"
              wrapper == [proc[p] EXCEPT !.pc = pc]
  <2>1. /\ proc[p].pc \in {"wait", "last try"}
        /\ proc' = [proc EXCEPT ![p] = wrapper]
        /\ pc \in {"last try", "no lock"}
        /\ UNCHANGED <<newest, issuedTo, lapsed, secret, stored, refused>>
    BY <1>1, <1>4 DEF LastTry, BreakLock, Goes, At, TypeOK
  <2>2. proc[p] \in Wrappers /\ proc[p].key \in Tokens
    BY <1>1, <2>1, HasWrapper
  <2>3. locks' \subseteq Tokens /\ blame \subseteq blame' /\ blame' \subseteq Kinds
    BY <1>1, <1>4, <2>2 DEF LastTry, BreakLock, Mishap, TypeOK, Kinds
  <2>4. "broken" \in blame'
    BY <1>4, <2>3, HoldsItsLock DEF LastTry, BreakLock, Mishap, At, Lockless
  <2>. HIDE DEF pc
  <2>5. /\ wrapper \in Wrappers /\ wrapper.pc = pc /\ wrapper.key = proc[p].key
        /\ wrapper.token = proc[p].token /\ wrapper.holds = proc[p].holds
    BY <2>1, <2>2 DEF Wrappers
  <2>. HIDE DEF wrapper
  <2>6. proc[p].pc # "idle" /\ blame' # {}
    BY <2>1, <2>4
  <2>7. QED
    BY <2>1, <2>3, <2>4, <2>5, <2>6, OwnStep
<1>5. QED
  BY <1>2, <1>3, <1>4

\* Under the lock the file is read again.
LEMMA ReloadStep ==
    ASSUME TokenAssumption, CredentialInv, NEW p \in Processes, Reload(p)
    PROVE  CredentialInv'
<1>. DEFINE token == Reloaded(proc[p].key, proc[p].token)
            wrapper == [proc[p] EXCEPT !.token = token, !.pc = "post"]
<1>1. /\ TypeOK /\ proc[p].pc \in {"locked", "no lock"}
      /\ newest \in 1 .. MaxTokens /\ MaxTokens \in Nat
      /\ UNCHANGED <<newest, issuedTo, lapsed, secret, stored, refused, blame>>
      /\ blame' \subseteq Kinds
  BY DEF CredentialInv, Reload, TypeOK, Tokens, TokenAssumption
<1>2. CASE IsValid(token)
  <2>1. Leave(p, token)
    BY <1>2 DEF Reload
  <2>2. QED
    BY <1>1, <2>1, LeaveStep
<1>3. CASE ~ IsValid(token)
  <2>1. /\ proc[p] \in Wrappers /\ proc[p].key \in Tokens /\ token \in 1 .. newest
    BY <1>1, HasWrapper, ReloadedIssued
  <2>2. proc' = [proc EXCEPT ![p] = wrapper] /\ locks' = locks
    BY <1>1, <1>3 DEF Reload, TypeOK
  <2>. HIDE DEF token
  <2>3. token \in 0 .. MaxTokens
    BY <1>1, <2>1, IssuedIsToken
  <2>4. /\ wrapper \in Wrappers /\ wrapper.pc = "post" /\ wrapper.key = proc[p].key
        /\ wrapper.token = token /\ wrapper.holds = proc[p].holds
    BY <2>1, <2>3 DEF Wrappers
  <2>. HIDE DEF wrapper
  <2>5. "broken" \notin blame' => LockMove(p, wrapper)
    BY <1>1, <2>2, <2>4, HoldsItsLock DEF LockMove, Holders, Lockless
  <2>6. locks' \subseteq Tokens /\ blame \subseteq blame'
    BY <1>1, <2>2 DEF TypeOK
  <2>7. /\ proc[p].pc \notin {"save", "persist", "idle"} /\ wrapper.pc \notin {"save", "persist"}
    BY <1>1, <2>4
  <2>8. token = Reloaded(proc[p].key, proc[p].token)
    BY DEF token
  <2>9. QED
    BY <1>1, <2>2, <2>4, <2>5, <2>6, <2>7, <2>8, OwnStep
<1>4. QED
  BY <1>2, <1>3

-----------------------------------------------------------------------------
(* The steps of the refresh *)

\* Two processes of one key are not both in the refresh.
LEMMA OneOfAKey ==
    ASSUME CredentialInv, blame = {}, NEW p \in Processes, NEW q \in Processes,
           proc[p].pc \in Holders, proc[q].pc \in Holders, proc[p].key = proc[q].key
    PROVE  p = q
BY DEF CredentialInv, LockInv, LockedByHolder, HoldersDiffer

\* Only one process has a token on its way, and none other has it to post.
LEMMA OneOnItsWay ==
    ASSUME CredentialInv, blame = {}, NEW p \in Processes, NEW q \in Processes, p # q,
           OnItsWay(q)
    PROVE  ~ OnItsWay(p) /\ ~ (At(p, "post") /\ proc[p].token = newest)
<1>1. SUFFICES ASSUME OnItsWay(p) \/ (At(p, "post") /\ proc[p].token = newest) PROVE FALSE
  OBVIOUS
<1>2. SavedIsNewest /\ Unseen
  BY DEF CredentialInv, Calm
<1>3. proc[p].token = newest
  BY <1>1, <1>2 DEF SavedIsNewest
<1>4. proc[p].key = proc[q].key
  BY <1>2, <1>3 DEF Unseen
<1>5. proc[p].pc \in Holders /\ proc[q].pc \in Holders
  BY <1>1 DEF OnItsWay, At, Holders
<1>6. QED
  BY <1>4, <1>5, OneOfAKey

\* What was refused had been spent, and the token it was spent for is issued.
LEMMA SpentIsIssued ==
    ASSUME TokenAssumption, TypeOK, Calm
    PROVE  \A r \in refused : r[2] \in Nat /\ r[2] < newest /\ r[2] + 1 \in Tokens
<1>1. newest \in 1 .. MaxTokens /\ MaxTokens \in Nat /\ newest \in Nat
  BY DEF TypeOK, Tokens, TokenAssumption
<1>2. ASSUME NEW r \in refused PROVE r[2] \in Nat /\ r[2] < newest /\ r[2] + 1 \in Tokens
  <2>1. r[2] \in 1 .. MaxTokens
    BY DEF TypeOK, Tokens
  <2>2. r[2] < newest
    BY DEF Calm, RefusedAreSpent
  <2>3. QED
    BY <1>1, <2>1, <2>2 DEF Tokens
<1>3. QED
  BY <1>2

\* The token that a refresh issues is on its way to the file and the secret.
LEMMA RefreshKeepsCalm ==
    ASSUME TokenAssumption, CredentialInv, blame = {}, NEW p \in Processes, Refresh(p),
           NEW wrapper, Becomes(p, wrapper), wrapper.pc = "save",
           wrapper.key = proc[p].key, wrapper.token = newest + 1
    PROVE  Calm'
<1>1. /\ TypeOK /\ Calm
      /\ UNCHANGED <<secret, stored, refused>> /\ proc[p].pc = "post"
      /\ newest \in Nat /\ newest' = newest + 1 /\ newest' \in Tokens
      /\ \A g \in Tokens : issuedTo'[g] = IF g = newest + 1 THEN proc[p].key ELSE issuedTo[g]
      /\ proc[p].token = newest
  BY IssueIssues DEF CredentialInv, Refresh
<1>2. proc'[p] = wrapper /\ \A q \in Processes : q # p => proc'[q] = proc[q]
  BY DEF Becomes, TypeOK, CredentialInv
<1>3. proc[p].key \in 1 .. newest /\ proc[p].key \in Tokens
  BY <1>1, HasWrapper
<1>4. \A q \in Processes : q # p => ~ OnItsWay(q)
  BY <1>1, OneOnItsWay DEF At
<1>5. \A q \in Processes : proc[q].token \in Nat /\ proc[q].token <= newest
  BY <1>1 DEF TypeOK, NoWrapper, Issued
<1>6. \A k \in Tokens : stored[k] \in Nat /\ stored[k] <= newest
  BY <1>1 DEF TypeOK
<1>7. secret \in Nat /\ secret <= newest
  BY <1>1 DEF TypeOK
<1>8. FilesAreLater'
  BY <1>1 DEF Calm, FilesAreLater
<1>9. TokensAreLater'
  BY <1>1, <1>2, <1>3 DEF Calm, TokensAreLater
<1>10. OnlyIssued'
  <2>1. ASSUME NEW g \in Tokens, issuedTo'[g] # 0 PROVE g <= newest'
    <3>1. g \in Nat
      BY DEF Tokens
    <3>2. CASE g = newest + 1
      BY <1>1, <3>1, <3>2
    <3>3. CASE g # newest + 1
      BY <1>1, <2>1, <3>1, <3>3 DEF Calm, OnlyIssued
    <3>4. QED
      BY <3>2, <3>3
  <2>2. QED
    BY <2>1 DEF OnlyIssued
<1>11. \A r \in refused : r[2] \in Nat /\ r[2] < newest /\ r[2] + 1 \in Tokens
  BY <1>1, SpentIsIssued
<1>12. \A r \in refused : issuedTo'[r[2] + 1] = issuedTo[r[2] + 1]
  BY <1>1, <1>11
<1>13. RefusedAreSpent'
  BY <1>1, <1>11 DEF RefusedAreSpent
<1>14. SavedIsNewest'
  BY <1>1, <1>2, <1>3, <1>4, <1>7 DEF SavedIsNewest, OnItsWay
<1>15. Unseen'
  <2>1. \A q \in Processes : OnItsWay(q)' => q = p
    BY <1>2, <1>4 DEF OnItsWay
  <2>2. \A q \in Processes : q # p => proc'[q].token # newest'
    BY <1>1, <1>2, <1>5
  <2>3. \A k \in Tokens : stored'[k] # newest'
    BY <1>1, <1>6
  <2>4. QED
    BY <2>1, <2>2, <2>3 DEF Unseen
<1>16. PostsStored'
  BY <1>1, <1>2 DEF Calm, PostsStored, At
<1>17. \A k, t : RemovedAbove(k, t) => RemovedAbove(k, t)'
  BY <1>1, <1>12 DEF RemovedAbove
<1>18. SpentIsBehind'
  <2>1. ASSUME NEW k \in Tokens, NEW t \in Tokens, t + 1 \in Tokens, issuedTo'[t + 1] = k
        PROVE  \/ \E q \in Processes : At(q, "save")' /\ proc'[q].key = k
               \/ stored'[k] > t
               \/ RemovedAbove(k, t)'
    <3>1. CASE t + 1 = newest + 1
      BY <1>1, <1>2, <2>1, <3>1 DEF At
    <3>2. CASE t + 1 # newest + 1
      <4>1. issuedTo[t + 1] = k
        BY <1>1, <2>1, <3>2
      <4>2. \/ \E q \in Processes : At(q, "save") /\ proc[q].key = k
            \/ stored[k] > t
            \/ RemovedAbove(k, t)
        BY <1>1, <2>1, <4>1 DEF Calm, SpentIsBehind
      <4>3. ASSUME NEW q \in Processes, At(q, "save"), proc[q].key = k
            PROVE  At(q, "save")' /\ proc'[q].key = k
        BY <1>1, <1>2, <4>3 DEF At
      <4>4. QED
        BY <1>1, <1>17, <4>2, <4>3
    <3>3. QED
      BY <3>1, <3>2
  <2>2. QED
    BY <2>1 DEF SpentIsBehind
<1>19. Reachable'
  BY <1>2 DEF Reachable, OnItsWay
<1>20. Explained'
  BY <1>1, <1>12, <1>17 DEF Calm, Explained
<1>21. QED
  BY <1>8, <1>9, <1>10, <1>13, <1>14, <1>15, <1>16, <1>18, <1>19, <1>20 DEF Calm

\* A refusal removes the file of its key, and so explains those that follow.
LEMMA RefuseKeepsCalm ==
    ASSUME TokenAssumption, CredentialInv, blame = {}, NEW p \in Processes, Refuse(p),
           NEW wrapper, Becomes(p, wrapper), wrapper.pc = "use",
           wrapper.key = proc[p].key, wrapper.token = proc[p].token
    PROVE  Calm'
<1>0. PICK k0, t0 : k0 = proc[p].key /\ t0 = proc[p].token
  OBVIOUS
<1>1. /\ TypeOK /\ Calm /\ proc[p].pc = "post" /\ t0 # newest
      /\ UNCHANGED <<newest, issuedTo, secret>>
      /\ refused' = refused \cup {<<k0, t0>>}
      /\ stored' = [stored EXCEPT ![k0] = 0]
  BY <1>0 DEF CredentialInv, Refuse, At
<1>2. proc'[p] = wrapper /\ \A q \in Processes : q # p => proc'[q] = proc[q]
  BY DEF Becomes, TypeOK, CredentialInv
<1>3. /\ k0 \in 1 .. newest /\ k0 \in Tokens /\ t0 \in 1 .. newest /\ t0 \in Tokens
      /\ newest \in Nat /\ newest \in Tokens
  BY <1>0, <1>1, HasWrapper DEF TypeOK
<1>4. t0 \in Nat /\ t0 < newest /\ t0 + 1 \in Tokens /\ newest \in 1 .. MaxTokens /\ MaxTokens \in Nat
  BY <1>1, <1>3 DEF Tokens, TokenAssumption
<1>5. /\ stored'[k0] = 0
      /\ \A k \in Tokens : k # k0 => stored'[k] = stored[k]
      /\ stored[k0] \in {0, t0}
  BY <1>0, <1>1, <1>3 DEF TypeOK, Calm, PostsStored, At
<1>6. \A q \in Processes : q # p /\ proc[q].pc \in Holders => proc[q].key # k0
  BY <1>0, <1>1, OneOfAKey DEF Holders
<1>7. \A k, t : RemovedAbove(k, t) => RemovedAbove(k, t)'
  BY <1>1 DEF RemovedAbove
\* The refused token was spent by another key, or one that was is above it.
<1>8. issuedTo[t0 + 1] # k0 \/ RemovedAbove(k0, t0)
  <2>1. SUFFICES ASSUME issuedTo[t0 + 1] = k0 PROVE RemovedAbove(k0, t0)
    OBVIOUS
  <2>2. \/ \E q \in Processes : At(q, "save") /\ proc[q].key = k0
        \/ stored[k0] > t0
        \/ RemovedAbove(k0, t0)
    BY <1>1, <1>3, <1>4, <2>1 DEF Calm, SpentIsBehind
  <2>3. ~ (\E q \in Processes : At(q, "save") /\ proc[q].key = k0)
    BY <1>1, <1>6 DEF At, Holders
  <2>4. ~ (stored[k0] > t0)
    BY <1>3, <1>4, <1>5 DEF Tokens
  <2>5. QED
    BY <2>2, <2>3, <2>4
<1>9. <<k0, t0>> \in refused' /\ <<k0, t0>>[1] = k0 /\ <<k0, t0>>[2] = t0
  BY <1>1
<1>10. \A t \in Nat : t < t0 => RemovedAbove(k0, t)'
  <2>1. ASSUME NEW t \in Nat, t < t0 PROVE RemovedAbove(k0, t)'
    <3>1. CASE issuedTo[t0 + 1] # k0
      BY <1>1, <1>9, <2>1, <3>1 DEF RemovedAbove
    <3>2. CASE RemovedAbove(k0, t0)
      <4>1. PICK q \in refused : q[1] = k0 /\ q[2] > t0 /\ issuedTo[q[2] + 1] # k0
        BY <3>2 DEF RemovedAbove
      <4>2. q[2] \in Nat
        BY <1>1, SpentIsIssued
      <4>3. q[2] > t
        BY <1>4, <2>1, <4>1, <4>2
      <4>4. RemovedAbove(k0, t)
        BY <4>1, <4>3 DEF RemovedAbove
      <4>5. QED
        BY <1>7, <4>4
    <3>3. QED
      BY <1>8, <3>1, <3>2
  <2>2. QED
    BY <2>1
<1>11. FilesAreLater'
  BY <1>1, <1>5 DEF FilesAreLater, Calm
<1>12. TokensAreLater'
  BY <1>1, <1>2 DEF Calm, TokensAreLater
<1>13. OnlyIssued'
  BY <1>1 DEF Calm, OnlyIssued
<1>14. RefusedAreSpent'
  BY <1>1, <1>4 DEF Calm, RefusedAreSpent
<1>15. \A q \in Processes : OnItsWay(q)' => q # p /\ OnItsWay(q) /\ proc'[q] = proc[q]
  BY <1>2 DEF OnItsWay
<1>16. SavedIsNewest'
  BY <1>1, <1>15 DEF Calm, SavedIsNewest
<1>17. Unseen'
  <2>1. ASSUME NEW q \in Processes, OnItsWay(q)', NEW r \in Processes \ {q},
               proc'[r].token = newest'
        PROVE  At(q, "persist")' /\ proc'[r].key = proc'[q].key
    <3>1. wrapper.token = t0
      BY <1>0
    <3>2. r # p /\ proc'[r] = proc[r]
      BY <1>1, <1>2, <2>1, <3>1
    <3>3. QED
      BY <1>1, <1>15, <2>1, <3>2 DEF Calm, Unseen, At
  <2>2. ASSUME NEW q \in Processes, OnItsWay(q)', NEW k \in Tokens, stored'[k] = newest'
        PROVE  At(q, "persist")' /\ k = proc'[q].key
    <3>1. k # k0 /\ stored[k] = newest
      BY <1>1, <1>4, <1>5, <2>2
    <3>2. QED
      BY <1>15, <1>1, <2>2, <3>1 DEF Calm, Unseen, At
  <2>3. QED
    BY <2>1, <2>2 DEF Unseen
<1>18. PostsStored'
  <2>1. ASSUME NEW q \in Processes, At(q, "post")'
        PROVE  stored'[proc'[q].key] \in {0, proc'[q].token}
    <3>1. q # p /\ proc'[q] = proc[q] /\ At(q, "post")
      BY <1>2, <2>1 DEF At
    <3>2. proc[q].key # k0 /\ proc[q].key \in Tokens
      BY <1>1, <1>6, <3>1, HasWrapper DEF At, Holders
    <3>3. QED
      BY <1>1, <1>5, <3>1, <3>2 DEF Calm, PostsStored
  <2>2. QED
    BY <2>1 DEF PostsStored
<1>19. SpentIsBehind'
  <2>1. ASSUME NEW k \in Tokens, NEW t \in Tokens, t + 1 \in Tokens, issuedTo'[t + 1] = k
        PROVE  \/ \E q \in Processes : At(q, "save")' /\ proc'[q].key = k
               \/ stored'[k] > t
               \/ RemovedAbove(k, t)'
    <3>1. \/ \E q \in Processes : At(q, "save") /\ proc[q].key = k
          \/ stored[k] > t
          \/ RemovedAbove(k, t)
      BY <1>1, <2>1 DEF Calm, SpentIsBehind
    <3>2. CASE \E q \in Processes : At(q, "save") /\ proc[q].key = k
      BY <1>1, <1>2, <3>2 DEF At
    <3>3. CASE stored[k] > t /\ k # k0
      BY <1>5, <3>3
    <3>4. CASE stored[k] > t /\ k = k0
      <4>1. t \in Nat /\ t < t0
        BY <1>4, <1>5, <3>4 DEF Tokens
      <4>2. QED
        BY <1>10, <3>4, <4>1
    <3>5. CASE RemovedAbove(k, t)
      BY <1>7, <3>5
    <3>6. QED
      BY <3>1, <3>2, <3>3, <3>4, <3>5
  <2>2. QED
    BY <2>1 DEF SpentIsBehind
<1>20. Reachable'
  <2>1. CASE Reloaded(secret, secret) = newest
    <3>1. secret \in Tokens
      BY <1>1, <1>4 DEF TypeOK, Tokens
    <3>2. Reloaded(secret, secret)' = newest'
      BY <1>1, <1>4, <1>5, <2>1, <3>1 DEF Reloaded
    <3>3. QED
      BY <3>2 DEF Reachable
  <2>2. CASE \E q \in Processes : OnItsWay(q)
    BY <1>1, <1>2, <2>2 DEF Reachable, OnItsWay
  <2>3. QED
    BY <1>1, <2>1, <2>2 DEF Calm, Reachable
<1>21. Explained'
  <2>1. ASSUME NEW r \in refused'
        PROVE  issuedTo'[r[2] + 1] # r[1] \/ RemovedAbove(r[1], r[2])'
    <3>1. CASE r \in refused
      BY <1>1, <1>7, <3>1 DEF Calm, Explained
    <3>2. CASE r = <<k0, t0>>
      BY <1>1, <1>7, <1>8, <3>2
    <3>3. QED
      BY <1>1, <3>1, <3>2
  <2>2. QED
    BY <2>1 DEF Explained
<1>22. QED
  BY <1>11, <1>12, <1>13, <1>14, <1>16, <1>17, <1>18, <1>19, <1>20, <1>21 DEF Calm

\* The token is saved under its key, where the next of that key will find it.
LEMMA SaveKeepsCalm ==
    ASSUME TokenAssumption, CredentialInv, blame = {}, NEW p \in Processes, Save(p),
           NEW wrapper, Becomes(p, wrapper), wrapper.pc = "persist",
           wrapper.key = proc[p].key, wrapper.token = proc[p].token
    PROVE  Calm'
<1>0. PICK k0 : k0 = proc[p].key
  OBVIOUS
<1>1. /\ TypeOK /\ Calm /\ proc[p].pc = "save" /\ OnItsWay(p)
      /\ UNCHANGED <<newest, issuedTo, secret, refused>>
      /\ stored' = [stored EXCEPT ![k0] = proc[p].token]
  BY <1>0 DEF CredentialInv, Save, At, OnItsWay
<1>2. proc'[p] = wrapper /\ \A q \in Processes : q # p => proc'[q] = proc[q]
  BY DEF Becomes, TypeOK, CredentialInv
<1>3. /\ proc[p].token = newest /\ newest > k0 /\ secret # newest
      /\ k0 \in Tokens /\ newest \in Nat
  BY <1>0, <1>1, HasWrapper DEF Calm, SavedIsNewest
<1>4. /\ stored'[k0] = newest
      /\ \A k \in Tokens : k # k0 => stored'[k] = stored[k] /\ stored[k] # newest
  BY <1>0, <1>1, <1>3 DEF TypeOK, Calm, Unseen, At
<1>5. \A q \in Processes : q # p => ~ OnItsWay(q) /\ proc[q].token # newest
  BY <1>1, OneOnItsWay DEF Calm, Unseen, At
<1>6. \A q \in Processes : q # p /\ proc[q].pc \in Holders => proc[q].key # k0
  BY <1>0, <1>1, OneOfAKey DEF Holders
<1>7. FilesAreLater'
  BY <1>1, <1>3, <1>4 DEF Calm, FilesAreLater
<1>8. TokensAreLater'
  BY <1>1, <1>2 DEF Calm, TokensAreLater
<1>9. OnlyIssued' /\ RefusedAreSpent' /\ Explained'
  BY <1>1 DEF Calm, OnlyIssued, RefusedAreSpent, Explained, RemovedAbove
<1>10. SavedIsNewest'
  BY <1>0, <1>1, <1>2, <1>3, <1>5 DEF SavedIsNewest, OnItsWay
<1>11. Unseen'
  <2>1. \A q \in Processes : OnItsWay(q)' => q = p
    BY <1>2, <1>5 DEF OnItsWay
  <2>2. \A q \in Processes : q # p => proc'[q].token # newest'
    BY <1>1, <1>2, <1>5
  <2>3. \A k \in Tokens : stored'[k] = newest' => k = proc'[p].key
    BY <1>0, <1>1, <1>2, <1>4
  <2>4. At(p, "persist")'
    BY <1>2 DEF At
  <2>5. QED
    BY <2>1, <2>2, <2>3, <2>4 DEF Unseen
<1>12. PostsStored'
  <2>1. ASSUME NEW q \in Processes, At(q, "post")'
        PROVE  stored'[proc'[q].key] \in {0, proc'[q].token}
    <3>1. q # p /\ proc'[q] = proc[q] /\ At(q, "post")
      BY <1>2, <2>1 DEF At
    <3>2. proc[q].key # k0 /\ proc[q].key \in Tokens
      BY <1>1, <1>6, <3>1, HasWrapper DEF At, Holders
    <3>3. QED
      BY <1>1, <1>4, <3>1, <3>2 DEF Calm, PostsStored
  <2>2. QED
    BY <2>1 DEF PostsStored
<1>13. SpentIsBehind'
  <2>1. ASSUME NEW k \in Tokens, NEW t \in Tokens, t + 1 \in Tokens, issuedTo'[t + 1] = k
        PROVE  \/ \E q \in Processes : At(q, "save")' /\ proc'[q].key = k
               \/ stored'[k] > t
               \/ RemovedAbove(k, t)'
    <3>1. CASE k = k0
      <4>1. t \in Nat /\ k # 0
        BY DEF Tokens
      <4>2. t + 1 <= newest
        BY <1>1, <2>1, <4>1 DEF Calm, OnlyIssued
      <4>3. QED
        BY <1>3, <1>4, <3>1, <4>1, <4>2
    <3>2. CASE k # k0
      <4>1. \/ \E q \in Processes : At(q, "save") /\ proc[q].key = k
            \/ stored[k] > t
            \/ RemovedAbove(k, t)
        BY <1>1, <2>1 DEF Calm, SpentIsBehind
      <4>2. ASSUME NEW q \in Processes, At(q, "save"), proc[q].key = k
            PROVE  At(q, "save")' /\ proc'[q].key = k
        BY <1>0, <1>2, <3>2, <4>2 DEF At
      <4>3. RemovedAbove(k, t) => RemovedAbove(k, t)'
        BY <1>1 DEF RemovedAbove
      <4>4. QED
        BY <1>4, <3>2, <4>1, <4>2, <4>3
    <3>3. QED
      BY <3>1, <3>2
  <2>2. QED
    BY <2>1 DEF SpentIsBehind
<1>14. Reachable'
  BY <1>2 DEF Reachable, OnItsWay
<1>15. QED
  BY <1>7, <1>8, <1>9, <1>10, <1>11, <1>12, <1>13, <1>14 DEF Calm

\* The token becomes the secret: a new wrapper is built from it.
LEMMA PersistKeepsCalm ==
    ASSUME TokenAssumption, CredentialInv, blame = {}, NEW p \in Processes, Persist(p),
           NEW wrapper, Becomes(p, wrapper), wrapper.pc = "use",
           wrapper.key = proc[p].key, wrapper.token = proc[p].token
    PROVE  Calm'
<1>1. /\ TypeOK /\ Calm /\ proc[p].pc = "persist" /\ OnItsWay(p)
      /\ UNCHANGED <<newest, issuedTo, stored, refused>>
      /\ secret' = proc[p].token
  BY DEF CredentialInv, Persist, At, OnItsWay
<1>2. proc'[p] = wrapper /\ \A q \in Processes : q # p => proc'[q] = proc[q]
  BY DEF Becomes, TypeOK, CredentialInv
<1>3. proc[p].token = newest /\ newest \in Nat /\ newest \in Tokens
  BY <1>1 DEF Calm, SavedIsNewest, TypeOK, Tokens
<1>4. \A q \in Processes : q # p => ~ OnItsWay(q)
  BY <1>1, OneOnItsWay
<1>5. FilesAreLater' /\ OnlyIssued' /\ RefusedAreSpent' /\ Explained'
  BY <1>1 DEF Calm, FilesAreLater, OnlyIssued, RefusedAreSpent, Explained, RemovedAbove
<1>6. TokensAreLater'
  BY <1>1, <1>2 DEF Calm, TokensAreLater
<1>7. \A q \in Processes : ~ OnItsWay(q)'
  BY <1>2, <1>4 DEF OnItsWay
<1>8. SavedIsNewest' /\ Unseen'
  BY <1>7 DEF SavedIsNewest, Unseen
<1>9. PostsStored'
  BY <1>1, <1>2 DEF Calm, PostsStored, At
<1>10. SpentIsBehind'
  <2>1. ASSUME NEW q \in Processes, At(q, "save")
        PROVE  At(q, "save")' /\ proc'[q].key = proc[q].key
    BY <1>1, <1>2, <2>1 DEF At
  <2>2. QED
    BY <1>1, <2>1 DEF Calm, SpentIsBehind, RemovedAbove
<1>11. Reachable'
  <2>1. stored[newest] \in 0 .. newest
    BY <1>1, <1>3 DEF TypeOK
  <2>2. stored[newest] # 0 => stored[newest] > newest
    BY <1>1, <1>3 DEF Calm, FilesAreLater
  <2>3. stored[newest] = 0
    BY <1>3, <2>1, <2>2
  <2>4. QED
    BY <1>1, <1>3, <2>3 DEF Reachable, Reloaded
<1>12. QED
  BY <1>5, <1>6, <1>8, <1>9, <1>10, <1>11 DEF Calm

\* The invariant of a step that changes the tokens or the files, from its parts.
LEMMA StepOfParts ==
    ASSUME TokenAssumption, CredentialInv, NEW p \in Processes, NEW wrapper,
           Becomes(p, wrapper), "broken" \notin blame' => LockMove(p, wrapper),
           newest' \in newest .. MaxTokens, issuedTo' \in [Tokens -> 0 .. MaxTokens],
           lapsed' = lapsed, secret' \in 1 .. newest', stored' \in [Tokens -> 0 .. newest'],
           locks' \subseteq Tokens, refused' \subseteq Tokens \X Tokens,
           blame \subseteq blame', blame' \subseteq Kinds, blame' = {} => Calm'
    PROVE  CredentialInv'
<1>1. TypeOK /\ LockInv /\ newest \in 1 .. MaxTokens /\ MaxTokens \in Nat
  BY DEF CredentialInv, TypeOK, Tokens, TokenAssumption
<1>2. ProcTyped'
  BY <1>1, ProcTypedStep
<1>3. newest' \in Tokens
  BY <1>1 DEF Tokens
<1>4. TypeOK'
  BY <1>1, <1>2, <1>3 DEF TypeOK, ProcTyped, Issued
<1>5. LockInv'
  BY <1>1, LockStep
<1>6. QED
  BY <1>4, <1>5 DEF CredentialInv

\* A refresh, whether its answer arrives or not.
LEMMA IssueStep ==
    ASSUME TokenAssumption, CredentialInv, NEW p \in Processes, Refresh(p) \/ AnswerLost(p)
    PROVE  CredentialInv'
<1>1. TypeOK /\ Issue(p)
  BY DEF CredentialInv, Refresh, AnswerLost
<1>2. /\ newest \in Nat /\ newest' = newest + 1 /\ newest' \in Tokens
      /\ issuedTo' \in [Tokens -> 0 .. MaxTokens]
      /\ proc[p].pc = "post" /\ proc[p].token = newest
  BY <1>1, IssueIssues
<1>3. newest' \in newest .. MaxTokens /\ newest \in 1 .. MaxTokens /\ MaxTokens \in Nat
  BY <1>1, <1>2 DEF Tokens, TokenAssumption, TypeOK
<1>4. /\ proc[p] \in Wrappers /\ proc[p].key \in 1 .. newest /\ proc[p].token \in 1 .. newest
      /\ proc[p].key \in Tokens
  BY <1>1, <1>2, HasWrapper
<1>5. /\ lapsed' = lapsed /\ UNCHANGED <<secret, stored, refused>>
      /\ blame \subseteq blame' /\ blame' \subseteq Kinds
      /\ AnswerLost(p) => blame' # {}
  BY <1>1 DEF Refresh, AnswerLost, Mishap, TypeOK, Kinds
<1>6. /\ secret' \in 1 .. newest' /\ stored' \in [Tokens -> 0 .. newest']
      /\ refused' \subseteq Tokens \X Tokens
  <2>1. secret \in 1 .. newest /\ stored \in [Tokens -> 0 .. newest]
    BY <1>1 DEF TypeOK
  <2>2. 0 .. newest \subseteq 0 .. newest' /\ 1 .. newest \subseteq 1 .. newest'
    BY <1>2
  <2>3. QED
    BY <1>1, <1>5, <2>1, <2>2 DEF TypeOK
<1>7. CASE AnswerLost(p)
  <2>1. Leave(p, proc[p].token) /\ proc[p].pc # "idle"
    BY <1>2, <1>7 DEF AnswerLost
  <2>2. PICK wrapper : /\ Becomes(p, wrapper) /\ wrapper.pc = "use"
                       /\ wrapper.holds = FALSE
    BY <1>1, <1>3, <1>4, <2>1, LeaveBecomes
  <2>3. LockMove(p, wrapper) /\ locks' \subseteq Tokens
    BY <1>1, <2>1, <2>2 DEF LockMove, Leave, Holders, Lockless, TypeOK
  <2>4. blame' = {} => Calm'
    BY <1>5, <1>7
  <2>5. QED
    BY <1>2, <1>3, <1>5, <1>6, <2>2, <2>3, <2>4, StepOfParts
<1>8. CASE Refresh(p)
  <2>. DEFINE wrapper == [proc[p] EXCEPT !.token = newest + 1, !.pc = "save"]
  <2>1. proc' = [proc EXCEPT ![p] = wrapper] /\ UNCHANGED <<locks, blame>>
    BY <1>1, <1>8 DEF Refresh, TypeOK
  <2>2. newest + 1 \in 0 .. MaxTokens /\ newest + 1 \in 1 .. newest'
    BY <1>2 DEF Tokens
  <2>3. /\ wrapper \in Wrappers /\ wrapper.pc = "save" /\ wrapper.key = proc[p].key
        /\ wrapper.token = newest + 1 /\ wrapper.holds = proc[p].holds
    BY <1>4, <2>2 DEF Wrappers
  <2>4. proc[p].key \in 1 .. newest'
    BY <1>2, <1>4
  <2>. HIDE DEF wrapper
  <2>5. Becomes(p, wrapper)
    BY <2>1, <2>2, <2>3, <2>4 DEF Becomes
  <2>6. "broken" \notin blame' => LockMove(p, wrapper)
    BY <1>2, <2>1, <2>3, HoldsItsLock, <1>5 DEF LockMove, Holders, Lockless
  <2>7. locks' \subseteq Tokens
    BY <1>1, <2>1 DEF TypeOK
  <2>8. blame' = {} => Calm'
    BY <1>8, <2>1, <2>3, <2>5, RefreshKeepsCalm
  <2>9. QED
    BY <1>2, <1>3, <1>5, <1>6, <2>5, <2>6, <2>7, <2>8, StepOfParts
<1>9. QED
  BY <1>7, <1>8

\* A refusal, and the new token reaching the secret.
LEMMA RefuseStep ==
    ASSUME TokenAssumption, CredentialInv, NEW p \in Processes, Refuse(p) \/ Persist(p)
    PROVE  CredentialInv'
<1>1. /\ TypeOK /\ proc[p].pc \in {"post", "persist"} /\ Leave(p, proc[p].token)
      /\ newest \in 1 .. MaxTokens /\ MaxTokens \in Nat
  BY DEF CredentialInv, Refuse, Persist, At, TypeOK, Tokens, TokenAssumption
<1>2. /\ proc[p] \in Wrappers /\ proc[p].key \in 1 .. newest /\ proc[p].token \in 1 .. newest
      /\ proc[p].key \in Tokens /\ proc[p].token \in Tokens
  BY <1>1, HasWrapper
<1>3. UNCHANGED <<newest, issuedTo, lapsed, blame>>
  BY DEF Refuse, Persist
<1>4. newest' \in newest .. MaxTokens
  BY <1>1, <1>3
<1>5. PICK wrapper : /\ Becomes(p, wrapper) /\ wrapper.pc = "use"
                     /\ wrapper.key = proc[p].key /\ wrapper.token = proc[p].token
                     /\ wrapper.holds = FALSE
  BY <1>1, <1>2, <1>4, LeaveBecomes
<1>6. LockMove(p, wrapper) /\ locks' \subseteq Tokens
  BY <1>1, <1>5 DEF LockMove, Leave, Holders, Lockless, TypeOK
<1>7. /\ secret' \in 1 .. newest' /\ stored' \in [Tokens -> 0 .. newest']
      /\ refused' \subseteq Tokens \X Tokens
  <2>1. secret' \in 1 .. newest'
    BY <1>1, <1>2, <1>3 DEF Refuse, Persist, TypeOK
  <2>2. refused' \subseteq Tokens \X Tokens
    BY <1>1, <1>2 DEF Refuse, Persist, TypeOK
  <2>3. 0 \in 0 .. newest /\ stored \in [Tokens -> 0 .. newest]
    BY <1>1 DEF TypeOK
  <2>4. stored' \in [Tokens -> 0 .. newest]
    BY <2>3 DEF Refuse, Persist
  <2>5. QED
    BY <1>3, <2>1, <2>2, <2>4
<1>8. issuedTo' \in [Tokens -> 0 .. MaxTokens] /\ lapsed' = lapsed
      /\ blame \subseteq blame' /\ blame' \subseteq Kinds
  BY <1>1, <1>3 DEF TypeOK
<1>9. ASSUME blame' = {} PROVE Calm'
  <2>1. blame = {}
    BY <1>3, <1>9
  <2>2. QED
    BY <1>5, <2>1, RefuseKeepsCalm, PersistKeepsCalm
<1>10. QED
  BY <1>4, <1>5, <1>6, <1>7, <1>8, <1>9, StepOfParts

\* The new token reaching its file, or not.
LEMMA SaveStep ==
    ASSUME TokenAssumption, CredentialInv, NEW p \in Processes, Save(p)
    PROVE  CredentialInv'
<1>1. /\ TypeOK /\ proc[p].pc = "save" /\ Goes(p, "persist")
      /\ newest \in 1 .. MaxTokens /\ MaxTokens \in Nat
      /\ stored' = [stored EXCEPT ![proc[p].key] = proc[p].token]
  BY DEF CredentialInv, Save, At, TypeOK, Tokens, TokenAssumption
<1>2. /\ proc[p].token \in 1 .. newest /\ proc[p].key \in Tokens
      /\ proc[p].pc # "idle"
  BY <1>1, HasWrapper
<1>3. UNCHANGED <<newest, issuedTo, lapsed, secret, refused, locks, blame>>
  BY DEF Save
<1>4. newest' = newest
  BY <1>3
<1>5. PICK wrapper : /\ Becomes(p, wrapper) /\ wrapper.pc = "persist"
                     /\ wrapper.key = proc[p].key /\ wrapper.token = proc[p].token
                     /\ wrapper.holds = proc[p].holds
  BY <1>1, <1>2, <1>4, GoesBecomes
<1>6. "broken" \notin blame' => LockMove(p, wrapper)
  BY <1>1, <1>3, <1>5, HoldsItsLock DEF LockMove, Holders, Lockless
<1>7. proc[p].token \in 0 .. newest
  BY <1>1, <1>2
<1>8. stored' \in [Tokens -> 0 .. newest']
  BY <1>1, <1>4, <1>7 DEF TypeOK
<1>9. /\ newest' \in newest .. MaxTokens /\ secret' \in 1 .. newest'
      /\ issuedTo' \in [Tokens -> 0 .. MaxTokens] /\ lapsed' = lapsed
      /\ locks' \subseteq Tokens /\ refused' \subseteq Tokens \X Tokens
      /\ blame \subseteq blame' /\ blame' \subseteq Kinds
  BY <1>1, <1>3 DEF TypeOK
<1>10. ASSUME blame' = {} PROVE Calm'
  <2>1. blame = {}
    BY <1>3, <1>10
  <2>2. QED
    BY <1>5, <2>1, SaveKeepsCalm
<1>11. QED
  BY <1>5, <1>6, <1>8, <1>9, <1>10, StepOfParts

-----------------------------------------------------------------------------
(* The theorem *)

\* The steps of a process that are outside of the refresh.
LEMMA UseStep ==
    ASSUME TokenAssumption, CredentialInv, NEW p \in Processes,
           (\E keep \in BOOLEAN : Use(p, keep)) \/ CooldownEnds(p) \/ SaveFails(p) \/ Crash(p)
    PROVE  CredentialInv'
<1>1. TypeOK
  BY DEF CredentialInv
<1>2. /\ UNCHANGED <<newest, issuedTo, lapsed, secret, stored, refused, locks>>
      /\ blame \subseteq blame' /\ blame' \subseteq Kinds
  BY <1>1 DEF Use, CooldownEnds, SaveFails, Crash, Mishap, TypeOK, Kinds
<1>3. CASE CooldownEnds(p) \/ SaveFails(p) \/ \E keep \in BOOLEAN : Use(p, keep) /\ keep
  <2>1. PICK pc \in {"built", "use", "wait", "cooldown", "persist"} :
           /\ Goes(p, pc) /\ (pc = "persist" <=> proc[p].pc = "save")
           /\ proc[p].pc \in {"use", "cooldown", "save"}
           /\ proc[p].pc = "save" => blame' # {}
    BY <1>3 DEF CooldownEnds, SaveFails, Use, At, Mishap
  <2>2. QED
    BY <1>2, <2>1, GoStep
<1>4. CASE Crash(p) \/ \E keep \in BOOLEAN : Use(p, keep) /\ ~ keep
  <2>1. /\ proc' = [proc EXCEPT ![p] = NoWrapper] /\ proc[p].pc # "idle"
        /\ blame' = {} => proc[p].pc = "use"
    BY <1>4 DEF Crash, Use, At, Mishap
  <2>2. QED
    BY <1>2, <2>1, DropStep
<1>5. QED
  BY <1>3, <1>4

\* The steps of a process that leave the refresh without a token.
LEMMA GiveUpStep ==
    ASSUME TokenAssumption, CredentialInv, NEW p \in Processes,
           RefreshFails(p) \/ PersistFails(p)
    PROVE  CredentialInv'
<1>1. /\ proc[p].pc \in {"locked", "no lock", "post", "persist"} /\ Leave(p, proc[p].token)
      /\ UNCHANGED <<newest, issuedTo, lapsed, secret, stored, refused>>
      /\ blame \subseteq blame' /\ blame' \subseteq Kinds
      /\ proc[p].pc = "persist" => blame' # {}
  BY DEF CredentialInv, TypeOK, RefreshFails, PersistFails, At, Mishap, Kinds
<1>2. QED
  BY <1>1, LeaveStep

\* An access token expires.
LEMMA LapseStep ==
    ASSUME TokenAssumption, CredentialInv, NEW g \in Tokens, Lapse(g)
    PROVE  CredentialInv'
BY DEF CredentialInv, Lapse, TypeOK, LockInv, LockedByHolder, HoldersDiffer, Calm,
       FilesAreLater, TokensAreLater, OnlyIssued, RefusedAreSpent, SavedIsNewest, Unseen,
       PostsStored, SpentIsBehind, Reachable, Explained, RemovedAbove, OnItsWay, At, Reloaded,
       Issued

\* The credentials of a fresh installation.
LEMMA InitInv ==
    ASSUME TokenAssumption, Init
    PROVE  CredentialInv
<1>1. TypeOK
  BY DEF Init, TypeOK, TokenAssumption, Tokens, Wrappers, NoWrapper, Kinds
<1>2. LockInv
  BY DEF Init, LockInv, LockedByHolder, HoldersDiffer, NoWrapper, Holders, Lockless
<1>3. FilesAreLater /\ TokensAreLater /\ OnlyIssued /\ RefusedAreSpent /\ Explained
  BY DEF Init, FilesAreLater, TokensAreLater, OnlyIssued, RefusedAreSpent, Explained, NoWrapper
<1>4. SavedIsNewest /\ Unseen /\ PostsStored
  BY DEF Init, SavedIsNewest, Unseen, PostsStored, OnItsWay, At, NoWrapper
<1>5. SpentIsBehind
  BY DEF Init, SpentIsBehind, Tokens
<1>6. Reachable
  BY DEF Init, Reachable, Reloaded, Tokens, TokenAssumption
<1>7. QED
  BY <1>1, <1>2, <1>3, <1>4, <1>5, <1>6 DEF CredentialInv, Calm

\* The invariant says what is promised of the credentials.
LEMMA InvIsSafe ==
    ASSUME CredentialInv
    PROVE  CredentialsAreSafe
<1>1. RefreshIsExclusive
  <2>1. ASSUME NEW p \in Processes, NEW q \in Processes, p # q, InRefresh(p), InRefresh(q),
               proc[p].key = proc[q].key, "broken" \notin blame
        PROVE  FALSE
    <3>1. proc[p].holds /\ proc[q].holds
      BY <2>1 DEF CredentialInv, LockInv, LockedByHolder, InRefresh, Holders
    <3>2. QED
      BY <2>1, <3>1 DEF CredentialInv, LockInv, HoldersDiffer
  <2>2. QED
    BY <2>1 DEF RefreshIsExclusive
<1>2. RefusalsAreExplained
  BY DEF CredentialInv, Calm, Explained, RemovedAbove, RefusalsAreExplained
<1>3. NewestIsReachable
  BY DEF CredentialInv, Calm, Reachable, SavedIsNewest, OnItsWay, NewestIsReachable
<1>4. QED
  BY <1>1, <1>2, <1>3 DEF CredentialsAreSafe

\* Whatever the processes, the tokens and the mishaps: two processes refresh one key at
\* once only after a lock was taken away; without a mishap a spent token is sent again
\* only for a reason, and the newest token is where a new wrapper will find it.
THEOREM CredentialsSafe ==
    ASSUME TokenAssumption
    PROVE  Spec => []CredentialsAreSafe
<1>1. Init => CredentialInv
  BY InitInv
<1>2. CredentialInv /\ [Next]_tokenVars => CredentialInv'
  <2>1. SUFFICES ASSUME CredentialInv, [Next]_tokenVars PROVE CredentialInv'
    OBVIOUS
  <2>2. CASE UNCHANGED tokenVars
    BY <2>1, <2>2 DEF tokenVars, CredentialInv, TypeOK, LockInv, LockedByHolder, HoldersDiffer,
       Calm, FilesAreLater, TokensAreLater, OnlyIssued, RefusedAreSpent, SavedIsNewest, Unseen,
       PostsStored, SpentIsBehind, Reachable, Explained, RemovedAbove, OnItsWay, At, Reloaded,
       Issued
  <2>3. CASE \E g \in Tokens : Lapse(g)
    BY <2>1, <2>3, LapseStep
  <2>4. ASSUME NEW p \in Processes, Build(p) \/ BuildFromGateway(p) PROVE CredentialInv'
    BY <2>1, <2>4, BuildStep
  <2>5. ASSUME NEW p \in Processes, NEW reload \in BOOLEAN, Check(p, reload) PROVE CredentialInv'
    BY <2>1, <2>5, CheckStep
  <2>6. ASSUME NEW p \in Processes, Lock(p) \/ BreakLock(p) \/ LastTry(p) PROVE CredentialInv'
    BY <2>1, <2>6, WaitSteps
  <2>7. ASSUME NEW p \in Processes, Reload(p) PROVE CredentialInv'
    BY <2>1, <2>7, ReloadStep
  <2>8. ASSUME NEW p \in Processes, Refresh(p) \/ AnswerLost(p) PROVE CredentialInv'
    BY <2>1, <2>8, IssueStep
  <2>9. ASSUME NEW p \in Processes, RefreshFails(p) \/ PersistFails(p) PROVE CredentialInv'
    BY <2>1, <2>9, GiveUpStep
  <2>10. ASSUME NEW p \in Processes, Refuse(p) \/ Persist(p) PROVE CredentialInv'
    BY <2>1, <2>10, RefuseStep
  <2>11. ASSUME NEW p \in Processes, Save(p) PROVE CredentialInv'
    BY <2>1, <2>11, SaveStep
  <2>12. ASSUME NEW p \in Processes,
                (\E keep \in BOOLEAN : Use(p, keep)) \/ CooldownEnds(p) \/ SaveFails(p) \/ Crash(p)
         PROVE  CredentialInv'
    BY <2>1, <2>12, UseStep
  <2>13. QED
    BY <2>1, <2>2, <2>3, <2>4, <2>5, <2>6, <2>7, <2>8, <2>9, <2>10, <2>11, <2>12 DEF Next
<1>3. CredentialInv => CredentialsAreSafe
  BY InvIsSafe
<1>4. QED
  BY <1>1, <1>2, <1>3, PTL DEF Spec
=============================================================================
