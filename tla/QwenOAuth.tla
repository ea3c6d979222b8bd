----------------------------- MODULE QwenOAuth -----------------------------
(***************************************************************************)
(* OAuth credentials that several processes share and refresh              *)
(* (agents/qwen_oauth_token_manager.py, agents/llm_wrapper.py).            *)
(*                                                                         *)
(* The issuer numbers its tokens: a refresh spends refresh token g and     *)
(* issues token g + 1, an access and a refresh token together.  A process  *)
(* keeps what it got in a credentials file and in the secret store; the    *)
(* file and its lock are named after the refresh token the process was     *)
(* built from, its key, which every refresh leaves behind.                 *)
(***************************************************************************)
EXTENDS Naturals, FiniteSets

CONSTANTS Processes,     \* the processes that share the storage directory
          MaxTokens,     \* tokens the issuer issues
          MaxMishaps     \* crashes, lost answers, failed saves, outages, slow locks

TokenAssumption == MaxTokens \in Nat \ {0} /\ MaxMishaps \in Nat

VARIABLES newest,     \* the last token issued, the only one not spent
          issuedTo,   \* token -> the key of the process that got it
          lapsed,     \* tokens whose access token has expired
          secret,     \* the token in the local secret store
          stored,     \* key -> the token in its credentials file, 0 when there is none
          locks,      \* the keys whose lock file exists
          proc,       \* process -> where it is, its key and its token
          refused,    \* <<key, token>> that the issuer refused to refresh
          blame       \* the mishaps so far

tokenVars == <<newest, issuedTo, lapsed, secret, stored, locks, proc, refused, blame>>

Tokens == 1..MaxTokens
NoWrapper == [pc |-> "idle", key |-> 0, token |-> 0, holds |-> FALSE]

Init ==
    /\ newest = 1
    /\ issuedTo = [g \in Tokens |-> 0]
    /\ lapsed = {}
    /\ secret = 1
    /\ stored = [k \in Tokens |-> 0]
    /\ locks = {}
    /\ proc = [p \in Processes |-> NoWrapper]
    /\ refused = {}
    /\ blame = {}

At(p, pc) == proc[p].pc = pc
Goes(p, pc) == proc' = [proc EXCEPT ![p].pc = pc]
Takes(p) == proc' = [proc EXCEPT ![p].pc = "locked", ![p].holds = TRUE]

\* A mishap of one kind; the kinds are bounded together.
Mishap(kind) == Cardinality(blame) < MaxMishaps /\ blame' = blame \cup {kind}

\* The token a forced reload leaves a process of key k with: the file's, if
\* there is one, whatever it held before.
Reloaded(k, token) == IF stored[k] = 0 THEN token ELSE stored[k]

IsValid(token) == token \notin lapsed

-----------------------------------------------------------------------------
(* Building a wrapper and asking it for valid credentials.                 *)

\* The secret is read and the credentials file of its key, if any, goes first.
BuildFrom(p, token) ==
    /\ At(p, "idle")
    /\ proc' = [proc EXCEPT ![p] =
          [NoWrapper EXCEPT !.pc = "built", !.key = token,
                            !.token = Reloaded(token, token)]]

Build(p) ==
    /\ BuildFrom(p, secret)
    /\ UNCHANGED <<newest, issuedTo, lapsed, secret, stored, locks, refused, blame>>

\* The gateway of another host answers with the secret as it was first entered,
\* and the local store takes that value over.
BuildFromGateway(p) ==
    /\ secret # 1
    /\ Mishap("reverted")
    /\ BuildFrom(p, 1)
    /\ secret' = 1
    /\ UNCHANGED <<newest, issuedTo, lapsed, stored, locks, refused>>

\* A look at what the process holds, or, after the check interval, at the file.
Check(p, reload) ==
    LET token == IF reload THEN Reloaded(proc[p].key, proc[p].token)
                 ELSE proc[p].token
    IN  /\ At(p, "built")
        /\ proc' = [proc EXCEPT ![p].token = token,
                                ![p].pc = IF IsValid(token) THEN "use" ELSE "wait"]
        /\ UNCHANGED <<newest, issuedTo, lapsed, secret, stored, locks, refused, blame>>

\* What two processes that do not wait for each other would do.
LockAnyway(p) ==
    /\ At(p, "wait")
    /\ locks' = locks \cup {proc[p].key}
    /\ Takes(p)
    /\ UNCHANGED <<newest, issuedTo, lapsed, secret, stored, refused, blame>>

\* The lock file is created by one process alone.
Lock(p) ==
    /\ At(p, "wait") /\ proc[p].key \notin locks
    /\ locks' = locks \cup {proc[p].key}
    /\ Takes(p)
    /\ UNCHANGED <<newest, issuedTo, lapsed, secret, stored, refused, blame>>

\* A waiter that gives up removes the lock file, its holder alive or not, ...
BreakLock(p) ==
    /\ At(p, "wait") /\ proc[p].key \in locks
    /\ Mishap("broken")
    /\ locks' = locks \ {proc[p].key}
    /\ Goes(p, "last try")
    /\ UNCHANGED <<newest, issuedTo, lapsed, secret, stored, refused>>

\* ... tries once more, and goes on without it when another process was faster.
LastTry(p) ==
    /\ At(p, "last try")
    /\ locks' = locks \cup {proc[p].key}
    /\ IF proc[p].key \in locks THEN Goes(p, "no lock") ELSE Takes(p)
    /\ UNCHANGED <<newest, issuedTo, lapsed, secret, stored, refused, blame>>

-----------------------------------------------------------------------------
(* The refresh.                                                            *)

\* The lock file is removed on the way out, whoever made it by then.
Leave(p, token) ==
    /\ locks' = IF proc[p].holds THEN locks \ {proc[p].key} ELSE locks
    /\ proc' = [proc EXCEPT ![p].pc = "use", ![p].token = token, ![p].holds = FALSE]

\* Under the lock the file is read again: another process may have refreshed.
Reload(p) ==
    LET token == Reloaded(proc[p].key, proc[p].token)
    IN  /\ proc[p].pc \in {"locked", "no lock"}
        /\ IF IsValid(token)
              THEN Leave(p, token)
              ELSE /\ proc' = [proc EXCEPT ![p].token = token, ![p].pc = "post"]
                   /\ UNCHANGED locks
        /\ UNCHANGED <<newest, issuedTo, lapsed, secret, stored, refused, blame>>

\* The issuer takes the newest token and issues the next.
Issue(p) ==
    /\ At(p, "post") /\ proc[p].token = newest /\ newest < MaxTokens
    /\ newest' = newest + 1
    /\ issuedTo' = [issuedTo EXCEPT ![newest + 1] = proc[p].key]

Refresh(p) ==
    /\ Issue(p)
    /\ proc' = [proc EXCEPT ![p].token = newest + 1, ![p].pc = "save"]
    /\ UNCHANGED <<lapsed, secret, stored, locks, refused, blame>>

\* The issuer cannot be reached, or answers with an error: no token is spent.
RefreshFails(p) ==
    /\ At(p, "post")
    /\ Leave(p, proc[p].token)
    /\ UNCHANGED <<newest, issuedTo, lapsed, secret, stored, refused, blame>>

\* The answer does not arrive: the process keeps the token that is now spent.
AnswerLost(p) ==
    /\ Issue(p)
    /\ Mishap("lost")
    /\ Leave(p, proc[p].token)
    /\ UNCHANGED <<lapsed, secret, stored, refused>>

\* A spent token is refused: the credentials file is removed.
Refuse(p) ==
    /\ At(p, "post") /\ proc[p].token # newest
    /\ refused' = refused \cup {<<proc[p].key, proc[p].token>>}
    /\ stored' = [stored EXCEPT ![proc[p].key] = 0]
    /\ Leave(p, proc[p].token)
    /\ UNCHANGED <<newest, issuedTo, lapsed, secret, blame>>

\* The file first, then the secret; a failure of either is only logged.
Save(p) ==
    /\ At(p, "save")
    /\ stored' = [stored EXCEPT ![proc[p].key] = proc[p].token]
    /\ Goes(p, "persist")
    /\ UNCHANGED <<newest, issuedTo, lapsed, secret, locks, refused, blame>>

SaveFails(p) ==
    /\ At(p, "save")
    /\ Mishap("unsaved")
    /\ Goes(p, "persist")
    /\ UNCHANGED <<newest, issuedTo, lapsed, secret, stored, locks, refused>>

Persist(p) ==
    /\ At(p, "persist")
    /\ secret' = proc[p].token
    /\ Leave(p, proc[p].token)
    /\ UNCHANGED <<newest, issuedTo, lapsed, stored, refused, blame>>

PersistFails(p) ==
    /\ At(p, "persist")
    /\ Mishap("unsaved")
    /\ Leave(p, proc[p].token)
    /\ UNCHANGED <<newest, issuedTo, lapsed, secret, stored, refused>>

-----------------------------------------------------------------------------
(* Using the credentials.                                                  *)

\* The call is made with the access token at hand, expired or not; the wrapper
\* is kept for the next call, or dropped.
Use(p, keep) ==
    /\ At(p, "use")
    /\ IF keep
          THEN Goes(p, IF IsValid(proc[p].token) THEN "built" ELSE "cooldown")
          ELSE proc' = [proc EXCEPT ![p] = NoWrapper]
    /\ UNCHANGED <<newest, issuedTo, lapsed, secret, stored, locks, refused, blame>>

\* After a refusal of its access token a wrapper refuses calls for a while.
CooldownEnds(p) ==
    /\ At(p, "cooldown")
    /\ Goes(p, "built")
    /\ UNCHANGED <<newest, issuedTo, lapsed, secret, stored, locks, refused, blame>>

\* An access token expires.
Lapse(g) ==
    /\ g <= newest /\ g \notin lapsed
    /\ lapsed' = lapsed \cup {g}
    /\ UNCHANGED <<newest, issuedTo, secret, stored, locks, proc, refused, blame>>

\* A process dies; its lock file stays.
Crash(p) ==
    /\ proc[p].pc \in {"locked", "post", "save", "persist"}
    /\ Mishap("crashed")
    /\ proc' = [proc EXCEPT ![p] = NoWrapper]
    /\ UNCHANGED <<newest, issuedTo, lapsed, secret, stored, locks, refused>>

Next ==
    \/ \E g \in Tokens : Lapse(g)
    \/ \E p \in Processes :
          \/ Build(p) \/ BuildFromGateway(p)
          \/ \E reload \in BOOLEAN : Check(p, reload)
          \/ Lock(p) \/ BreakLock(p) \/ LastTry(p) \/ Reload(p)
          \/ Refresh(p) \/ RefreshFails(p) \/ AnswerLost(p) \/ Refuse(p)
          \/ Save(p) \/ SaveFails(p) \/ Persist(p) \/ PersistFails(p)
          \/ \E keep \in BOOLEAN : Use(p, keep)
          \/ CooldownEnds(p) \/ Crash(p)

Spec == Init /\ [][Next]_tokenVars

-----------------------------------------------------------------------------
InRefresh(p) == proc[p].pc \in {"post", "save", "persist"}

\* Two processes of one key refresh at once only after a lock was taken away
\* from its holder (qwen_oauth_token_manager.py:159, 187).
RefreshIsExclusive ==
    \A p, q \in Processes :
        p # q /\ InRefresh(p) /\ InRefresh(q) /\ proc[p].key = proc[q].key =>
            "broken" \in blame

\* A spent token is sent again only when it was spent under another key, when
\* that happened to a later token of this key, so that its refusal removed the
\* key's file, or after a mishap (qwen_oauth_token_manager.py:48, 205, 288).
RefusalsAreExplained ==
    \A r \in refused :
        \/ issuedTo[r[2] + 1] # r[1]
        \/ \E q \in refused : q[1] = r[1] /\ q[2] > r[2] /\ issuedTo[q[2] + 1] # q[1]
        \/ blame # {}

\* The newest token is where a new wrapper will find it, or on its way there,
\* unless a mishap came between (qwen_oauth_token_manager.py:207-217).
NewestIsReachable ==
    \/ Reloaded(secret, secret) = newest
    \/ \E p \in Processes : proc[p].pc \in {"save", "persist"} /\ proc[p].token = newest
    \/ blame # {}

\* Shared credentials are refreshed by one, once, and not lost.
CredentialsAreSafe ==
    RefreshIsExclusive /\ RefusalsAreExplained /\ NewestIsReachable
=============================================================================
