--------------------------- MODULE SessionManager ---------------------------
(***************************************************************************)
(* Sessions kept in Redis and the tokens made from them.  A session has    *)
(* an expiry inside its data, fixed when it is created, and the life of    *)
(* its key, which can be extended.  A request reads the data, checks the   *)
(* expiry afterwards, deletes an expired session or is let in, and may     *)
(* make a token then.  Tokens are checked by their own expiry alone, so    *)
(* that they outlive a deleted session and can be refreshed.               *)
(***************************************************************************)
EXTENDS Integers

CONSTANTS Sessions, Requests, SessionTTL, TokenLife

Nobody == "nobody"

SessionAssumption == /\ SessionTTL \in Nat \ {0} /\ TokenLife \in Nat \ {0}
                     /\ Nobody \notin Sessions

VARIABLES
    created,  \* the sessions that were created
    key,      \* the remaining life of the session's key, 0 if there is none
    left,     \* the time to expires_at, -1 when it has passed
    token,    \* the remaining life of the last token of the session, 0 if none
    reading   \* the sessions whose data each request has read

vars == <<created, key, left, token, reading>>

Init ==
    /\ created = {}
    /\ key = [s \in Sessions |-> 0]
    /\ left = [s \in Sessions |-> -1]
    /\ token = [s \in Sessions |-> 0]
    /\ reading = [q \in Requests |-> Nobody]

CreateSession(s) ==
    /\ s \notin created
    /\ created' = created \cup {s}
    /\ key' = [key EXCEPT ![s] = SessionTTL]
    /\ left' = [left EXCEPT ![s] = SessionTTL]
    /\ UNCHANGED <<token, reading>>

\* Mutant: the key is written again, whether it exists or not.
Rewritten(s, life) == life
Expire(s, life) == IF key[s] > 0 THEN life ELSE 0

\* extend_session gives the key a new life, long or short, if it exists; the
\* expiry in the data stays.
ExtendSession(s) ==
    /\ s \in created
    /\ \E life \in 1..SessionTTL : key' = [key EXCEPT ![s] = Expire(s, life)]
    /\ UNCHANGED <<created, left, token, reading>>

DeleteSession(s) ==
    /\ s \in created
    /\ key' = [key EXCEPT ![s] = 0]
    /\ UNCHANGED <<created, left, token, reading>>

GetSession(q, s) ==
    /\ reading[q] = Nobody /\ key[s] > 0
    /\ reading' = [reading EXCEPT ![q] = s]
    /\ UNCHANGED <<created, key, left, token>>

\* validate_session behind its read, and a token for whom it lets in.
EndRequest(q) ==
    LET s == reading[q] IN
    /\ s # Nobody
    /\ reading' = [reading EXCEPT ![q] = Nobody]
    /\ IF left[s] < 0
       THEN key' = [key EXCEPT ![s] = 0] /\ UNCHANGED token
       ELSE /\ UNCHANGED key
            /\ \E life \in {token[s], TokenLife} : token' = [token EXCEPT ![s] = life]
    /\ UNCHANGED <<created, left>>

RefreshToken(s) ==
    /\ token[s] > 0
    /\ token' = [token EXCEPT ![s] = TokenLife]
    /\ UNCHANGED <<created, key, left, reading>>

Tick ==
    /\ key' = [s \in Sessions |-> IF key[s] > 0 THEN key[s] - 1 ELSE 0]
    /\ left' = [s \in Sessions |-> IF left[s] >= 0 THEN left[s] - 1 ELSE -1]
    /\ token' = [s \in Sessions |-> IF token[s] > 0 THEN token[s] - 1 ELSE 0]
    /\ UNCHANGED <<created, reading>>

Next ==
    \/ \E s \in Sessions : CreateSession(s)
    \/ \E s \in Sessions : ExtendSession(s)
    \/ \E s \in Sessions : DeleteSession(s)
    \/ \E q \in Requests, s \in Sessions : GetSession(q, s)
    \/ \E q \in Requests : EndRequest(q)
    \/ \E s \in Sessions : RefreshToken(s)
    \/ Tick

Spec == Init /\ [][Next]_vars

-----------------------------------------------------------------------------
\* There is a way in: the session, a token of it, or a request that has read
\* the session.
Access(s) == \/ key[s] > 0 /\ left[s] >= 0
             \/ token[s] > 0
             \/ \E q \in Requests : reading[q] = s /\ left[s] >= 0

\* When a session has ended, its last token has expired and no request still
\* holds what it read of it, there is no way back in: extending, refreshing and
\* late requests revive nothing.
EndedForGood == [][\A s \in created : ~Access(s) => ~Access(s)']_vars
=============================================================================
