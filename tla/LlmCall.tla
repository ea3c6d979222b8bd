------------------------------- MODULE LlmCall -------------------------------
(***************************************************************************)
(* How an agent gets an answer of a language model: the profiles are       *)
(* listed and fetched, a wrapper is made of them, its profiles are asked   *)
(* in turn, and the answer is parsed; an agent that gets nothing goes on   *)
(* without, unless its run insists (agents/llm_wrapper.py and the agents   *)
(* code_generator, specification_writer, test_generator, review_agent).    *)
(*                                                                         *)
(* Of a profile only this matters: whether its provider is qwen-code, and  *)
(* whether its key comes by a reference to a secret ("ref"), by a          *)
(* reference to a secret that is gone ("dangling"), or from the            *)
(* environment ("env").                                                    *)
(***************************************************************************)
EXTENDS Naturals, Sequences, FiniteSets, Functions

CONSTANTS Profiles,       \* 1..n, in the order of the listing
          Attempts,       \* tries of one profile (max_retries)
          MaxChanges      \* outages of the gateway and removals of profiles

CallAssumption ==
    /\ Attempts \in Nat \ {0} /\ MaxChanges \in Nat
    /\ IsFiniteSet(Profiles) /\ Profiles \subseteq Nat \ {0}

VARIABLES provider, keyOf, default, local,   \* the configuration
          repairs, strict,                   \* the agent and its run
          present, gateway, changes,         \* what changes meanwhile
          pc, source, order, fetched, candidates, index, attempt, prompt,
          asked, unparsed, outcome           \* the call

configuration == <<provider, keyOf, default, local, repairs, strict>>
callVars == <<pc, source, order, fetched, candidates, index, attempt, prompt, asked,
              unparsed, outcome>>
llmVars == <<configuration, present, gateway, changes, callVars>>

Init ==
    /\ provider \in [Profiles -> {"api", "qwen-code"}]
    /\ keyOf \in [Profiles -> {"ref", "dangling", "env"}]
    /\ default \in Profiles \cup {0}
    /\ local \in BOOLEAN /\ repairs \in BOOLEAN /\ strict \in BOOLEAN
    /\ present \in SUBSET Profiles
    /\ gateway \in BOOLEAN
    /\ changes = 0
    /\ pc = "list" /\ source = "none" /\ order = <<>> /\ fetched = 0
    /\ candidates = <<>> /\ index = 1 /\ attempt = 1 /\ prompt = 1
    /\ asked = <<>> /\ unparsed = FALSE /\ outcome = "none"

-----------------------------------------------------------------------------
(* Meanwhile.                                                              *)

Change == changes < MaxChanges /\ changes' = changes + 1

GatewayChanges ==
    /\ Change /\ gateway' = ~gateway
    /\ UNCHANGED <<configuration, present, callVars>>

ProfileRemoved(p) ==
    /\ Change /\ p \in present /\ present' = present \ {p}
    /\ UNCHANGED <<configuration, gateway, callVars>>

-----------------------------------------------------------------------------
(* Listing and fetching.                                                   *)

\* The default profile comes first, then the others as listed.
First ==
    IF default \in present THEN default
    ELSE CHOOSE p \in present : \A q \in present : p <= q

DefaultFirst(s) ==
    /\ s[1] = First /\ IsInjective(s)
    /\ \A i, k \in DOMAIN s : 1 < i /\ i < k => s[i] < s[k]

Listings == {s \in [1 .. Cardinality(present) -> present] : DefaultFirst(s)}

\* The gateway is asked; the local store answers when it cannot.
List ==
    /\ pc = "list" /\ pc' = "fetch"
    /\ source' = IF gateway /\ present # {} THEN "gateway"
                 ELSE IF local THEN "local" ELSE "none"
    /\ IF source' = "none" \/ present = {} THEN order' = <<>> ELSE order' \in Listings
    /\ UNCHANGED <<configuration, present, gateway, changes, fetched, candidates,
                   index, attempt, prompt, asked, unparsed, outcome>>

CanFetch(p) == p \in present /\ (source = "gateway" => gateway)

\* Each listed profile is fetched by a request of its own, from where the list
\* came from; one that cannot be fetched is passed over.
Fetch ==
    /\ pc = "fetch" /\ fetched < Len(order)
    /\ fetched' = fetched + 1
    /\ candidates' = IF CanFetch(order[fetched + 1])
                        THEN Append(candidates, order[fetched + 1])
                        ELSE candidates
    /\ UNCHANGED <<configuration, present, gateway, changes, pc, source, order, index,
                   attempt, prompt, asked, unparsed, outcome>>

\* A wrapper of one profile, outside the fallback, takes the key reference as an
\* argument, which no class but that of qwen-code has: the call raises.
Buildable(p) ==
    IF provider[p] = "qwen-code" THEN keyOf[p] = "ref" ELSE keyOf[p] = "env"

\* In the fallback a key that is missing shows when the profile is asked.
Usable(p) ==
    IF provider[p] = "qwen-code" THEN keyOf[p] = "ref" ELSE keyOf[p] # "dangling"

\* With no candidate the default profile is looked for once more.
LastResort ==
    IF gateway /\ present # {} THEN <<First>>
    ELSE IF local /\ default \in present THEN <<default>>
    ELSE <<>>

Choose ==
    LET chosen == IF candidates = <<>> THEN LastResort ELSE candidates
    IN  /\ pc = "fetch" /\ fetched = Len(order)
        /\ candidates' = chosen
        /\ pc' = IF Len(chosen) > 1 \/ (Len(chosen) = 1 /\ Buildable(chosen[1]))
                    THEN "ask" ELSE "settle"
        /\ UNCHANGED <<configuration, present, gateway, changes, source, order, fetched,
                       index, attempt, prompt, asked, unparsed, outcome>>

-----------------------------------------------------------------------------
(* Asking.                                                                 *)

\* What a wrapper without fallback would do.
GivesUp == "settle"

\* The first profile that answers ends the round; a failure leads to the next.
AfterFailure == IF index < Len(candidates) THEN "ask" ELSE "settle"

Note(how) == asked' = Append(asked, <<candidates[index], how>>)

\* No key, an error that is not retried, or nothing in the answer.
Fails ==
    /\ pc = "ask" /\ pc' = AfterFailure
    /\ Note("failed")
    /\ index' = index + 1 /\ attempt' = 1
    /\ UNCHANGED <<configuration, present, gateway, changes, source, order, fetched,
                   candidates, prompt, unparsed, outcome>>

\* A timeout, a reset connection or a busy server is tried again for a while.
Retry ==
    /\ pc = "ask" /\ Usable(candidates[index]) /\ attempt < Attempts
    /\ attempt' = attempt + 1
    /\ UNCHANGED <<configuration, present, gateway, changes, pc, source, order, fetched,
                   candidates, index, prompt, asked, unparsed, outcome>>

Answers ==
    /\ pc = "ask" /\ Usable(candidates[index])
    /\ pc' = "parse"
    /\ Note("answered")
    /\ UNCHANGED <<configuration, present, gateway, changes, source, order, fetched,
                   candidates, index, attempt, prompt, unparsed, outcome>>

Parsed ==
    /\ pc = "parse" /\ pc' = "settle"
    /\ outcome' = "llm"
    /\ UNCHANGED <<configuration, present, gateway, changes, source, order, fetched,
                   candidates, index, attempt, prompt, asked, unparsed>>

\* The code generator asks once more, from the first profile on, to have the
\* answer put into form; no agent asks the next profile for a better one.
Unparsed ==
    /\ pc = "parse"
    /\ unparsed' = TRUE
    /\ IF repairs /\ prompt = 1
          THEN pc' = "ask" /\ prompt' = 2 /\ index' = 1 /\ attempt' = 1
          ELSE pc' = "settle" /\ UNCHANGED <<prompt, index, attempt>>
    /\ UNCHANGED <<configuration, present, gateway, changes, source, order, fetched,
                   candidates, asked, outcome>>

\* Without an answer the agent fails where its run insists, and falls back on
\* its own rules where it does not.
Settle ==
    /\ pc = "settle" /\ pc' = "done"
    /\ outcome' = IF outcome = "llm" THEN "llm"
                  ELSE IF strict THEN "failed" ELSE "deterministic"
    /\ UNCHANGED <<configuration, present, gateway, changes, source, order, fetched,
                   candidates, index, attempt, prompt, asked, unparsed>>

Next ==
    \/ GatewayChanges
    \/ \E p \in Profiles : ProfileRemoved(p)
    \/ List \/ Fetch \/ Choose \/ Fails \/ Retry \/ Answers \/ Parsed \/ Unparsed
    \/ Settle

Spec == Init /\ [][Next]_llmVars

-----------------------------------------------------------------------------
Asked(p) == \E i \in DOMAIN asked : asked[i][1] = p

\* Whoever is asked, every profile before it in the order was asked first, or
\* could not be fetched (llm_wrapper.py:1405, 1426, 1185).
AskedInOrder ==
    \A i \in DOMAIN order, j \in DOMAIN order :
        i < j /\ Asked(order[j]) =>
            Asked(order[i]) \/ ~\E c \in DOMAIN candidates : candidates[c] = order[i]

\* A step ends without an answer of a model only when every profile that was
\* fetched was asked, when an answer came that could not be parsed, or when
\* the one profile there was could not be made into a wrapper
\* (llm_wrapper.py:1183, 1461; code_generator.py:208).
NoAnswerHasAReason ==
    pc = "done" /\ outcome # "llm" =>
        \/ unparsed
        \/ \A i \in DOMAIN candidates : Asked(candidates[i])
        \/ Len(candidates) = 1 /\ ~Buildable(candidates[1])

\* The profiles are asked in order until one answers.
ProfilesAreTried == AskedInOrder /\ NoAnswerHasAReason
=============================================================================
