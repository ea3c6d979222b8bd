----------------------------- MODULE ModelStream -----------------------------
(***************************************************************************)
(* Answers that language models send piece by piece                        *)
(* (agents/llm_providers.py, llm_wrapper.py, llm_api.py, cli/llm_cli.py).  *)
(*                                                                         *)
(* A caller chooses a provider, a router chooses one for its task, or a    *)
(* list of profiles is tried in turn.  The handler of the provider reads   *)
(* the pieces of its stream and hands on chunks of one form: text, a tool  *)
(* call, a report of usage.  What it does with each kind of piece is here; *)
(* what the text says is not.  Lists of profiles and how one is built are  *)
(* in LlmCall, credentials that are refreshed in QwenOAuth.                *)
(***************************************************************************)
EXTENDS Naturals, Sequences, FiniteSets

CONSTANTS MaxProfiles,  \* bound: profiles of the list
          MaxPieces,    \* bound: pieces a provider sends in one stream
          MaxTurns      \* bound: questions of a chat

VARIABLES request,  \* who asks which providers, with which secrets
          at,       \* the place of the one that is being read
          phase,
          sent,     \* the pieces its stream has brought
          got,      \* the chunks the caller has been handed, with their place
          broken,   \* the places whose stream failed
          outcome,
          turns

vars == <<request, at, phase, sent, got, broken, outcome, turns>>

(***************************************************************************)
(* The handlers.  "key" says when a secret that is missing is noticed: as  *)
(* the handler is built, as it is used, or never ("none").  A piece maps   *)
(* to the chunks it yields, to Fails or to Stops.                          *)
(*   text, tool   a part of the answer; a tool call begins                 *)
(*   part         more of the arguments of the tool call                   *)
(*   usage        counts beside a part of the answer                       *)
(*   detailed     the same, with details that are an object                *)
(*   tail         counts in a last piece, outside of the answer            *)
(*   done         the last piece of Ollama, with its counts                *)
(*   noise        a line that is no JSON          thought   reasoning      *)
(***************************************************************************)
Fails == <<"fails">>
Stops == <<"stops">>

\* What the client of OpenAI sends, and what most handlers make of it.
Choice == [e \in {"text", "tool", "part", "usage", "detailed", "tail"} |->
    CASE e = "text"                  -> <<"text">>
      [] e \in {"tool", "part"}      -> <<"tool">>
      [] e \in {"usage", "detailed"} -> <<"usage">>
      [] e = "tail"                  -> <<>>]
\* Two handlers ask the details for .get, which an object does not have.
AsksDetails == [Choice EXCEPT !["detailed"] = Fails]
OnlyText(pieces) == [e \in pieces |-> IF e = "text" THEN <<"text">> ELSE <<>>]

Built(chunk) == [key |-> "built", chunk |-> chunk]

OpenAIWrapper == [key |-> "used", chunk |-> AsksDetails]
\* The arguments of a tool call are taken as it begins, when there are none yet.
AnthropicWrapper == [key |-> "used", chunk |->
    [e \in {"text", "tool", "part", "usage", "tail"} |->
        IF e \in {"part", "tail"} THEN <<>> ELSE <<e>>]]
GoogleGenAIWrapper == [key |-> "used", chunk |-> OnlyText({"text", "tail"})]
OllamaHandler == [key |-> "none", chunk |->
    [e \in {"text", "tool", "usage", "noise", "done"} |->
        CASE e = "done" -> Stops [] e = "noise" -> <<>> [] OTHER -> <<e>>]]
\* create_subprocess_exec takes no text=True.
ClaudeCodeHandler == [key |-> "refused", chunk |->
    [e \in {"text", "tool", "thought", "usage"} |-> <<e>>]]
\* Every piece has usage_metadata, and .text of a tool call raises.
GeminiHandler == Built([e \in {"text", "tool", "tail"} |->
    CASE e = "text" -> <<"text", "usage">>
      [] e = "tail" -> <<"usage">>
      [] e = "tool" -> Fails])
OpenRouterHandler == Built(Choice)
AwsBedrockHandler == Built([e \in {"text", "tool", "part", "usage", "tail"} |->
    IF e \in {"text", "usage"} THEN <<e>> ELSE <<>>])
VertexHandler == [GeminiHandler EXCEPT !.key = "both"]
LmStudioHandler == [key |-> "none", chunk |->
    [e \in DOMAIN Choice \cup {"noise"} |-> IF e = "noise" THEN <<>> ELSE Choice[e]]]
DeepSeekHandler == Built(AsksDetails)
FireworksHandler == Built(Choice)
TogetherHandler == Built(Choice)
QwenHandler == Built(Choice)
QwenCodeHandler == Built(Choice)
MistralHandler == Built(Choice)
HuggingFaceHandler == Built(OnlyText({"text", "noise"}))
LiteLlmHandler == [key |-> "none", chunk |-> Choice]
MoonshotHandler == Built(Choice)
GroqHandler == Built(Choice)

ApiProvider == {"openai", "anthropic", "google", "ollama", "gemini", "openrouter",
    "bedrock", "vertex", "lmstudio", "deepseek", "fireworks", "together", "qwen",
    "qwen-code", "mistral", "huggingface", "litellm", "moonshot", "groq", "claude_code"}

_create_handler == [p \in ApiProvider |->
    CASE p = "openai"      -> OpenAIWrapper
      [] p = "anthropic"   -> AnthropicWrapper
      [] p = "google"      -> GoogleGenAIWrapper
      [] p = "ollama"      -> OllamaHandler
      [] p = "gemini"      -> GeminiHandler
      [] p = "openrouter"  -> OpenRouterHandler
      [] p = "bedrock"     -> AwsBedrockHandler
      [] p = "vertex"      -> VertexHandler
      [] p = "lmstudio"    -> LmStudioHandler
      [] p = "deepseek"    -> DeepSeekHandler
      [] p = "fireworks"   -> FireworksHandler
      [] p = "together"    -> TogetherHandler
      [] p = "qwen"        -> QwenHandler
      [] p = "qwen-code"   -> QwenCodeHandler
      [] p = "mistral"     -> MistralHandler
      [] p = "huggingface" -> HuggingFaceHandler
      [] p = "litellm"     -> LiteLlmHandler
      [] p = "moonshot"    -> MoonshotHandler
      [] p = "groq"        -> GroqHandler
      [] p = "claude_code" -> ClaudeCodeHandler]

\* complete_stream of the wrappers that profiles are built with: text and no more.
OpenAITextStream == OnlyText({"text", "tail"})
AnthropicTextStream == OnlyText({"text", "thought", "tail"})
GoogleTextStream == OnlyText({"text", "tail"})
QwenCodeTextStream == OnlyText({"text", "tail"})
TextStream == [p \in {"openai", "qwen", "anthropic", "google", "qwen-code"} |->
    CASE p \in {"openai", "qwen"} -> OpenAITextStream
      [] p = "anthropic"          -> AnthropicTextStream
      [] p = "google"             -> GoogleTextStream
      [] p = "qwen-code"          -> QwenCodeTextStream]

Provider == request.order[at]
TextAlone == request.caller \in {"profiles", "text"}
Yields == IF TextAlone THEN TextStream[Provider] ELSE _create_handler[Provider].chunk

\* Can the handler be built, and its stream be asked for, with these secrets?
CanBuild(p, secrets) ==
    /\ _create_handler[p].key = "built" => "key" \in secrets
    /\ _create_handler[p].key = "both" => "project" \in secrets
CanOpen ==
    request.caller # "profiles" =>
        /\ _create_handler[Provider].key # "refused"
        /\ _create_handler[Provider].key \in {"used", "both"} => "key" \in request.secrets

(***************************************************************************)
(* Who is asked.                                                           *)
(***************************************************************************)
fallback_order == <<"openai", "anthropic", "google", "openrouter", "gemini">>
task_routes == [spec     |-> <<"google", "gemini", "openai">>,
                code     |-> <<"openai", "anthropic", "gemini">>,
                analysis |-> <<"anthropic", "openai", "google">>,
                review   |-> <<"anthropic", "openai", "google">>,
                refactor |-> <<"openai", "google", "gemini">>]

SecretsOf(p, keyed) == IF p \in keyed THEN {"key"} ELSE {}
\* What a router looks through, best first, and the places in it of the registered
\* providers whose handlers can be built.
Listed(preferred) == preferred \o fallback_order
Routes(preferred, registered, keyed) ==
    {i \in DOMAIN Listed(preferred) :
        LET p == Listed(preferred)[i] IN p \in registered /\ CanBuild(p, SecretsOf(p, keyed))}
First(places) == CHOOSE i \in places : \A j \in places : i <= j

Nobody == [caller |-> "nobody", order |-> <<>>, secrets |-> {}, spare |-> FALSE]

Init ==
    /\ request = Nobody /\ at = 1 /\ phase = "choose" /\ sent = <<>> /\ got = <<>>
    /\ broken = {} /\ outcome = "none" /\ turns = 1

Ask(caller, order, secrets, spare) ==
    /\ request' = [caller |-> caller, order |-> order, secrets |-> secrets, spare |-> spare]
    /\ phase' = "open"
    /\ UNCHANGED <<at, sent, got, broken, outcome, turns>>

\* No handler: an error before any stream.
Refuse(caller) ==
    /\ request' = [Nobody EXCEPT !.caller = caller]
    /\ phase' = "over" /\ outcome' = "failed"
    /\ UNCHANGED <<at, sent, got, broken, turns>>

\* A command names its provider...
Command(caller, p, secrets) ==
    /\ phase = "choose"
    /\ IF CanBuild(p, secrets) THEN Ask(caller, <<p>>, secrets, FALSE) ELSE Refuse(caller)
\* ...or takes the first of three whose key is in the environment, or Ollama.
CommandByKeys(caller, keyed) ==
    /\ phase = "choose"
    /\ LET order == <<"openai", "anthropic", "google">>
           able == {i \in 1..3 : order[i] \in keyed}
       IN IF able = {} THEN Ask(caller, <<"ollama">>, {}, FALSE)
                       ELSE Ask(caller, <<order[First(able)]>>, {"key"}, FALSE)

\* complete_stream of the unified interface: its other half is a wrapper, which most
\* providers do not have.
CompleteStream(p, secrets) ==
    /\ phase = "choose"
    /\ IF CanBuild(p, secrets) /\ p \in DOMAIN TextStream
          THEN Ask("text", <<p>>, secrets, FALSE) ELSE Refuse("text")

\* A task goes to the first route: a router asks once, and has no second choice
\* when the stream fails.
RouteTask(preferred, registered, keyed) ==
    /\ phase = "choose"
    /\ LET routes == Routes(preferred, registered, keyed)
           chosen == Listed(preferred)[First(routes)]
       IN IF routes = {} THEN Refuse("task")
          ELSE Ask("task", <<chosen>>, SecretsOf(chosen, keyed),
                   \E p \in registered \cap keyed : p \in {fallback_order[i] : i \in 1..5})

\* complete_stream of a list of profiles.
TryProfiles(order) ==
    /\ phase = "choose"
    /\ Ask("profiles", order, {"key"}, FALSE)

(***************************************************************************)
(* Reading a stream.                                                       *)
(***************************************************************************)
\* The stream fails: the next profile, whatever this one has said already.
Broken ==
    /\ broken' = broken \cup {at}
    /\ IF request.caller = "profiles" /\ at < Len(request.order)
          THEN at' = at + 1 /\ phase' = "open" /\ sent' = <<>> /\ UNCHANGED outcome
          ELSE phase' = "over" /\ outcome' = "failed" /\ UNCHANGED <<at, sent>>
    /\ UNCHANGED <<request, turns>>

\* Mutant: a stream that has ended is followed by the next profile all the same.
CompletedAndOn ==
    /\ IF request.caller = "profiles" /\ at < Len(request.order)
          THEN at' = at + 1 /\ phase' = "open" /\ UNCHANGED outcome
          ELSE phase' = "over" /\ outcome' = "complete" /\ UNCHANGED at
    /\ UNCHANGED <<request, broken, turns>>

\* The stream has ended well: no further profile.
Completed ==
    /\ phase' = "over" /\ outcome' = "complete"
    /\ UNCHANGED <<request, at, broken, turns>>

Open ==
    /\ phase = "open" /\ CanOpen
    /\ phase' = "stream" /\ sent' = <<>>
    /\ UNCHANGED <<request, at, got, broken, outcome, turns>>

\* The provider refuses the call, the profile has no wrapper, or the secret turns
\* out to be missing.
OpenFails ==
    /\ phase = "open"
    /\ Broken /\ UNCHANGED got

Tagged(chunks) == [i \in DOMAIN chunks |-> [from |-> at, chunk |-> chunks[i]]]

Receive(e) ==
    /\ phase = "stream" /\ Len(sent) < MaxPieces /\ e \in DOMAIN Yields
    /\ \/ Yields[e] = Fails /\ Broken /\ UNCHANGED got
       \/ Yields[e] = Stops /\ Completed /\ sent' = Append(sent, e) /\ UNCHANGED got
       \/ /\ Yields[e] \notin {Fails, Stops}
          /\ sent' = Append(sent, e)
          /\ got' = got \o Tagged(Yields[e])
          /\ UNCHANGED <<request, at, phase, broken, outcome, turns>>

EndStream ==
    /\ phase = "stream"
    /\ Completed /\ UNCHANGED <<sent, got>>

\* The connection is lost, or a time limit of the client passes.
Cut ==
    /\ phase = "stream"
    /\ Broken /\ UNCHANGED got

\* A chat goes on after an answer, and ends at an error.
AskAgain ==
    /\ phase = "over" /\ request.caller = "chat" /\ outcome = "complete" /\ turns < MaxTurns
    /\ phase' = "open" /\ outcome' = "none" /\ turns' = turns + 1
    /\ sent' = <<>> /\ got' = <<>>
    /\ UNCHANGED <<request, at, broken>>

Secrets(p) == IF p = "vertex" THEN {"key", "project"} ELSE {"key"}

Next ==
    \/ \E c \in {"prompt", "test", "chat"}, p \in ApiProvider :
           \E secrets \in SUBSET Secrets(p) : Command(c, p, secrets)
    \/ \E p \in ApiProvider : \E secrets \in SUBSET Secrets(p) : CompleteStream(p, secrets)
    \/ \E c \in {"prompt", "test", "chat"}, keyed \in SUBSET {"openai", "anthropic", "google"} :
           CommandByKeys(c, keyed)
    \/ \E task \in DOMAIN task_routes \cup {"other"},
          registered \in SUBSET {fallback_order[i] : i \in 1..5} :
           \E keyed \in SUBSET registered :
               RouteTask(IF task = "other" THEN fallback_order ELSE task_routes[task],
                         registered, keyed)
    \/ \E n \in 1..MaxProfiles : \E order \in [1..n -> DOMAIN TextStream] : TryProfiles(order)
    \/ Open \/ OpenFails \/ EndStream \/ Cut \/ AskAgain
    \/ \E e \in {"text", "tool", "part", "usage", "detailed", "tail", "noise", "done", "thought"} :
           Receive(e)

Spec == Init /\ [][Next]_vars

-----------------------------------------------------------------------------
Yielded(kind) == Cardinality({i \in DOMAIN got : got[i].from = at /\ got[i].chunk = kind})
Brought(pieces) == Cardinality({i \in DOMAIN sent : sent[i] \in pieces})
Reading == phase = "stream" \/ outcome = "complete"

\* The text of the stream that is being read, or has completed, is all there.
NoTextIsLost == Reading => Yielded("text") = Brought({"text"})

\* An answer is complete when one stream is, and every profile before it failed;
\* those may have left the beginnings of their answers in front of it, in order.
OneStreamCompletes ==
    /\ outcome = "complete" => broken = 1..(at - 1)
    /\ \A i \in DOMAIN got : got[i].from # at => got[i].from \in broken
    /\ \A i, j \in DOMAIN got : i < j => got[i].from <= got[j].from

\* Reports of usage are handed on once, but for Gemini's, one with every piece;
\* those are lost that come after the answer, and those of the text streams.
UsageIsCounted ==
    Reading /\ ~TextAlone =>
        /\ Yielded("usage") > Brought({"usage", "detailed"}) => Provider \in {"gemini", "vertex"}
        /\ Yielded("usage") < Brought({"usage", "detailed", "tail", "done"}) =>
               Brought({"tail", "done"}) > 0

\* Pieces of a tool call are dropped by two handlers only.
ToolCallsAreWhole ==
    Reading /\ ~TextAlone /\ Yielded("tool") < Brought({"tool", "part"}) =>
        Provider \in {"anthropic", "bedrock"}

\* A task is sent to a provider whose key is missing, though another one has a
\* key, only where the handler is built without it.
RoutedToAKey ==
    request.caller = "task" /\ request.spare /\ request.secrets = {} =>
        \A i \in DOMAIN request.order : _create_handler[request.order[i]].key = "used"

\* What a caller is handed of streams (llm_providers.py, llm_wrapper.py:1210,
\* llm_api.py:319): the text of one complete stream, with the reports of usage and
\* the tool calls its handler does not lose.
StreamsAreAccounted ==
    /\ NoTextIsLost /\ OneStreamCompletes /\ UsageIsCounted
    /\ ToolCallsAreWhole /\ RoutedToAKey
=============================================================================
