----------------------------- MODULE MCServices -----------------------------
(***************************************************************************)
(* The services around the engine, side by side: they share no state, so a *)
(* behaviour is one of one component, chosen at the start, and the others  *)
(* rest in their initial state.                                            *)
(***************************************************************************)
EXTENDS ServiceParts

CONSTANTS Tasks, MaxItems,                                  \* queue
          Processes, MaxTokens, Crowd                       \* oauth

VARIABLES component,
          status, queue, claimed, called, alive, handle, stop, starts, runs,
          newest, issuedTo, lapsed, secret, stored, locks, proc, turnedDown, blame

\* Queue and OAuth are MemoryTaskQueue and QwenOAuth, with the theorems about them,
\* which ServicesProofs cites.
Queue == INSTANCE MemoryQueueProofs
OAuth == INSTANCE CredentialProofs
            WITH refused <- turnedDown
OAuthCrowd == INSTANCE CredentialProofs
            WITH Processes <- Crowd, MaxMishaps <- 0, refused <- turnedDown

ASSUME ServicesAssumption ==
    /\ OAuth!TokenAssumption /\ Queue!QueueAssumption

Init ==
    /\ component \in {"gateway", "store", "queue", "cron", "budget", "session",
                     "delivery", "feature", "incident", "oauth", "crowd", "llm",
                     "settings", "index", "catalog", "plan", "stream"}
    /\ Gateway!Init /\ Store!Init /\ Queue!Init
    /\ Cron!Init /\ Budget!Init /\ Session!Init
    /\ Delivery!Init /\ Feature!Init /\ Incident!Init /\ Llm!Init /\ Settings!Init
    /\ Index!Init /\ Stream!Init
    /\ IF component = "crowd" THEN OAuthCrowd!Init ELSE OAuth!Init
    /\ component # "llm" =>
           /\ \A p \in Profiles : provider[p] = "api" /\ keyKind[p] = "env"
           /\ default = 0 /\ present = {}
           /\ ~local /\ ~repairs /\ ~strict /\ ~gateway
    /\ component # "feature" => pipeline = "feature_pipeline" /\ useLLM
    /\ \/ component = "catalog" /\ Catalog!Init
       \/ /\ component # "catalog"
          /\ pipelineFile = [n \in PipelineNames |-> NoFile] /\ validates = FALSE
          /\ Catalog!Fresh
    /\ Plan!Init
    \* An incident's issue is new: nobody has commented on it, and its requests succeed.
    /\ component # "plan" \/ incident => comments = <<>>
    /\ upsets = IF component = "plan" /\ incident THEN MaxUpsets ELSE 0
    /\ component # "plan" => incident

gatewayVars == <<thread, records, overrides, remembered, runtimeInputs, metrics,
                 keyOf, answered, precedes, asked, restarts>>
storeVars == <<files, writer, cleaner, confirmed, spoiled, stale, writes, faults,
               cleanups>>
queueVars == <<status, queue, claimed, called, alive, handle, stop, starts, runs>>
cronVars == <<jobs, lastRun, processed, request, now, started, overlapped,
              published, dropped, requests, cronRestarts>>
budgetVars == <<used, total, usageFile, pending, next, made, tracked, raised, torn,
                resets, processes>>
sessionVars == <<created, key, left, token, reading>>
deliveryVars == <<job, branch, pulls, robbed, cutOff, refused>>
featureVars == <<pipeline, useLLM, phase, todo, iteration, cursor, alias, result, runState,
                 recorded, stopping, patches, fixes, tested, reviewed, opened, missed,
                 resumes>>
incidentVars == <<conclusion, observed, handoff, incidents, events>>
oauthVars == <<newest, issuedTo, lapsed, secret, stored, locks, proc, turnedDown, blame>>
llmVars == <<provider, keyKind, default, local, repairs, strict, present, gateway, changes,
             pc, source, order, fetched, candidates, index, attempt, prompt, answers,
             unparsed, outcome>>
settingsVars == <<settings, expected, overwritten, deleted, client, commands, killed>>
indexVars == <<collection, indexer, wiped, reused, indexings, errors>>
catalogVars == <<pipelineFile, loaded, unchecked, engine, validates, vetted, unvetted,
                 current, executed, verdict, edits, catalogRuns>>
planVars == <<incident, stage, comments, scan, run, plans, posted, upsets, planEvents>>
streamVars == <<inquiry, at, streamPhase, sent, got, broken, ending, turns>>

\* What the other components do.
Rest ==
    /\ UNCHANGED component
    /\ IF component = "gateway" THEN TRUE ELSE UNCHANGED gatewayVars
    /\ IF component = "store" THEN TRUE ELSE UNCHANGED storeVars
    /\ IF component = "queue" THEN TRUE ELSE UNCHANGED queueVars
    /\ IF component = "cron" THEN TRUE ELSE UNCHANGED cronVars
    /\ IF component = "budget" THEN TRUE ELSE UNCHANGED budgetVars
    /\ IF component = "session" THEN TRUE ELSE UNCHANGED sessionVars
    /\ IF component = "delivery" THEN TRUE ELSE UNCHANGED deliveryVars
    /\ IF component = "feature" THEN TRUE ELSE UNCHANGED featureVars
    /\ IF component = "incident" THEN TRUE ELSE UNCHANGED incidentVars
    /\ IF component \in {"oauth", "crowd"} THEN TRUE ELSE UNCHANGED oauthVars
    /\ IF component = "llm" THEN TRUE ELSE UNCHANGED llmVars
    /\ IF component = "settings" THEN TRUE ELSE UNCHANGED settingsVars
    /\ IF component = "index" THEN TRUE ELSE UNCHANGED indexVars
    /\ IF component = "catalog" THEN TRUE ELSE UNCHANGED catalogVars
    /\ IF component = "plan" THEN TRUE ELSE UNCHANGED planVars
    /\ IF component = "stream" THEN TRUE ELSE UNCHANGED streamVars

Next ==
    \/ component = "gateway" /\ Gateway!Next /\ Rest
    \/ component = "store" /\ Store!Next /\ Rest
    \/ component = "queue" /\ Queue!Next /\ Rest
    \/ component = "cron" /\ Cron!Next /\ Rest
    \/ component = "budget" /\ Budget!Next /\ Rest
    \/ component = "session" /\ Session!Next /\ Rest
    \/ component = "delivery" /\ Delivery!Next /\ Rest
    \/ component = "feature" /\ Feature!Next /\ Rest
    \/ component = "incident" /\ Incident!Next /\ Rest
    \/ component = "oauth" /\ OAuth!Next /\ Rest
    \/ component = "crowd" /\ OAuthCrowd!Next /\ Rest
    \/ component = "llm" /\ Llm!Next /\ Rest
    \/ component = "settings" /\ Settings!Next /\ Rest
    \/ component = "index" /\ Index!Next /\ Rest
    \/ component = "catalog" /\ Catalog!Next /\ Rest
    \/ component = "plan" /\ Plan!Next /\ Rest
    \/ component = "stream" /\ Stream!Next /\ Rest

vars == <<component, gatewayVars, storeVars, queueVars, cronVars, budgetVars,
          sessionVars, deliveryVars, featureVars, incidentVars, oauthVars, llmVars,
          settingsVars, indexVars, catalogVars, planVars, streamVars>>

Spec == Init /\ [][Next]_vars

-----------------------------------------------------------------------------
\* Each is a claim about one service, and read while that service is at work.

\* A run recorded as RUNNING has a thread at work on it (RunGateway).
RunningIsAttended == (component = "gateway") => Gateway!RunningIsAttended

\* A key starts a second run only while the first is unanswered, and every engine
\* counted as started is observed once (RunGateway).
SubmissionsAreAccounted == (component = "gateway") => Gateway!SubmissionsAreAccounted

\* Records are lost by a stale writer or a cut write alone (RunStore).
LostOnlyByRaceOrTear == (component = "store") => Store!LostOnlyByRaceOrTear

\* The in-memory queue runs every task once at most (MemoryTaskQueue).
ImplementsExactlyOnce == Queue!ImplementsExactlyOnce

\* Scheduled runs of a job are its interval apart; processed items were published
\* or lost with an exception (CronDispatcher).
ScheduleIsKept == (component = "cron") => Cron!ScheduleIsKept

\* Tracked calls are counted once (TokenBudget).
CountedOnceBelowLimit == (component = "budget") => Budget!CountedOnceBelowLimit

\* An ended session does not come back (SessionManager).
EndedForGood == Session!EndedForGood

\* A delivery is made whole, or leaves no branch and no open pull request
\* (CodeDelivery).
AllOrNothing == (component = "delivery") => Delivery!AllOrNothing

\* Failing, unreviewed and second publications, in their cases alone; approved is
\* tested (FeatureRun).
PublishedWithCare == (component = "feature") => Feature!PublishedWithCare

\* Every failed CI run becomes an incident, and one (CiIncident).
OneIncidentPerFailure == (component = "incident") => Incident!OneIncidentPerFailure

\* Shared credentials are refreshed by one, once, and not lost (QwenOAuth).
CredentialsAreSafe ==
    /\ component = "oauth" => OAuth!CredentialsAreSafe
    /\ component = "crowd" => OAuthCrowd!CredentialsAreSafe

\* The profiles are asked in order until one answers (LlmCall).
ProfilesAreTried == (component = "llm") => Llm!ProfilesAreTried

\* Settings are what the commands made them, unless written from a stale copy
\* (ProfileStore).
SettingsAreKept == (component = "settings") => Settings!SettingsAreKept

\* An added chunk is stored or held; a reused index is whole, unless something
\* failed or was under way (RepositoryIndex).
IndexIsAccountedFor == (component = "index") => Index!IndexIsAccountedFor

\* Runs execute vetted definitions; a circle that passed the checks is one they
\* do not follow (PipelineCatalog).
ChecksAreSound == (component = "catalog") => Catalog!ChecksAreSound

\* What the agents of an issue get of its plan, and where it is kept (IssuePlan).
PlanIsKept == (component = "plan") => Plan!PlanIsKept

\* What the readers of a stream get, of one that completes and of those that break
\* (ModelStream).
StreamsAreAccounted == (component = "stream") => Stream!StreamsAreAccounted
=============================================================================
