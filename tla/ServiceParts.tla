---------------------------- MODULE ServiceParts ----------------------------
(***************************************************************************)
(* Services that share no state, side by side: the variables of each, and  *)
(* the values of its parameters where those are functions.  PartProofs     *)
(* reasons about them one by one, MCServices about their composition.      *)
(***************************************************************************)
EXTENDS Naturals, Sequences

CONSTANTS Threads,
          Items, MaxTime, MaxRequests, MaxRestarts,           \* cron
          Calls, SessionLimit, MaxResets, MaxCounts, MaxStarts, \* budget
          Sessions, Requests, SessionTTL, TokenLife,          \* sessions
          MaxIterations, MaxResumes,                          \* feature
          CiRuns, Handoffs, IncidentPage, MaxEvents,          \* incident
          Profiles, Attempts, MaxChanges,                     \* llm
          Clients, Names, MaxCommands, Torn, MaxMishaps,      \* settings
          Indexers, Chunks, EmbedBatch, BufferLimit, MaxIndexings, MaxErrors, \* index
          Scans, EnrichPage, FindPage, MaxComments, Spoilt, MaxPlans, MaxUpsets, \* plan
          MaxProfiles, MaxPieces, MaxTurns,                   \* stream
          Deliveries, PatchFiles, MaxFaults,                  \* delivery
          Keys, Steps, MaxRuns, MaxOverrides,                 \* gateway
          Runs, PartSize, MaxWrites, MaxCleanups,             \* store
          PipelineLength, Aliases, PipelineNames, NoFile, MaxEdits, MaxCatalogRuns \* catalog

VARIABLES jobs, lastRun, processed, request, now, started, overlapped, published,
          dropped, requests, cronRestarts,
          used, total, usageFile, pending, next, made, tracked, raised, torn,
          resets, processes,
          created, key, left, token, reading,
          pipeline, useLLM, phase, todo, iteration, cursor, alias, result, runState,
          recorded, stopping, patches, fixes, tested, reviewed, opened, missed, resumes,
          conclusion, observed, handoff, incidents, events,
          provider, keyKind, default, local, repairs, strict, present, gateway, changes,
          pc, source, order, fetched, candidates, index, attempt, prompt, answers,
          unparsed, outcome,
          settings, expected, overwritten, deleted, client, commands, killed,
          collection, indexer, wiped, reused, indexings, errors,
          incident, stage, comments, scan, run, plans, posted, upsets, planEvents,
          inquiry, at, streamPhase, sent, got, broken, ending, turns,
          job, branch, pulls, robbed, cutOff, refused,
          thread, records, overrides, remembered, runtimeInputs, metrics, keyOf,
          answered, precedes, asked, restarts,
          files, writer, cleaner, confirmed, spoiled, stale, writes, faults, cleanups,
          pipelineFile, loaded, unchecked, engine, validates, vetted, unvetted, current,
          executed, verdict, edits, catalogRuns

\* Two jobs that are due every other hour, or every hour, and one that the
\* schedule file disables.
Specs == <<"issue_scanner", "ci_monitor", "backup">>
Interval == [j \in {"issue_scanner", "ci_monitor", "backup"} |->
                IF j = "ci_monitor" THEN 1 ELSE 2]
IsEnabled == [j \in {"issue_scanner", "ci_monitor", "backup"} |-> j # "backup"]

\* The third call costs as much as the other two.
Cost == [c \in Calls |-> IF c = 3 THEN 2 ELSE 1]

\* The first delivery has a client that repeats nothing.
MaxRetries == [d \in Deliveries |-> IF d = 1 THEN 0 ELSE 1]

\* Pipelines of a few steps: every choice of depends_on, one placeholder and one
\* alias at most; the definitions that are wrong in another way; and what an edit
\* may write: a chain, a step that reads the output of the one after it, and a
\* dependency that no step has.
PipelineSteps == 1 .. PipelineLength
NoKeys == [s \in PipelineSteps |-> {}]
Chained == [dependsOn |-> NoKeys, explicit |-> {}, inputs |-> NoKeys, outputs |-> NoKeys,
            flaw |-> "none"]
OneKey(steps, keys) ==
    {NoKeys} \cup {[NoKeys EXCEPT ![s] = {k}] : s \in steps, k \in keys}
Definitions ==
    {[Chained EXCEPT !.dependsOn = [s \in PipelineSteps |-> d[s] \ {0}],
                     !.explicit = {s \in PipelineSteps : 0 \notin d[s]},
                     !.inputs = i, !.outputs = o] :
        d \in [PipelineSteps -> {{0}} \cup SUBSET PipelineSteps],   \* {0}: no depends_on
        i \in OneKey(PipelineSteps, Aliases) \cup OneKey({1}, {PipelineLength}),
        o \in OneKey({1, PipelineLength}, Aliases) \cup OneKey({PipelineLength}, {2})}
    \cup {[Chained EXCEPT !.flaw = f] :
             f \in {"malformed", "duplicate", "agent", "unknown", "contract"}}
Rewrites ==
    {Chained, [Chained EXCEPT !.inputs = [NoKeys EXCEPT ![1] = {2}]],
     [Chained EXCEPT !.flaw = "unknown"], [Chained EXCEPT !.flaw = "malformed"]}

Gateway == INSTANCE RunGateway
Store == INSTANCE RunStore WITH file <- files, thread <- writer
Cron == INSTANCE CronDispatcher
            WITH thread <- request, starts <- started, restarts <- cronRestarts
Budget == INSTANCE TokenBudget WITH file <- usageFile, starts <- processes
Session == INSTANCE SessionManager
Feature == INSTANCE FeatureRun
            WITH status <- recorded, made <- patches, pulls <- opened, cutOff <- missed
Incident == INSTANCE CiIncident
Llm == INSTANCE LlmCall
            WITH keyOf <- keyKind, asked <- answers
Settings == INSTANCE ProfileStore
            WITH file <- settings, spoiled <- overwritten, mishaps <- killed
Index == INSTANCE RepositoryIndex
Plan == INSTANCE IssuePlan
            WITH made <- posted, events <- planEvents
Stream == INSTANCE ModelStream
            WITH request <- inquiry, phase <- streamPhase, outcome <- ending
Delivery == INSTANCE CodeDelivery WITH Files <- PatchFiles, faults <- refused
Catalog == INSTANCE PipelineCatalog
            WITH N <- PipelineLength, Names <- PipelineNames, External <- {},
                 MaxRuns <- MaxCatalogRuns,
                 file <- pipelineFile, outcome <- verdict, runs <- catalogRuns

ASSUME PartsAssumption ==
    /\ Cron!CronAssumption /\ Session!SessionAssumption /\ Incident!CiIncidentAssumption
    /\ Llm!CallAssumption /\ Index!IndexAssumption /\ Plan!PlanAssumption
    /\ Delivery!DeliveryAssumption /\ Gateway!GatewayAssumption /\ Store!StoreAssumption
    /\ Catalog!CatalogAssumption

\* Up to four subtasks, of every category each.
ASSUME \A w \in UNION {[1 .. n -> 0 .. 3] : n \in 0 .. 4} : Plan!GroupsAreChains(w)
=============================================================================
