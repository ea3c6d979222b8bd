---------------------------- MODULE ServicesProofs ----------------------------
(***************************************************************************)
(* What the composition keeps.  A step of MCServices is a step of one      *)
(* service, in that service's variables, or leaves them alone: so each     *)
(* invariant of PartProofs and AgentProofs is one of the composition, and  *)
(* so is what was proved of the specifications of the in-memory queue and  *)
(* of the credentials.                                                     *)
(***************************************************************************)
EXTENDS MCServices, PartProofs, AgentProofs

\* The composition implements the in-memory queue: it starts as the queue does, and a
\* step of another service leaves its variables alone.
LEMMA ImplementsQueue == Spec => Queue!Spec
<1>1. Init => Queue!Init
  BY DEF Init
<1>2. [Next]_vars => [Queue!Next]_Queue!vars
  BY DEF Next, Rest, vars, queueVars, Queue!vars
<1>. QED
  BY <1>1, <1>2, PTL DEF Spec, Queue!Spec

\* The in-memory queue implements the durable one, and runs no task twice, in the
\* composition.
THEOREM QueueRunsOnce == Spec => ImplementsExactlyOnce
<1>1. Queue!Spec => Queue!ImplementsExactlyOnce
  BY ServicesAssumption, Queue!QueueRunsOnce
<1>. QED
  BY ImplementsQueue, <1>1 DEF ImplementsExactlyOnce

-----------------------------------------------------------------------------
FewAtWork == component = "oauth"
CrowdAtWork == component = "crowd"

\* Credentials are refreshed by one process at a time, once, and not lost, in the
\* composition: they are those of a few processes with mishaps, or of a crowd without;
\* the choice stays, and while it stays only the chosen one's steps change them.
THEOREM CredentialsSafe == Spec => []CredentialsAreSafe
<1>1. /\ Init /\ FewAtWork => OAuth!Init
      /\ Init /\ CrowdAtWork => OAuthCrowd!Init
  BY DEF Init, FewAtWork, CrowdAtWork
<1>2. FewAtWork /\ [Next]_vars => [OAuth!Next]_OAuth!tokenVars /\ FewAtWork'
  BY DEF Next, Rest, vars, oauthVars, OAuth!tokenVars, FewAtWork
<1>3. CrowdAtWork /\ [Next]_vars => [OAuthCrowd!Next]_OAuthCrowd!tokenVars /\ CrowdAtWork'
  BY DEF Next, Rest, vars, oauthVars, OAuthCrowd!tokenVars, CrowdAtWork
<1>4. /\ ~FewAtWork /\ [Next]_vars => ~FewAtWork'
      /\ ~CrowdAtWork /\ [Next]_vars => ~CrowdAtWork'
  BY DEF Next, Rest, vars, FewAtWork, CrowdAtWork
<1>5. OAuth!Spec => []OAuth!CredentialsAreSafe
  BY ServicesAssumption, OAuth!CredentialsSafe
<1>6. OAuthCrowd!Spec => []OAuthCrowd!CredentialsAreSafe
  <2>1. OAuthCrowd!TokenAssumption
    BY ServicesAssumption DEF OAuth!TokenAssumption, OAuthCrowd!TokenAssumption
  <2>. QED
    BY <2>1, OAuthCrowd!CredentialsSafe
<1>7. /\ FewAtWork => OAuth!CredentialsAreSafe
      /\ CrowdAtWork => OAuthCrowd!CredentialsAreSafe
      => CredentialsAreSafe
  BY DEF CredentialsAreSafe, FewAtWork, CrowdAtWork
<1>. QED
  BY <1>1, <1>2, <1>3, <1>4, <1>5, <1>6, <1>7, PTL DEF Spec, OAuth!Spec, OAuthCrowd!Spec

-----------------------------------------------------------------------------
(* The services of ServiceParts *)

\* A run recorded as RUNNING has a thread at work on it, until the process dies:
\* whatever stops, resumes and failing engines write over each other, the last of
\* them to leave wrote a final status.
THEOREM RunningHasThread == Spec => []RunningIsAttended
<1>1. Init => GatewayInv
  BY GatewayInit DEF Init
<1>2. GatewayInv /\ [Next]_vars => GatewayInv'
  <2>1. [Next]_vars => [Gateway!Next]_Gateway!vars
    BY DEF Next, Rest, vars, gatewayVars, Gateway!vars
  <2>. QED
    BY <2>1, GatewayStep, PartsAssumption
<1>3. GatewayInv => RunningIsAttended
  BY GatewayImplied DEF RunningIsAttended
<1>. QED
  BY <1>1, <1>2, <1>3, PTL DEF Spec

\* run_pipeline starts a second run for a key only while the first is in flight or
\* after it raised, as long as the key lives; and every engine counted as started
\* is counted as observed on each of its ways out, once.
THEOREM SubmissionsAccounted == Spec => []SubmissionsAreAccounted
<1>1. Init => GatewayInv
  BY GatewayInit DEF Init
<1>2. GatewayInv /\ [Next]_vars => GatewayInv'
  <2>1. [Next]_vars => [Gateway!Next]_Gateway!vars
    BY DEF Next, Rest, vars, gatewayVars, Gateway!vars
  <2>. QED
    BY <2>1, GatewayStep, PartsAssumption
<1>3. GatewayInv => SubmissionsAreAccounted
  BY GatewayImplied DEF SubmissionsAreAccounted
<1>. QED
  BY <1>1, <1>2, <1>3, PTL DEF Spec

\* RunRepository.upsert and replace_for_run, in the composition: while no thread writes,
\* what a run's last reported write stored is found by get, in that version or a later
\* one, unless a writer that had read the files before overwrote it or a write was cut
\* off between two parts: splitting into parts, merging, replacing and dropping records
\* lose nothing.
THEOREM RecordsNotLost == Spec => []LostOnlyByRaceOrTear
<1>1. Init => StoreInv
  BY StoreInit DEF Init
<1>2. StoreInv /\ [Next]_vars => StoreInv'
  <2>1. [Next]_vars => [Store!Next]_Store!vars
    BY DEF Next, Rest, vars, storeVars, Store!vars
  <2>. QED
    BY <2>1, StoreStep, PartsAssumption
<1>3. StoreInv => LostOnlyByRaceOrTear
  BY StoreImplied DEF LostOnlyByRaceOrTear
<1>. QED
  BY <1>1, <1>2, <1>3, PTL DEF Spec

\* PipelineRegistry, PipelineValidator and the engine's graph, in the composition: the
\* engine starts on definitions the registry accepted alone, _validate_dag and
\* _detect_cycles refuse a circle only where there is one, and steps that end up waiting
\* for each other do so along an edge that the checks the run passed do not follow.
THEOREM ChecksAlwaysSound == Spec => []ChecksAreSound
<1>0. PipelineLength \in Nat
  BY PartsAssumption DEF Catalog!CatalogAssumption
<1>1. Init => CatalogInv
  <2>1. ASSUME Init PROVE pipelineFile \in [PipelineNames -> Definitions \cup {NoFile}]
                          /\ Catalog!Fresh
    BY <2>1 DEF Init, Catalog!Init
  <2>. QED
    BY <2>1, CatalogInit, PartsAssumption
<1>2. CatalogInv /\ [Next]_vars => CatalogInv'
  <2>1. [Next]_vars => [Catalog!Next]_Catalog!vars
    BY DEF Next, Rest, vars, catalogVars, Catalog!vars
  <2>. QED
    BY <2>1, CatalogStep, PartsAssumption
<1>3. CatalogInv => ChecksAreSound
  BY <1>0, CatalogImplied DEF ChecksAreSound
<1>. QED
  BY <1>1, <1>2, <1>3, PTL DEF Spec

\* Scheduled runs are an interval apart and processed items are accounted for, in the
\* composition.
THEOREM ScheduleIsAlwaysKept == Spec => []ScheduleIsKept
<1>1. Init => CronInv
  BY CronStarts, PartsAssumption DEF Init
<1>2. CronInv /\ [Next]_vars => CronInv'
  <2>1. [Next]_vars => [Cron!Next]_Cron!vars
    BY DEF Next, Rest, vars, cronVars, Cron!vars
  <2>. QED
    BY <2>1, CronStep, PartsAssumption
<1>3. CronInv => ScheduleIsKept
  BY CronImplied DEF ScheduleIsKept
<1>. QED
  BY <1>1, <1>2, <1>3, PTL DEF Spec

\* TokenBudget.track_usage and CostTracker, in the composition: as long as no limit was
\* exceeded and no file was torn, the usage holds each call whose tracking returned, once,
\* whatever order direct and pending calls, resets and restarts come in.
THEOREM CallsCountedOnce == Spec => []CountedOnceBelowLimit
<1>1. Init => BudgetInv
  BY DEF Init, Budget!Init, Budget!Nothing, BudgetInv, PendingInOrder
<1>2. [Next]_vars => [Budget!Next]_Budget!vars
  BY DEF Next, Rest, vars, budgetVars, Budget!vars
<1>3. BudgetInv /\ [Next]_vars => BudgetInv'
  BY <1>2, BudgetStep
<1>4. BudgetInv => CountedOnceBelowLimit
  BY DEF BudgetInv, CountedOnceBelowLimit, Budget!CountedOnceBelowLimit
<1>. QED
  BY <1>1, <1>3, <1>4, PTL DEF Spec

\* CIIncidentHandoff and the CI monitor, in the composition: a processed run was handed
\* off, and is not without its issue when the handoff is done; two issues of a run are of
\* one handoff, or the later one's search did not show the earlier.
THEOREM IncidentsAccounted == Spec => []OneIncidentPerFailure
<1>1. Init => IncidentInv
  <2>1. SUFFICES ASSUME Incident!Init PROVE IncidentInv
    BY DEF Init
  <2>2. /\ observed = {} /\ incidents = <<>> /\ handoff = [h \in Handoffs |-> Incident!Idle]
        /\ DOMAIN incidents = {}
    BY <2>1 DEF Incident!Init
  <2>3. Incident!Idle = [pc |-> "idle", run |-> 0, page |-> {}, found |-> 0]
    BY DEF Incident!Idle
  <2>4. IncidentTypes
    BY <2>2, <2>3 DEF IncidentTypes, HandoffStates
  <2>5. OfItsHandoff /\ NoneWasSeen /\ ObservedIsHandedOff
    BY <2>2, <2>3 DEF OfItsHandoff, NoneWasSeen, ObservedIsHandedOff
  <2>6. OneIsThere
    BY <2>2, <2>3 DEF OneIsThere
  <2>. QED
    BY <2>4, <2>5, <2>6 DEF IncidentInv
<1>2. [Next]_vars => [Incident!Next]_Incident!vars
  BY DEF Next, Rest, vars, incidentVars, Incident!vars
<1>3. IncidentInv /\ [Next]_vars => IncidentInv'
  BY <1>2, PartsAssumption, IncidentStep
<1>4. IncidentInv => Incident!NoFailureIsForgotten
  <2>1. SUFFICES ASSUME IncidentInv, NEW r \in observed
                 PROVE  \E h \in Handoffs :
                            /\ handoff[h].run = r
                            /\ handoff[h].pc = "done" =>
                                  \/ \E i \in DOMAIN incidents : incidents[i].run = r
                                  \/ Incident!IsPrefix(r, incidents[handoff[h].found].run)
    BY DEF Incident!NoFailureIsForgotten
  <2>2. PICK h \in Handoffs : handoff[h].run = r
    BY <2>1 DEF IncidentInv, ObservedIsHandedOff
  <2>. QED
    BY <2>1, <2>2 DEF IncidentInv, OneIsThere, FoundMatches
<1>5. IncidentInv => Incident!DuplicatesAreExplained
  <2>1. SUFFICES ASSUME IncidentInv, NEW i \in DOMAIN incidents, NEW j \in DOMAIN incidents,
                        incidents[i].run = incidents[j].run
                 PROVE  i \notin handoff[incidents[j].by].page
    BY DEF Incident!DuplicatesAreExplained
  <2>. DEFINE h == incidents[j].by
  <2>2. h \in Handoffs /\ handoff[h].run = incidents[i].run /\ handoff[h].run \in Nat
    BY <2>1, AuthorsAreHandoffs DEF IncidentInv, IncidentTypes, OfItsHandoff
  <2>3. Incident!IsPrefix(handoff[h].run, incidents[i].run)
    BY <2>2 DEF Incident!IsPrefix
  <2>. QED
    BY <2>1, <2>2, <2>3 DEF IncidentInv, NoneWasSeen
<1>6. IncidentInv => OneIncidentPerFailure
  BY <1>4, <1>5 DEF OneIncidentPerFailure, Incident!OneIncidentPerFailure
<1>. QED
  BY <1>1, <1>3, <1>6, PTL DEF Spec

\* SessionManager and the tokens, in the composition: a session whose key is gone or
\* whose expiry has passed, whose last token has expired and of which no request holds
\* what it read stays ended: extending, deleting, refreshing and late requests revive
\* nothing.
THEOREM SessionsEndForGood == Spec => EndedForGood
<1>1. Init => SessionTypes
  BY DEF Init, Session!Init, SessionTypes
<1>2. [Next]_vars => [Session!Next]_Session!vars
  BY DEF Next, Rest, vars, sessionVars, Session!vars
<1>3. SessionTypes /\ [Next]_vars => SessionTypes'
  BY <1>2, PartsAssumption, SessionTyped
<1>4. SessionTypes /\ [Next]_vars
          => [\A s \in created : ~Session!Access(s) => ~Session!Access(s)']_Session!vars
  <2>1. ASSUME SessionTypes, Session!Next
        PROVE  \A s \in created : ~Session!Access(s) => ~Session!Access(s)'
    BY <2>1, PartsAssumption, NoWayBack
  <2>. QED
    BY <1>2, <2>1
<1>. QED
  BY <1>1, <1>3, <1>4, PTL DEF Spec, EndedForGood, Session!EndedForGood

\* Whatever overlaps and whoever dies, what the commands saved is in the settings files
\* but for stale and torn copies, a default is a profile that exists, and a profile's own
\* key was stored before the profile.
THEOREM SettingsAlwaysKept == Spec => []SettingsAreKept
<1>1. Init => SettingsInv
  BY SettingsInit DEF Init
<1>2. SettingsInv /\ [Next]_vars => SettingsInv'
  <2>1. [Next]_vars => [Settings!Next]_Settings!vars
    BY DEF Next, Rest, vars, settingsVars, Settings!vars
  <2>. QED
    BY <2>1, SettingsStep
<1>3. SettingsInv => SettingsAreKept
  BY SettingsImplied DEF SettingsAreKept
<1>. QED
  BY <1>1, <1>2, <1>3, PTL DEF Spec

\* Whatever fails or is removed meanwhile, the profiles are asked in order until one
\* answers, and a call that ends without an answer has asked them all.
THEOREM ProfilesAlwaysTried == Spec => []ProfilesAreTried
<1>1. Init => CallInv
  BY CallInit DEF Init
<1>2. CallInv /\ [Next]_vars => CallInv'
  <2>1. [Next]_vars => [Llm!Next]_Llm!llmVars
    BY DEF Next, Rest, vars, llmVars, Llm!llmVars, Llm!callVars, Llm!configuration
  <2>. QED
    BY <2>1, CallStep
<1>3. CallInv => ProfilesAreTried
  BY CallImplied DEF ProfilesAreTried
<1>. QED
  BY <1>1, <1>2, <1>3, PTL DEF Spec

\* A run publishes a patch whose tests failed, that nobody reviewed, or once more, in the
\* named cases alone, and what its gates approve has passed the tests.
THEOREM AlwaysPublishedWithCare == Spec => []PublishedWithCare
<1>1. Init => RunInv
  BY RunInit DEF Init
<1>2. RunInv /\ [Next]_vars => RunInv'
  <2>1. [Next]_vars => [Feature!Next]_Feature!vars
    BY DEF Next, Rest, vars, featureVars, Feature!vars, Feature!given
  <2>. QED
    BY <2>1, RunStep
<1>3. RunInv => PublishedWithCare
  BY RunImplied DEF PublishedWithCare
<1>. QED
  BY <1>1, <1>2, <1>3, PTL DEF Spec

\* Every chunk that is added is stored or held, and an index that is reused is whole, but
\* in the named cases, in the composition.
THEOREM AlwaysIndexAccountedFor == Spec => []IndexIsAccountedFor
<1>1. Init => IndexInv
  BY IndexInit DEF Init
<1>2. IndexInv /\ [Next]_vars => IndexInv'
  <2>1. [Next]_vars => [Index!Next]_Index!vars
    BY DEF Next, Rest, vars, indexVars, Index!vars
  <2>. QED
    BY <2>1, IndexStep, PartsAssumption
<1>3. IndexInv => IndexIsAccountedFor
  BY IndexImplied DEF IndexIsAccountedFor
<1>. QED
  BY <1>1, <1>2, <1>3, PTL DEF Spec

\* What the readers of a stream are handed is accounted for, in the composition.
THEOREM AlwaysStreamsAccounted == Spec => []StreamsAreAccounted
<1>1. Init => StreamInv
  BY StreamInit DEF Init
<1>2. StreamInv /\ [Next]_vars => StreamInv'
  <2>1. [Next]_vars => [Stream!Next]_Stream!vars
    BY DEF Next, Rest, vars, streamVars, Stream!vars
  <2>. QED
    BY <2>1, StreamStep
<1>3. StreamInv => StreamsAreAccounted
  BY StreamImplied DEF StreamsAreAccounted
<1>. QED
  BY <1>1, <1>2, <1>3, PTL DEF Spec

\* What an issue's plan is kept through, from the scan to the code, in the composition.
THEOREM AlwaysPlanKept == Spec => []PlanIsKept
<1>1. Init => PlanInv
  BY PlanInit DEF Init
<1>2. PlanInv /\ [Next]_vars => PlanInv'
  <2>1. [Next]_vars => [Plan!Next]_Plan!vars
    BY DEF Next, Rest, vars, planVars, Plan!vars
  <2>. QED
    BY <2>1, PlanStep, PartsAssumption
<1>3. PlanInv => PlanIsKept
  BY PlanImplied DEF PlanIsKept
<1>. QED
  BY <1>1, <1>2, <1>3, PTL DEF Spec

\* PatchWorkflowOrchestrator.apply_patch and its retry: whatever the deliveries of one
\* issue do to each other's branches, and whatever requests fail, a delivery that
\* succeeded has its whole patch and nothing else in its pull request, unless it was
\* robbed, and one that failed leaves neither a branch nor an open pull request, unless
\* it was cut off.
THEOREM DeliveredOrUndone == Spec => []AllOrNothing
<1>1. Init => DeliveryInv
  BY DeliveryInit, PartsAssumption DEF Init
<1>2. DeliveryInv /\ [Next]_vars => DeliveryInv'
  <2>1. [Next]_vars => [Delivery!Next]_Delivery!vars
    BY DEF Next, Rest, vars, deliveryVars, Delivery!vars
  <2>. QED
    BY <2>1, DeliveryStep, PartsAssumption
<1>3. DeliveryInv => AllOrNothing
  BY DeliveryImplied DEF AllOrNothing
<1>. QED
  BY <1>1, <1>2, <1>3, PTL DEF Spec
=============================================================================
