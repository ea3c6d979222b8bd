--------------------------- MODULE PipelineCatalog ---------------------------
(***************************************************************************)
(* What a pipeline file goes through before a run executes it: the         *)
(* bootstrap of the registries (registry/bootstrap.py), the checks of the  *)
(* pipeline registry (registry/pipelines.py), the loader and its use of    *)
(* the registered definitions (orchestrator/loader.py), the optional       *)
(* PipelineValidator (orchestrator/pipeline_validator.py) and, at last,    *)
(* the graph the engine itself builds (orchestrator/parallel.py).  The     *)
(* three read the same file with three ideas of what a step waits for.     *)
(*                                                                         *)
(* A step is its position in the file.  A key is what a placeholder may    *)
(* name: a step, by its name, or an alias that an output mapping gives.    *)
(* What the checks that do not look at the graph find (a file that cannot  *)
(* be parsed, step names, agents, unknown dependencies, contracts) is one  *)
(* field, the flaw of a definition; the contract is one of an input of a   *)
(* step without depends_on, the registry looks at no others.               *)
(***************************************************************************)
EXTENDS Integers, FiniteSetsExt

CONSTANTS N,            \* the number of steps of a pipeline
          Aliases,      \* the aliases that outputs and inputs may name
          External,     \* the keys the validator takes for inputs of the run
          Names,        \* the names of pipeline files
          Definitions,  \* what a file may say
          Rewrites,     \* what a file may say after an edit
          NoFile,       \* a name without a file, or without a definition
          MaxEdits,     \* bound: how often a file is written after the start
          MaxRuns       \* bound: how often a run is asked for

VARIABLES file,       \* the pipeline files; NoFile where there is none
          loaded,     \* _loaded_definitions of the registry
          unchecked,  \* the files the bootstrap has not come to
          engine,     \* "booting", "up", or "refused" by the bootstrap
          validates,  \* validate_pipeline_schema
          vetted,     \* the definitions the registry has accepted
          unvetted,   \* the names whose file was read after the bootstrap
          current,    \* the definition that the run executes
          executed,   \* the steps of it that are over
          outcome,    \* how the run stands
          edits, runs

vars == <<file, loaded, unchecked, engine, validates, vetted, unvetted, current,
          executed, outcome, edits, runs>>

PipelineSteps == 1 .. N
PipelineKeys == PipelineSteps \cup Aliases
Flaws == {"none", "malformed", "duplicate", "agent", "unknown", "contract"}

PipelineDefinition ==
    [ dependsOn : [PipelineSteps -> SUBSET PipelineSteps],
      explicit  : SUBSET PipelineSteps,
      inputs    : [PipelineSteps -> SUBSET PipelineKeys],
      outputs   : [PipelineSteps -> SUBSET PipelineKeys],
      flaw      : Flaws ]

CatalogAssumption ==
    /\ N \in Nat
    /\ Definitions \cup Rewrites \subseteq PipelineDefinition

-----------------------------------------------------------------------------
\* The registry: Kahn's algorithm over depends_on alone.

\* Mutant: a step is done as soon as one of its dependencies is.
VisitedEarly(edges) ==
    LET Round[i \in 0 .. N] ==
            IF i = 0 THEN {}
            ELSE {s \in PipelineSteps :
                    edges[s] = {} \/ edges[s] \cap Round[i - 1] # {}}
    IN  Round[N]

\* _validate_dag: a step leaves the queue once every step it depends on has.
Visited(edges) ==
    LET Round[i \in 0 .. N] ==
            IF i = 0 THEN {}
            ELSE {s \in PipelineSteps : edges[s] \subseteq Round[i - 1]}
    IN  Round[N]

\* load_and_validate_pipeline: a definition without a flaw whose depends_on
\* has no circle, a step that depends on itself included.
RegistryAccepts(d) == d.flaw = "none" /\ Visited(d.dependsOn) = PipelineSteps

-----------------------------------------------------------------------------
\* The validator: depends_on and placeholders, searched in depth.

Outputters(d, k) == {s \in PipelineSteps : k \in d.outputs[s]}

\* producer_by_key of the validator: the last output that names the key, or
\* the step of that name; nobody otherwise.
ValidatorProducers(d, k) ==
    IF Outputters(d, k) # {} THEN {Max(Outputters(d, k))}
    ELSE PipelineSteps \cap {k}

\* _build_dependency_graph.
ValidatorGraph(d) ==
    [s \in PipelineSteps |->
        (d.dependsOn[s] \cup UNION {ValidatorProducers(d, k) : k \in d.inputs[s]}) \ {s}]

\* What the search has found so far, and a call of dfs: its node, the recursion
\* stack and what was found before.
Findings == [visited : SUBSET PipelineSteps, cycle : BOOLEAN]
DfsCalls == [node : PipelineSteps, rec_stack : SUBSET PipelineSteps, before : Findings]

\* A loop of _detect_cycles over nodes, in the order of the file: one that was not
\* visited is entered, one of the recursion stack closes a circle.
Walk(nodes, rec_stack, before, dfs) ==
    LET seen[n \in 0 .. N] ==
            IF n = 0 THEN before
            ELSE IF n \notin nodes THEN seen[n - 1]
            ELSE IF n \notin seen[n - 1].visited
                 THEN dfs[[node |-> n, rec_stack |-> rec_stack, before |-> seen[n - 1]]]
            ELSE [seen[n - 1] EXCEPT !.cycle = @ \/ n \in rec_stack]
    IN  seen[N]

\* dfs of _detect_cycles.  Every call visits one node more, so that the calls go
\* no deeper than there are steps.
Search(graph) ==
    LET dfs[depth \in 0 .. N] ==
            [call \in DfsCalls |->
                IF depth = 0 THEN call.before
                ELSE Walk(graph[call.node], call.rec_stack \cup {call.node},
                          [call.before EXCEPT !.visited = @ \cup {call.node}],
                          dfs[depth - 1])]
    IN  dfs[N]

\* _detect_cycles finds something.
FindsCycle(graph) ==
    Walk(PipelineSteps, {}, [visited |-> {}, cycle |-> FALSE], Search(graph)).cycle

\* _validate_contract_compatibility: an input is external or somebody's output.
EveryInputIsProduced(d) ==
    \A s \in PipelineSteps : \A k \in d.inputs[s] \ External :
        ValidatorProducers(d, k) # {}

\* validate: an unknown dependency is passed over without an error.
ValidatorAccepts(d) ==
    /\ d.flaw \in {"none", "unknown"}
    /\ \A s \in PipelineSteps : s \notin d.dependsOn[s]
    /\ ~FindsCycle(ValidatorGraph(d))
    /\ EveryInputIsProduced(d)

-----------------------------------------------------------------------------
\* The engine: depends_on, placeholders, and the step before.

ClaimedBefore(d, s, k) == \E t \in 1 .. s - 1 : k = t \/ k \in d.outputs[t]

\* An output that names what an earlier step produces, or is called.
IsAmbiguous(d) == \E s \in PipelineSteps : \E k \in d.outputs[s] : ClaimedBefore(d, s, k)

\* producer_by_key of the engine, where no alias is ambiguous: whoever comes
\* first, by an output or by its name.
EngineProducers(d, k) ==
    LET claims == Outputters(d, k) \cup (PipelineSteps \cap {k})
    IN  IF claims = {} THEN {} ELSE {Min(claims)}

\* The step before, for a step without depends_on.
Chain(d, s) == IF s > 1 /\ s \notin d.explicit THEN {s - 1} ELSE {}

\* build_step_dependency_graph.
EngineGraph(d) ==
    [s \in PipelineSteps |->
        (Chain(d, s) \cup d.dependsOn[s]
          \cup UNION {EngineProducers(d, k) : k \in d.inputs[s]}) \ {s}]

-----------------------------------------------------------------------------

Files == {n \in Names : file[n] # NoFile}

\* A process that has not looked at the files yet.
Fresh ==
    /\ loaded = [n \in Names |-> NoFile]
    /\ unchecked = Files
    /\ engine = "booting"
    /\ vetted = {}
    /\ unvetted = {}
    /\ current = NoFile
    /\ executed = {}
    /\ outcome = "idle"
    /\ edits = 0
    /\ runs = 0

Init ==
    /\ file \in [Names -> Definitions \cup {NoFile}]
    /\ validates \in BOOLEAN
    /\ Fresh

\* Somebody changes a pipeline file, or adds one.
Edit(n) ==
    /\ edits < MaxEdits
    /\ \E d \in Rewrites :
         /\ file' = [file EXCEPT ![n] = d]
         /\ d # file[n]
    /\ edits' = edits + 1
    /\ UNCHANGED <<loaded, unchecked, engine, validates, vetted, unvetted, current,
                   executed, outcome, runs>>

\* init_registries takes the files one by one; the first one that does not
\* pass is the end of the process.
Bootstrap(n) ==
    /\ engine = "booting"
    /\ n \in unchecked
    /\ unchecked' = unchecked \ {n}
    /\ IF RegistryAccepts(file[n])
       THEN /\ loaded' = [loaded EXCEPT ![n] = file[n]]
            /\ vetted' = vetted \cup {file[n]}
            /\ engine' = IF unchecked = {n} THEN "up" ELSE "booting"
       ELSE /\ engine' = "refused"
            /\ UNCHANGED <<loaded, vetted>>
    /\ UNCHANGED <<file, validates, unvetted, current, executed, outcome, edits, runs>>

\* Every file was passed, or there was none.
BootstrapEmpty ==
    /\ engine = "booting"
    /\ unchecked = {}
    /\ engine' = "up"
    /\ UNCHANGED <<file, loaded, unchecked, validates, vetted, unvetted, current,
                   executed, outcome, edits, runs>>

\* run, as far as the first step: the validator may refuse the definition, the
\* engine refuses an alias of two producers.
Take(d) ==
    /\ runs' = runs + 1
    /\ current' = d
    /\ executed' = {}
    /\ outcome' = IF validates /\ ~ValidatorAccepts(d) THEN "rejected"
                  ELSE IF d.flaw = "unknown" \/ IsAmbiguous(d) THEN "unbuildable"
                  ELSE "running"

CanRun == engine = "up" /\ outcome # "running" /\ runs < MaxRuns

\* load of a name: the registered definition, whatever the file says by now.
RunRegistered(n) ==
    /\ CanRun
    /\ loaded[n] # NoFile
    /\ Take(loaded[n])
    /\ UNCHANGED <<file, loaded, unchecked, engine, validates, vetted, unvetted, edits>>

\* load from the file system, for a name that is not registered or for a path
\* ending in .yaml: the definition is parsed and registered, not checked.
RunFile(n, byPath) ==
    /\ CanRun
    /\ file[n] # NoFile /\ file[n].flaw # "malformed"
    /\ byPath \/ loaded[n] = NoFile
    /\ loaded' = [loaded EXCEPT ![n] = file[n]]
    /\ unvetted' = unvetted \cup {n}
    /\ Take(file[n])
    /\ UNCHANGED <<file, unchecked, engine, validates, vetted, edits>>

\* A file that cannot be parsed leaves what is registered alone.
RunMalformed(n, byPath) ==
    /\ CanRun
    /\ file[n] # NoFile /\ file[n].flaw = "malformed"
    /\ byPath \/ loaded[n] = NoFile
    /\ runs' = runs + 1
    /\ current' = NoFile
    /\ executed' = {}
    /\ outcome' = "unparsed"
    /\ UNCHANGED <<file, loaded, unchecked, engine, validates, vetted, unvetted, edits>>

\* One round of _execute_with_parallelism: every step that is ready runs; when
\* none is, the run ends in an error, with the steps before it done.  Of two
\* steps with one name one is never counted.
Round ==
    LET ready == {s \in PipelineSteps \ executed :
                    EngineGraph(current)[s] \subseteq executed}
    IN  /\ outcome = "running"
        /\ executed' = executed \cup ready
        /\ outcome' = IF executed' = PipelineSteps /\ current.flaw # "duplicate"
                      THEN "complete"
                      ELSE IF ready = {} THEN "stalled" ELSE "running"
        /\ UNCHANGED <<file, loaded, unchecked, engine, validates, vetted, unvetted,
                       current, edits, runs>>

\* The process starts anew, and reads the files it finds.
Restart ==
    /\ engine # "booting" /\ outcome # "running"
    /\ edits > 0 /\ runs < MaxRuns
    /\ engine' = "booting"
    /\ unchecked' = Files
    /\ loaded' = [n \in Names |-> NoFile]
    /\ unvetted' = {}
    /\ vetted' = {}
    /\ current' = NoFile
    /\ executed' = {}
    /\ outcome' = "idle"
    /\ runs' = runs + 1
    /\ UNCHANGED <<file, validates, edits>>

Next ==
    \/ \E n \in Names : \/ Edit(n)
                        \/ Bootstrap(n)
                        \/ RunRegistered(n)
                        \/ \E byPath \in BOOLEAN : RunFile(n, byPath) \/ RunMalformed(n, byPath)
    \/ BootstrapEmpty
    \/ Round
    \/ Restart

Spec == Init /\ [][Next]_vars

-----------------------------------------------------------------------------

\* A graph has no circle when its steps can be numbered so that every edge
\* leads to a smaller number.
IsAcyclic(graph) ==
    \E rank \in [PipelineSteps -> PipelineSteps] :
        \A s \in PipelineSteps : \A t \in graph[s] : rank[t] < rank[s]

\* The engine starts only when every file it found was accepted, and until a
\* file is read behind the registry's back, every run executes a definition
\* that was.
RunsAreVetted ==
    /\ engine = "up" => \A n \in Names \ unvetted :
                            loaded[n] # NoFile => loaded[n] \in vetted
    /\ unvetted = {} /\ current # NoFile => current \in vetted

\* A run whose steps wait for each other in a circle was not refused only
\* because of an edge that the checks it passed do not follow: for the
\* registry a placeholder or the step before, for both the step before.
StallsAreUnseen ==
    outcome = "stalled" =>
        /\ current.flaw # "duplicate" => ~IsAcyclic(EngineGraph(current))
        /\ current \in vetted => current.flaw = "none" /\ IsAcyclic(current.dependsOn)
        /\ validates => current.flaw = "none" /\ IsAcyclic([s \in PipelineSteps |->
                            EngineGraph(current)[s] \ Chain(current, s)])

\* A definition is refused for a circle only where there is one.
RefusalsAreEarned ==
    /\ engine = "refused" /\ edits = 0 =>
         \E n \in Names \ unchecked :
            file[n].flaw # "none" \/ ~IsAcyclic(file[n].dependsOn)
    /\ outcome = "rejected" =>
         \/ current.flaw # "none"
         \/ ~IsAcyclic(current.dependsOn)
         \/ ~IsAcyclic(ValidatorGraph(current))
         \/ ~EveryInputIsProduced(current)

\* What the checks in front of a run promise.
ChecksAreSound == RunsAreVetted /\ StallsAreUnseen /\ RefusalsAreEarned
=============================================================================
