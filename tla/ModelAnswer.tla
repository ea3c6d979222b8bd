----------------------------- MODULE ModelAnswer -----------------------------
(***************************************************************************)
(* What is made of a language model's answer (agents/llm_wrapper.py,       *)
(* agents/code_generator.py): the parsers of code, specifications and      *)
(* reviews, the loops that ask again, and the files of a patch, which  *)
(* are held against the files that the specification, the tests, the       *)
(* failed CI and the retrieval name.  All of it is a function of the       *)
(* answers and the task; FeatureRun and LlmCall say when it is called.     *)
(***************************************************************************)
EXTENDS Naturals, Sequences, SequencesExt

CONSTANTS MaxCandidates,  \* candidate files that are kept
          MaxRetries,     \* attempts of the loops
          TestNames       \* names of files with "test" in them

(***************************************************************************)
(* An answer is the sequence of the JSON objects in its text.  "key" says  *)
(* what one is: a patch ("files"), a specification ("spec"), a review that *)
(* approves ("approve"), anything else ("other").  Its items, the files,   *)
(* requirements or findings, may lack fields; an item's content is told by *)
(* the path it is meant for.  A torn object has no end: it does not        *)
(* decode, its items do.                                                   *)
(***************************************************************************)
Whole(item) == item.has = {"change_type", "content"}
AllWhole(object) == \A i \in DOMAIN object.items : Whole(object.items[i])
IsPatch(object) == ~object.torn /\ object.key = "files" /\ object.items # <<>> /\ AllWhole(object)

\* The first object that has "files" must be a patch.
parse_code_output(answer) ==
    LET i == SelectInSeq(answer, LAMBDA object : ~object.torn /\ object.key = "files")
    IN IF i # 0 /\ IsPatch(answer[i]) THEN i ELSE 0

\* The first object that is a patch.
_try_balanced_json_parse(answer) == SelectInSeq(answer, IsPatch)

\* Whatever the JSON is: a path, the next change_type and the next content after it,
\* be they of this file or of another.
_try_loose_patch_extraction(answer) ==
    LET items == FlattenSeq([i \in DOMAIN answer |-> answer[i].items])
        Following(i, field) == SelectInSubSeq(items, i, Len(items), LAMBDA item : field \in item.has)
        End(i) == IF Following(i, "change_type") = 0 THEN 0
                  ELSE Following(Following(i, "change_type"), "content")
        from[i \in 1 .. Len(items) + 1] ==
            IF i > Len(items) \/ End(i) = 0 THEN <<>>
            ELSE <<[path |-> items[i].path, content |-> items[End(i)].path]>> \o from[End(i) + 1]
    IN from[1]

\* The files of a patch that is read from an answer, <<>> for none.
Files(object) ==
    [i \in DOMAIN object.items |-> [path |-> object.items[i].path, content |-> object.items[i].path]]
_parse_llm_patch_response(answer) ==
    IF parse_code_output(answer) # 0 THEN Files(answer[parse_code_output(answer)])
    ELSE IF _try_balanced_json_parse(answer) # 0 THEN Files(answer[_try_balanced_json_parse(answer)])
    ELSE _try_loose_patch_extraction(answer)

\* From the first brace to the last: a text with two objects is no specification.
parse_spec_output(answer) ==
    Len(answer) = 1 /\ ~answer[1].torn /\ answer[1].key = "spec" /\ AllWhole(answer[1])

\* The first object that decodes, an item of a torn one included: one that does not
\* decide asks for changes.  A finding that is not whole refuses the review.
parse_review_output(answer) ==
    LET i == SelectInSeq(answer, LAMBDA object : ~object.torn \/ object.items # <<>>)
    IN IF i = 0 THEN "error"
       ELSE IF answer[i].torn THEN "request_changes"
       ELSE IF ~AllWhole(answer[i]) THEN "error"
       ELSE IF answer[i].key = "approve" THEN "approve" ELSE "request_changes"

\* The attempt whose answer parses; 0 when none does, or when a call before it raised
\* an error that is no ValueError.
Retried(parses, raised) ==
    LET first == SelectInSubSeq(parses, 1, MaxRetries, LAMBDA parsed : parsed)
    IN IF \E n \in raised : first = 0 \/ n <= first THEN 0 ELSE first
generate_code_with_retry(answers, raised) ==
    Retried([n \in DOMAIN answers |-> parse_code_output(answers[n]) # 0], raised)
generate_spec_with_retry(answers, raised) ==
    Retried([n \in DOMAIN answers |-> parse_spec_output(answers[n])], raised)
legacy_generate_review_with_retry(answers, raised) ==
    Retried([n \in DOMAIN answers |-> parse_review_output(answers[n]) # "error"], raised)

\* A test output without counts passes; errors count for pytest alone.
_parse_test_output(output, framework) ==
    output.failed = 0 /\ (framework \in {"jest", "go"} \/ output.errors = 0)

\* The loop over fixes looks at the test output it is given and runs no tests: it
\* succeeds at once or never.  The fix that remains is that of the last iteration whose
\* attempts brought one.
execute_fix_loop(output, framework, iterations) ==
    IF _parse_test_output(output, framework) THEN [success |-> TRUE, fix |-> 0]
    ELSE [success |-> FALSE,
          fix |-> SelectLastInSeq(iterations,
                      LAMBDA answers : generate_code_with_retry(answers, {}) # 0)]

(***************************************************************************)
(* The files of a task.  A path is a name and how it is written: "dotted", *)
(* with ./ or the workspace in front; "node", with a test's id behind;     *)
(* "outside", not below the repository; or "plain".                        *)
(***************************************************************************)
Plain(name) == [name |-> name, form |-> "plain"]
_normalize_path(path) == IF path.form = "dotted" THEN Plain(path.name) ELSE path

FirstOnes(s) == FoldLeft(LAMBDA kept, x : IF Contains(kept, x) THEN kept ELSE Append(kept, x),
                         <<>>, s)

\* In the order of the places that are searched; the first ones are kept.
_collect_candidate_files(task) ==
    LET paths == task.planned \o task.changes \o [i \in DOMAIN task.tests |-> task.tests[i].path]
                     \o task.ci \o task.rag
        inside == SelectSeq(paths, LAMBDA path : path.form # "outside")
        File(path) == IF path.form = "node" THEN Plain(path.name) ELSE _normalize_path(path)
        found == FirstOnes([i \in DOMAIN inside |-> File(inside[i])])
    IN SubSeq(found, 1, IF Len(found) < MaxCandidates THEN Len(found) ELSE MaxCandidates)

\* New files are for tasks that name no file; that the specification creates some
\* makes no difference.
_allow_new_files(task) ==
    /\ _collect_candidate_files(task) = <<>>
    /\ task.classification \notin {"path_error", "collection_error", "test_failure"}

OncePerPath(files) ==
    FoldLeft(LAMBDA kept, f : IF \E i \in DOMAIN kept : kept[i].path = f.path THEN kept
                              ELSE Append(kept, f), <<>>, files)
_filter_patch_files(files, task) ==
    LET normalized == [i \in DOMAIN files |-> [files[i] EXCEPT !.path = _normalize_path(@)]]
        Stays(f) == Contains(_collect_candidate_files(task), f.path) \/ _allow_new_files(task)
    IN OncePerPath(SelectSeq(normalized, Stays))

(***************************************************************************)
(* The patch that is made without a model.                                 *)
(***************************************************************************)
_generate_basic_content(path) == [path |-> path, content |-> "stub"]
_generate_test_content == [path |-> Plain("tests/test_feature_impl.py"), content |-> "stub"]
FeatureFile == Plain("src/feature_impl.py")
Workflow == Plain(".github/workflows/ci.yml")

\* The log was denied the registry and the workflow at hand lacks the permissions.
_build_ci_permissions_patch_from_local_workflow(task) ==
    IF task.denied /\ task.workflow = "lacking" THEN <<_generate_basic_content(Workflow)>> ELSE <<>>

\* A stub over the first candidate, or one for each change of the specification, or a
\* new file; then the tests that are candidates and bring a content of their own.
_build_deterministic_patch(task) ==
    LET candidates == _collect_candidate_files(task)
        stubs == IF candidates # <<>> THEN <<_generate_basic_content(candidates[1])>>
                 ELSE IF task.changes # <<>>
                      THEN [i \in DOMAIN task.changes |->
                               _generate_basic_content(_normalize_path(task.changes[i]))]
                 ELSE IF _allow_new_files(task) THEN <<_generate_basic_content(FeatureFile)>> ELSE <<>>
        Taken(test) == /\ test.content
                       /\ Contains(candidates, _normalize_path(test.path))
                       /\ \A i \in DOMAIN stubs : stubs[i].path # _normalize_path(test.path)
        taken == SelectSeq(task.tests, Taken)
        files == stubs \o OncePerPath([i \in DOMAIN taken |->
                     [path |-> _normalize_path(taken[i].path), content |-> taken[i].path]])
        tested == \E i \in DOMAIN files : files[i].path.name \in TestNames
    IN IF task.tests # <<>> /\ _allow_new_files(task) /\ ~tested
       THEN Append(files, _generate_test_content) ELSE files

\* The files that the code generator hands on.  model.answers holds the texts that
\* came: one that cannot be read is sent back once to be repaired; a call that raises
\* brings none.
Generated(task, model) ==
    LET asked == model.use /\ (task.spec \/ _collect_candidate_files(task) # <<>>)
        read == SelectInSeq(model.answers, LAMBDA answer : _parse_llm_patch_response(answer) # <<>>)
    IN IF asked /\ read # 0
       THEN _filter_patch_files(_parse_llm_patch_response(model.answers[read]), task)
       ELSE IF model.use /\ model.require THEN <<>>
       ELSE IF _build_ci_permissions_patch_from_local_workflow(task) # <<>>
            THEN _build_ci_permissions_patch_from_local_workflow(task)
       ELSE _build_deterministic_patch(task)

-----------------------------------------------------------------------------
\* Contents are read into the files they were meant for, unless a file of the answer
\* lacks a field: then the reader that does not look at the JSON may take a content
\* that follows (_try_loose_patch_extraction has no bounds between files).
ContentsAreTheirs(answer) ==
    LET files == _parse_llm_patch_response(answer)
    IN (\A i \in DOMAIN answer : AllWhole(answer[i])) =>
           \A i \in DOMAIN files : files[i].content = files[i].path

\* A text that approves after it has said something else does not approve, and a torn
\* approval is none (parse_review_output stops at what decodes first).
ApprovedAtOnce(answer) ==
    parse_review_output(answer) = "approve" =>
        \E i \in DOMAIN answer : /\ answer[i].key = "approve" /\ ~answer[i].torn
                                 /\ \A j \in 1 .. i - 1 : answer[j].torn

\* When a task names files that can be used, a patch is made of those alone, whoever
\* made it; the repair of a workflow is the only exception.
PatchIsGrounded(task, model) ==
    LET files == Generated(task, model)
        candidates == _collect_candidate_files(task)
    IN candidates # <<>> => \A i \in DOMAIN files : \/ Contains(candidates, files[i].path)
                                                    \/ files[i].path = Workflow

\* A patch writes a path once; only what a specification repeats is repeated, and only
\* when nothing it names is below the repository (the stubs are not compared).
PathsAreDistinct(task, model) ==
    LET files == Generated(task, model)
    IN \/ \A i, j \in DOMAIN files : files[i].path = files[j].path => i = j
       \/ /\ _collect_candidate_files(task) = <<>>
          /\ \E i, j \in DOMAIN task.changes : i # j /\ task.changes[i].name = task.changes[j].name

\* A path outside of the repository is never a candidate, so it is in a patch only when
\* the task names nothing else.
OutsideIsTheLastResort(task, model) ==
    LET files == Generated(task, model)
    IN (\E i \in DOMAIN files : files[i].path.form = "outside") => _collect_candidate_files(task) = <<>>
=============================================================================
