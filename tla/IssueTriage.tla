----------------------------- MODULE IssueTriage -----------------------------
(***************************************************************************)
(* What issue_scanner makes of a list of issues (agents/issue_scanner.py): *)
(* which it passes on to the dispatcher, and with what type, priority and  *)
(* complexity.  It is a function of the issues and of those the agent has  *)
(* seen; IssueLifecycle says when it is called.                            *)
(*                                                                         *)
(* A text is the set of the words in it that the scanner looks for.        *)
(***************************************************************************)
EXTENDS Naturals, Sequences, SequencesExt, FiniteSets

\* Labels and words that hold a keyword, by the order in which types are tried.
Types == <<"bug", "feature", "enhancement", "documentation", "question", "refactoring">>
Keywords == [bug |-> {"fix", "wontfix", "agent:fixed"}, feature |-> {"add"},
             enhancement |-> {"refactor"}, documentation |-> {"doc"}, question |-> {"how"},
             refactoring |-> {"refactor", "cleanup"}]
Priorities == <<"P0", "P1", "P2", "P3">>
Indicators == [P0 |-> {"critical"}, P1 |-> {"asap"}, P2 |-> {"normal"}, P3 |-> {"minor"}]

FirstWith(order, table, words) ==
    LET i == SelectInSeq(order, LAMBDA kind : table[kind] \cap words # {})
    IN IF i = 0 THEN "unknown" ELSE order[i]

classify_issue_type(words, labels) ==
    IF FirstWith(Types, Keywords, labels) # "unknown" THEN FirstWith(Types, Keywords, labels)
    ELSE FirstWith(Types, Keywords, words)

determine_priority(words, labels) ==
    LET p == FirstWith(Priorities, Indicators, words \cup labels)
    IN IF p = "unknown" THEN "P2" ELSE p

\* A length is in quarters of a thousand characters.
estimate_complexity(heading, body, length) ==
    LET score == (IF length > 4 THEN 2 ELSE IF length > 2 THEN 1 ELSE 0)
                 + Cardinality(body \cap {"code", "api", "database", "test"})
                 + Cardinality(heading \cap {"and"})
    IN IF score >= 4 THEN "complex" ELSE IF score >= 2 THEN "medium" ELSE "simple"

-----------------------------------------------------------------------------
\* Bullets, then numbers, then boxes; a box is a bullet as well, whose text begins
\* with the box.
extract_acceptance_criteria(section) ==
    LET Marked(marks, boxed) ==
            LET items == SelectSeq(section, LAMBDA item : item.mark \in marks)
            IN [i \in DOMAIN items |-> [text |-> items[i].text,
                                        boxed |-> boxed /\ items[i].mark = "box"]]
        found == Marked({"bullet", "box"}, TRUE) \o Marked({"number"}, FALSE)
                 \o Marked({"box"}, FALSE)
    IN FoldLeft(LAMBDA unique, c : IF Contains(unique, c) THEN unique ELSE Append(unique, c),
                <<>>, found)

\* Comments without a text are left out.
build_comments_context(comments) == SelectSeq(comments, LAMBDA comment : comment.words # {})

\* The text that is analysed: the body and the comments behind it.
Analysed(issue) ==
    LET comments == build_comments_context(issue.comments)
    IN [words |-> issue.body \cup UNION {comments[i].words : i \in DOMAIN comments},
        length |-> FoldLeft(LAMBDA n, comment : n + comment.length, issue.length, comments),
        sections |-> FlattenSeq(<<issue.sections>> \o [i \in DOMAIN comments |-> comments[i].sections])]

\* The first section with acceptance criteria counts.
extract_key_info(text) ==
    IF text.sections = <<>> THEN <<>> ELSE extract_acceptance_criteria(Head(text.sections))

-----------------------------------------------------------------------------
parse_issue_labels(issue) == issue.labels \ {""}

check_invalid(issue) ==
    \/ issue.title \in {"", "short"}
    \/ "spam" \in issue.heading \cup issue.body
    \/ issue.closed /\ {"wontfix", "duplicate"} \cap issue.labels # {}

\* An issue whose description is null raises here.
check_duplicate(issue, processed) ==
    "duplicate of" \in issue.body \/ issue.title \in processed

\* What is passed on of an issue.
Classified(issue) ==
    LET text == Analysed(issue)
        labels == parse_issue_labels(issue)
    IN [id |-> issue.id,
        type |-> classify_issue_type(issue.heading \cup text.words, labels),
        priority |-> determine_priority(issue.heading \cup text.words, labels),
        complexity |-> estimate_complexity(issue.heading, text.words, text.length),
        criteria |-> extract_key_info(text)]

\* One issue of the loop; id 0 is an entry without a number for its id.
Examine(scan, issue, processed) ==
    IF scan.raised \/ issue.id = 0 THEN scan
    ELSE IF issue.id \in scan.done \/ check_invalid(issue)
    THEN [scan EXCEPT !.done = @ \cup {issue.id}, !.skipped = Append(@, issue.id)]
    ELSE IF issue.null THEN [scan EXCEPT !.raised = TRUE]
    ELSE IF check_duplicate(issue, processed)
    THEN [scan EXCEPT !.done = @ \cup {issue.id}, !.skipped = Append(@, issue.id)]
    ELSE [scan EXCEPT !.done = @ \cup {issue.id}, !.classified = Append(@, Classified(issue))]

Scan(issues, done, processed) ==
    FoldLeft(LAMBDA scan, issue : Examine(scan, issue, processed),
             [done |-> done, classified |-> <<>>, skipped |-> <<>>, raised |-> FALSE], issues)

\* The issues at hand: given, of the first artifact of repo_connector that has any
\* field for them, or fetched.
Given(context) ==
    LET i == SelectInSeq(context.artifacts, LAMBDA artifact : artifact.has)
        found == IF context.issues # <<>> THEN context.issues
                 ELSE IF i # 0 THEN context.artifacts[i].issues ELSE <<>>
    IN IF found = <<>> /\ context.client THEN context.fetched ELSE found

\* A failed request ends the scan; an issue that raises fails the whole step.
run(context, done, processed) ==
    LET issues == Given(context)
        scan == Scan(issues, done, processed)
    IN IF issues = <<>> /\ context.client /\ context.unreachable THEN "FAILURE"
       ELSE IF scan.raised THEN "raises" ELSE "SUCCESS"

_build_summary(classified) ==
    [type \in Range(Types) \cup {"unknown"} |->
        Len(SelectSeq(classified, LAMBDA c : c.type = type))]

_determine_next_actions(classified) ==
    LET of == Range(classified)
    IN {action \in {"trigger_bugfix_pipeline", "trigger_feature_pipeline", "dod_extractor"} :
           CASE action = "trigger_bugfix_pipeline" -> \E c \in of : c.type = "bug" /\ c.priority = "P0"
             [] action = "trigger_feature_pipeline" -> \E c \in of : c.type = "feature"
             [] OTHER -> \E c \in of : c.criteria = <<>>}

-----------------------------------------------------------------------------
Rank(order, kind) == SelectInSeq(order, LAMBDA k : k = kind)
Sizes == <<"simple", "medium", "complex">>

\* Unless the scan raises, each issue is passed on or skipped, is passed on at most once,
\* and not again by a second scan of the same agent (issue_scanner.py:601-684).
EachIsPassedOnOnce(issues, processed) ==
    LET first == Scan(issues, {}, processed)
        second == Scan(issues, first.done, processed)
    IN /\ \A i, j \in DOMAIN first.classified :
              first.classified[i].id = first.classified[j].id => i = j
       /\ second.classified = <<>> \/ first.raised
       /\ ~first.raised =>
             Len(first.classified) + Len(first.skipped)
                = Len(SelectSeq(issues, LAMBDA issue : issue.id # 0))

\* What comments say makes an issue more urgent and more complex, never less but for
\* one that says nothing of its urgency, and leaves the type that its labels give
\* (issue_scanner.py:662-668).
CommentsOnlyRaise(issue) ==
    LET with == Classified(issue)
        alone == Classified([issue EXCEPT !.comments = <<>>])
    IN /\ Rank(Sizes, with.complexity) >= Rank(Sizes, alone.complexity)
       /\ \/ Rank(Priorities, with.priority) <= Rank(Priorities, alone.priority)
          \/ alone.priority = "P2" /\ with.priority = "P3"
       /\ (\E k \in Range(Types) : Keywords[k] \cap parse_issue_labels(issue) # {}) =>
             with.type = alone.type

\* The counts of a summary add up, and a scan that finds nothing asks for nothing
\* (issue_scanner.py:738, 776).
SummaryAddsUp(issues) ==
    LET c == Scan(issues, {}, {}).classified
        counts == _build_summary(c)
    IN /\ FoldLeft(LAMBDA n, kind : n + counts[kind], counts["unknown"], Types) = Len(c)
       /\ _determine_next_actions(c) # {} => c # <<>>
=============================================================================
