---------------------------- MODULE AgentProofs -----------------------------
(***************************************************************************)
(* What is known of what the agents do, of their runs, their requests to   *)
(* GitHub and to language models, one by one: an invariant of each that    *)
(* every step keeps, and that says what is claimed of it.                  *)
(***************************************************************************)
EXTENDS ServiceParts, FiniteSetTheorems, WellFoundedInduction, TLAPS

-----------------------------------------------------------------------------
(* Numbers *)

\* A set of naturals has a least one.
LEMMA LeastNatural ==
    ASSUME NEW T, T \subseteq Nat, T # {}
    PROVE  \E x \in T : \A y \in T : x <= y
<1>. DEFINE R == OpToRel(<, Nat)
<1>1. IsWellFoundedOn(R, Nat)
  BY NatLessThanWellFounded
<1>2. \A x, y \in Nat : x < y => <<x, y>> \in R
  BY DEF OpToRel
<1>. HIDE DEF R
<1>3. PICK x \in T : \A y \in T : ~(<<y, x>> \in R)
  BY <1>1, WFMin
<1>4. ASSUME NEW y \in T PROVE x <= y
  <2>1. x \in Nat /\ y \in Nat /\ ~(y < x)
    BY <1>2, <1>3
  <2>. QED
    BY <2>1
<1>. QED
  BY <1>4

\* And a set of bounded ones has a greatest.
LEMMA GreatestNumber ==
    ASSUME NEW n \in Nat, NEW S, S \subseteq 1 .. n, S # {}
    PROVE  \E x \in S : \A y \in S : y <= x
<1>. DEFINE T == {n - y : y \in S}
<1>1. ASSUME NEW y \in S PROVE y \in 1 .. n /\ n - y \in Nat
  OBVIOUS
<1>2. T \subseteq Nat /\ T # {}
  BY <1>1
<1>3. PICK z \in T : \A y \in T : z <= y
  BY <1>2, LeastNatural
<1>4. PICK x \in S : z = n - x
  BY <1>3
<1>5. ASSUME NEW y \in S PROVE y <= x
  <2>1. n - y \in T
    OBVIOUS
  <2>. QED
    BY <1>1, <1>3, <1>4, <2>1
<1>. QED
  BY <1>4, <1>5

-----------------------------------------------------------------------------
(* The CI incidents, in the variables of the composition *)

HandoffStates == {"idle", "search", "skipped", "create", "repeat", "enrich", "done", "failed"}

IncidentTypes ==
    /\ observed \subseteq CiRuns
    /\ handoff \in [Handoffs -> [pc : HandoffStates, run : Nat, page : SUBSET Nat, found : Nat]]
    /\ \A h \in Handoffs : handoff[h].page \subseteq DOMAIN incidents
    /\ incidents \in Seq([run : Nat, by : Handoffs, open : BOOLEAN])

\* An issue is of the run that its handoff was started for, and that has asked for it.
OfItsHandoff ==
    \A i \in DOMAIN incidents :
        /\ incidents[i].run = handoff[incidents[i].by].run
        /\ handoff[incidents[i].by].pc \in {"repeat", "done", "failed"}

\* A handoff that opens an issue, or did, saw none that matches.
NoneWasSeen ==
    \A h \in Handoffs :
        \/ handoff[h].pc \in {"create", "repeat"}
        \/ \E i \in DOMAIN incidents : incidents[i].by = h
        => \A i \in handoff[h].page : ~Incident!IsPrefix(handoff[h].run, incidents[i].run)

FoundMatches(h) == /\ handoff[h].found \in DOMAIN incidents
                   /\ Incident!IsPrefix(handoff[h].run, incidents[handoff[h].found].run)

\* One that adds to an issue, or did, found one that matches.
OneIsThere ==
    \A h \in Handoffs :
        /\ handoff[h].pc = "enrich" => FoundMatches(h)
        /\ handoff[h].pc = "done" =>
               FoundMatches(h) \/ \E i \in DOMAIN incidents : incidents[i].run = handoff[h].run

\* Processed runs were handed off.
ObservedIsHandedOff ==
    \A r \in observed : \E h \in Handoffs : handoff[h].run = r /\ handoff[h].pc # "idle"

IncidentInv == IncidentTypes /\ OfItsHandoff /\ NoneWasSeen /\ OneIsThere /\ ObservedIsHandedOff

\* A step that adds to the issues, changing neither run nor author of one.
IssuesKept ==
    /\ incidents' \in Seq([run : Nat, by : Handoffs, open : BOOLEAN])
    /\ DOMAIN incidents \subseteq DOMAIN incidents'
    /\ \A i \in DOMAIN incidents : /\ incidents'[i].run = incidents[i].run
                                   /\ incidents'[i].by = incidents[i].by

\* It adds none.
SameIssues == IssuesKept /\ DOMAIN incidents' = DOMAIN incidents

\* What a sequence holds.
LEMMA ElementType ==
    ASSUME NEW S, NEW s \in Seq(S), NEW i \in DOMAIN s
    PROVE  s[i] \in S
OBVIOUS

\* The authors of the issues.
LEMMA AuthorsAreHandoffs ==
    ASSUME IncidentInv
    PROVE  \A i \in DOMAIN incidents : incidents[i].by \in Handoffs
<1>1. ASSUME NEW i \in DOMAIN incidents PROVE incidents[i].by \in Handoffs
  <2>1. incidents[i] \in [run : Nat, by : Handoffs, open : BOOLEAN]
    BY ElementType DEF IncidentInv, IncidentTypes
  <2>. QED
    BY <2>1
<1>. QED
  BY <1>1

\* A search that finds something takes something that it found.
LEMMA SearchFinds ==
    ASSUME IncidentInv, NEW S, S \subseteq DOMAIN incidents, S # {}
    PROVE  (CHOOSE i \in S : \A j \in S : j <= i) \in S
<1>1. DOMAIN incidents = 1 .. Len(incidents) /\ Len(incidents) \in Nat
  BY DEF IncidentInv, IncidentTypes
<1>2. \E i \in S : \A j \in S : j <= i
  BY <1>1, GreatestNumber
<1>. QED
  BY <1>2

\* A step that leaves the handoffs alone.
LEMMA HandoffsRest ==
    ASSUME IncidentInv, UNCHANGED handoff, SameIssues, observed' \subseteq observed
    PROVE  IncidentInv'
<1>1. IncidentTypes'
  BY DEF IncidentInv, IncidentTypes, SameIssues, IssuesKept
<1>2. OfItsHandoff'
  BY DEF IncidentInv, OfItsHandoff, SameIssues, IssuesKept
<1>3. NoneWasSeen'
  BY DEF IncidentInv, IncidentTypes, NoneWasSeen, SameIssues, IssuesKept
<1>4. OneIsThere'
  BY DEF IncidentInv, OneIsThere, FoundMatches, SameIssues, IssuesKept
<1>5. ObservedIsHandedOff'
  BY DEF IncidentInv, ObservedIsHandedOff
<1>. QED
  BY <1>1, <1>2, <1>3, <1>4, <1>5 DEF IncidentInv

\* The start of a handoff for a run, which may be observed with it.
LEMMA HandoffBegins ==
    ASSUME PartsAssumption, IncidentInv, NEW h \in Handoffs, NEW r \in CiRuns,
           Incident!Start(h, r), UNCHANGED incidents, observed' \subseteq observed \cup {r}
    PROVE  IncidentInv'
<1>. DEFINE new == handoff'[h]
<1>1. /\ handoff[h].pc = "idle"
      /\ \A g \in Handoffs \ {h} : handoff'[g] = handoff[g]
      /\ new \in [pc : {"search", "skipped"}, run : {r}, page : {{}}, found : Nat]
  <2>1. /\ handoff[h] = Incident!Idle
        /\ handoff' = [handoff EXCEPT ![h] = Incident!Analysed(r)]
    BY DEF Incident!Start
  <2>2. Incident!Idle \in [pc : {"idle"}, run : {0}, page : {{}}, found : {0}]
    BY DEF Incident!Idle
  <2>3. Incident!Idle.pc = "idle"
    BY DEF Incident!Idle
  <2>4. Incident!Analysed(r) \in
            [pc : {"search", "skipped"}, run : {r}, page : {{}}, found : Nat]
    <3>1. PICK p \in {"search", "skipped"} :
              Incident!Analysed(r) = [Incident!Idle EXCEPT !.pc = p, !.run = r]
      BY DEF Incident!Analysed
    <3>2. Incident!Idle = [pc |-> "idle", run |-> 0, page |-> {}, found |-> 0]
      BY DEF Incident!Idle
    <3>3. Incident!Analysed(r) = [pc |-> p, run |-> r, page |-> {}, found |-> 0]
      BY <3>1, <3>2
    <3>. QED
      BY <3>3
  <2>5. /\ new = Incident!Analysed(r)
        /\ \A g \in Handoffs \ {h} : handoff'[g] = handoff[g]
    BY <2>1 DEF IncidentInv, IncidentTypes
  <2>. QED
    BY <2>1, <2>3, <2>4, <2>5
<1>2. r \in Nat
  BY DEF PartsAssumption, Incident!CiIncidentAssumption
<1>3. IncidentTypes'
  <2>1. new \in [pc : HandoffStates, run : Nat, page : SUBSET Nat, found : Nat]
        /\ new.page = {}
    BY <1>1, <1>2 DEF HandoffStates
  <2>2. handoff' = [g \in Handoffs |-> handoff'[g]]
    BY DEF Incident!Start, IncidentInv, IncidentTypes
  <2>. QED
    BY <1>1, <2>1, <2>2 DEF IncidentInv, IncidentTypes
<1>4. \A i \in DOMAIN incidents : incidents[i].by # h /\ incidents[i].by \in Handoffs
  <2>1. SUFFICES ASSUME NEW i \in DOMAIN incidents
                 PROVE  incidents[i].by # h /\ incidents[i].by \in Handoffs
    OBVIOUS
  <2>2. incidents[i].by \in Handoffs
    BY AuthorsAreHandoffs
  <2>3. handoff[incidents[i].by].pc # "idle"
    BY DEF IncidentInv, OfItsHandoff
  <2>. QED
    BY <1>1, <2>2, <2>3
<1>5. OfItsHandoff'
  BY <1>1, <1>4 DEF IncidentInv, OfItsHandoff
<1>6. NoneWasSeen'
  BY <1>1, <1>4 DEF IncidentInv, NoneWasSeen
<1>7. OneIsThere'
  BY <1>1 DEF IncidentInv, OneIsThere, FoundMatches
<1>8. ObservedIsHandedOff'
  BY <1>1 DEF IncidentInv, ObservedIsHandedOff
<1>. QED
  BY <1>3, <1>5, <1>6, <1>7, <1>8 DEF IncidentInv

\* The search.
LEMMA HandoffSearches ==
    ASSUME IncidentInv, NEW h \in Handoffs, Incident!Find(h)
    PROVE  IncidentInv'
<1>. DEFINE new == handoff'[h]
            found == Incident!Matching(h, Incident!FirstPage)
<1>1. /\ handoff[h].pc = "search" /\ UNCHANGED <<incidents, observed>>
      /\ handoff' = [handoff EXCEPT
              ![h].page = Incident!FirstPage,
              ![h].found = IF found = {} THEN 0
                           ELSE CHOOSE i \in found : \A j \in found : j <= i,
              ![h].pc = IF found = {} THEN "create" ELSE "enrich"]
  BY DEF Incident!Find
<1>2. /\ Incident!FirstPage \subseteq DOMAIN incidents /\ found \subseteq DOMAIN incidents
      /\ DOMAIN incidents \subseteq Nat /\ Len(incidents) \in Nat
  <2>1. Incident!FirstPage \subseteq DOMAIN incidents
    BY Zenon DEF Incident!FirstPage, Incident!OpenIncidents
  <2>2. found \subseteq Incident!FirstPage
    BY Zenon DEF Incident!Matching
  <2>3. DOMAIN incidents \subseteq Nat /\ Len(incidents) \in Nat
    BY DEF IncidentInv, IncidentTypes
  <2>. QED
    BY <2>1, <2>2, <2>3
<1>0. UNCHANGED incidents /\ handoff[h].pc = "search"
  BY <1>1
<1>3. /\ new.page = Incident!FirstPage /\ new.run = handoff[h].run
      /\ new.pc = IF found = {} THEN "create" ELSE "enrich"
      /\ new.found = IF found = {} THEN 0
                     ELSE CHOOSE i \in found : \A j \in found : j <= i
      /\ \A g \in Handoffs \ {h} : handoff'[g] = handoff[g]
  BY <1>1 DEF IncidentInv, IncidentTypes
<1>4. found # {} => new.found \in found
  BY <1>2, <1>3, SearchFinds
<1>. HIDE DEF found
<1>5. IncidentTypes'
  <2>1. new.found \in Nat
    BY <1>2, <1>3, <1>4
  <2>2. new \in [pc : HandoffStates, run : Nat, page : SUBSET Nat, found : Nat]
    <3>1. handoff[h] \in [pc : HandoffStates, run : Nat, page : SUBSET Nat, found : Nat]
      BY DEF IncidentInv, IncidentTypes
    <3>2. new = [pc |-> new.pc, run |-> new.run, page |-> new.page, found |-> new.found]
      BY <1>1, <3>1 DEF IncidentInv, IncidentTypes
    <3>3. new.pc \in HandoffStates /\ new.run \in Nat /\ new.page \in SUBSET Nat
      BY <1>2, <1>3, <3>1 DEF HandoffStates
    <3>. QED
      BY <1>2, <2>1, <3>2, <3>3
  <2>3. handoff' = [g \in Handoffs |-> handoff'[g]]
    <3>1. handoff = [g \in Handoffs |-> handoff[g]]
      BY DEF IncidentInv, IncidentTypes
    <3>2. PICK page, one, p :
              handoff' = [handoff EXCEPT ![h].page = page,
                                         ![h].found = one, ![h].pc = p]
      BY <1>1, Zenon
    <3>. QED
      BY <3>1, <3>2
  <2>. QED
    BY <1>1, <1>2, <1>3, <2>2, <2>3 DEF IncidentInv, IncidentTypes
<1>6. \A i \in DOMAIN incidents : incidents[i].by # h
  BY <1>1 DEF IncidentInv, OfItsHandoff
<1>7. OfItsHandoff'
  <2>1. \A i \in DOMAIN incidents : incidents[i].by \in Handoffs
    BY AuthorsAreHandoffs
  <2>2. \A i \in DOMAIN incidents : handoff'[incidents[i].by] = handoff[incidents[i].by]
    BY <1>3, <1>6, <2>1
  <2>3. OfItsHandoff /\ incidents' = incidents
    BY <1>0 DEF IncidentInv
  <2>. QED
    BY <2>2, <2>3 DEF OfItsHandoff
<1>8. NoneWasSeen'
  <2>1. new.pc \in {"create", "repeat"} =>
            \A i \in new.page : ~Incident!IsPrefix(new.run, incidents[i].run)
    <3>1. found = {} => \A i \in Incident!FirstPage :
                            ~Incident!IsPrefix(handoff[h].run, incidents[i].run)
      BY DEF found, Incident!Matching, Incident!Matches
    <3>. QED
      BY <1>3, <3>1
  <2>. QED
    BY <1>1, <1>3, <1>6, <2>1 DEF IncidentInv, NoneWasSeen
<1>9. OneIsThere'
  <2>1. new.pc = "enrich" => FoundMatches(h)'
    <3>1. \A i \in found : Incident!IsPrefix(handoff[h].run, incidents[i].run)
      BY DEF found, Incident!Matching, Incident!Matches
    <3>2. new.pc = "enrich" => new.found \in found
      BY <1>3, <1>4
    <3>3. found \subseteq DOMAIN incidents /\ new.run = handoff[h].run
      BY <1>2, <1>3
    <3>. QED
      BY <1>0, <3>1, <3>2, <3>3 DEF FoundMatches
  <2>2. new.pc # "done"
    BY <1>3
  <2>3. ASSUME NEW g \in Handoffs \ {h}
        PROVE  handoff'[g] = handoff[g] /\ (FoundMatches(g) => FoundMatches(g)')
    BY <1>0, <1>3 DEF FoundMatches
  <2>. QED
    BY <1>0, <2>1, <2>2, <2>3 DEF IncidentInv, OneIsThere
<1>10. ObservedIsHandedOff'
  <2>1. UNCHANGED observed
    BY <1>1
  <2>2. \A g \in Handoffs : /\ handoff'[g].run = handoff[g].run
                            /\ handoff[g].pc # "idle" => handoff'[g].pc # "idle"
    BY <1>3
  <2>. QED
    BY <2>1, <2>2 DEF IncidentInv, ObservedIsHandedOff
<1>. QED
  BY <1>5, <1>7, <1>8, <1>9, <1>10 DEF IncidentInv

\* What comes after it, with or without an issue being opened.
LEMMA HandoffAdvances ==
    ASSUME IncidentInv, NEW h \in Handoffs, NEW p \in {"repeat", "done", "failed"},
           handoff' = [handoff EXCEPT ![h].pc = p], UNCHANGED observed,
           \/ UNCHANGED incidents /\ handoff[h].pc # "idle" /\ p # "repeat"
              /\ (p = "done" => handoff[h].pc = "enrich")
           \/ incidents' = Incident!Opened(h) /\ handoff[h].pc \in {"create", "repeat"}
    PROVE  IncidentInv'
<1>. DEFINE new == handoff'[h]
            Issue == [run : Nat, by : Handoffs, open : BOOLEAN]
<1>1. handoff[h] \in [pc : HandoffStates, run : Nat, page : SUBSET Nat, found : Nat]
      /\ incidents \in Seq(Issue)
  BY DEF IncidentInv, IncidentTypes
<1>2. /\ new.pc = p /\ new.run = handoff[h].run /\ new.page = handoff[h].page
      /\ new.found = handoff[h].found
      /\ \A g \in Handoffs \ {h} : handoff'[g] = handoff[g]
      /\ new \in [pc : HandoffStates, run : Nat, page : SUBSET Nat, found : Nat]
  BY <1>1 DEF IncidentInv, IncidentTypes, HandoffStates
<1>3. /\ IssuesKept
      /\ \A i \in DOMAIN incidents' \ DOMAIN incidents :
             /\ incidents'[i].run = handoff[h].run /\ incidents'[i].by = h
             /\ handoff[h].pc \in {"create", "repeat"}
      /\ incidents' = Incident!Opened(h) =>
             \E i \in DOMAIN incidents' : incidents'[i].run = handoff[h].run
  <2>1. CASE UNCHANGED incidents
    <3>1. CASE incidents' = Incident!Opened(h)
      <4>1. Len(Append(incidents, [run |-> handoff[h].run, by |-> h, open |-> TRUE]))
                = Len(incidents) + 1
            /\ Len(incidents) \in Nat
        BY <1>1
      <4>. QED
        BY <2>1, <3>1, <4>1 DEF Incident!Opened
    <3>. QED
      BY <1>1, <2>1, <3>1 DEF IssuesKept
  <2>2. CASE incidents' = Incident!Opened(h) /\ handoff[h].pc \in {"create", "repeat"}
    <3>. DEFINE issue == [run |-> handoff[h].run, by |-> h, open |-> TRUE]
                n == Len(incidents)
    <3>1. issue \in Issue /\ incidents' = Append(incidents, issue)
      BY <1>1, <2>2 DEF Incident!Opened
    <3>2. issue.run = handoff[h].run /\ issue.by = h
      OBVIOUS
    <3>. HIDE DEF issue, Issue
    <3>3. /\ incidents' \in Seq(Issue) /\ n \in Nat
          /\ DOMAIN incidents = 1 .. n /\ DOMAIN incidents' = 1 .. n + 1
          /\ \A i \in 1 .. n : incidents'[i] = incidents[i]
          /\ incidents'[n + 1] = issue
      BY <1>1, <3>1
    <3>. QED
      BY <2>2, <3>2, <3>3 DEF IssuesKept, Issue
  <2>. QED
    BY <2>1, <2>2
<1>4. \A i \in DOMAIN incidents : incidents[i].by \in Handoffs
  BY AuthorsAreHandoffs
<1>5. IncidentTypes'
  <2>1. handoff' = [g \in Handoffs |-> handoff'[g]]
    BY DEF IncidentInv, IncidentTypes
  <2>. QED
    BY <1>2, <1>3, <2>1 DEF IncidentInv, IncidentTypes, IssuesKept
<1>6. OfItsHandoff'
  BY <1>2, <1>3, <1>4 DEF IncidentInv, OfItsHandoff, IssuesKept
<1>7. NoneWasSeen'
  <2>1. SUFFICES ASSUME NEW g \in Handoffs,
                        \/ handoff'[g].pc \in {"create", "repeat"}
                        \/ \E i \in DOMAIN incidents' : incidents'[i].by = g,
                        NEW i \in handoff'[g].page
                 PROVE  ~Incident!IsPrefix(handoff'[g].run, incidents'[i].run)
    BY DEF NoneWasSeen
  <2>2. \/ handoff[g].pc \in {"create", "repeat"}
        \/ \E k \in DOMAIN incidents : incidents[k].by = g
    BY <1>2, <1>3, <2>1 DEF IssuesKept
  <2>3. i \in handoff[g].page /\ handoff'[g].run = handoff[g].run /\ i \in DOMAIN incidents
    BY <1>2, <2>1 DEF IncidentInv, IncidentTypes
  <2>4. ~Incident!IsPrefix(handoff[g].run, incidents[i].run)
    BY <2>2, <2>3 DEF IncidentInv, NoneWasSeen
  <2>. QED
    BY <1>3, <2>3, <2>4 DEF IssuesKept
<1>8. OneIsThere'
  <2>1. ASSUME NEW g \in Handoffs, FoundMatches(g) PROVE FoundMatches(g)'
    BY <1>2, <1>3, <2>1 DEF FoundMatches, IssuesKept
  <2>2. p = "done" => FoundMatches(h)' \/ \E i \in DOMAIN incidents' : incidents'[i].run = new.run
    BY <1>2, <1>3, <2>1 DEF IncidentInv, OneIsThere
  <2>. QED
    BY <1>2, <1>3, <2>1, <2>2 DEF IncidentInv, OneIsThere, IssuesKept
<1>9. ObservedIsHandedOff'
  BY <1>2 DEF IncidentInv, ObservedIsHandedOff
<1>. QED
  BY <1>5, <1>6, <1>7, <1>8, <1>9 DEF IncidentInv

\* Every step of the monitor, the service and the handoffs.
LEMMA IncidentStep ==
    ASSUME PartsAssumption, IncidentInv, [Incident!Next]_Incident!vars
    PROVE  IncidentInv'
<1>1. incidents \in Seq([run : Nat, by : Handoffs, open : BOOLEAN])
  BY DEF IncidentInv, IncidentTypes
<1>2. UNCHANGED incidents => SameIssues
  BY <1>1 DEF SameIssues, IssuesKept
<1>3. ASSUME NEW r \in CiRuns,
             Incident!CiReruns(r) \/ \E c \in Incident!Conclusions : Incident!CiEnds(r, c)
      PROVE  IncidentInv'
  BY <1>2, <1>3, HandoffsRest DEF Incident!CiEnds, Incident!CiReruns
<1>4. ASSUME NEW i \in DOMAIN incidents, Incident!Resolve(i) PROVE IncidentInv'
  <2>1. /\ incidents' = [incidents EXCEPT ![i].open = FALSE]
        /\ UNCHANGED <<observed, handoff>>
    BY <1>4 DEF Incident!Resolve
  <2>2. [incidents[i] EXCEPT !.open = FALSE] \in [run : Nat, by : Handoffs, open : BOOLEAN]
        /\ [incidents[i] EXCEPT !.open = FALSE].run = incidents[i].run
        /\ [incidents[i] EXCEPT !.open = FALSE].by = incidents[i].by
    <3>1. incidents[i] \in [run : Nat, by : Handoffs, open : BOOLEAN]
      BY <1>1, ElementType
    <3>. QED
      BY <3>1
  <2>3. SameIssues
    BY <1>1, <2>1, <2>2 DEF SameIssues, IssuesKept
  <2>. QED
    BY <2>1, <2>3, HandoffsRest
<1>5. ASSUME NEW r \in CiRuns, NEW h \in Handoffs,
             Incident!Observe(r, h) \/ Incident!Submit(r, h)
      PROVE  IncidentInv'
  <2>1. CASE Incident!Observe(r, h) /\ ~Incident!CountsAsFailed(conclusion[r])
    BY <1>2, <2>1, HandoffsRest DEF Incident!Observe, Incident!MarkedBy
  <2>2. CASE Incident!Observe(r, h) /\ Incident!CountsAsFailed(conclusion[r])
    BY <2>2, HandoffBegins DEF Incident!Observe, Incident!MarkedBy
  <2>3. CASE Incident!Submit(r, h)
    BY <2>3, HandoffBegins DEF Incident!Submit
  <2>. QED
    BY <1>5, <2>1, <2>2, <2>3
<1>6. CASE Incident!SchedulerRestarts
  BY <1>2, <1>6, HandoffsRest DEF Incident!SchedulerRestarts
<1>7. ASSUME NEW h \in Handoffs,
             Incident!Create(h) \/ Incident!CreateUnanswered(h) \/ Incident!HandoffFails(h)
             \/ Incident!Enrich(h)
      PROVE  IncidentInv'
  <2>1. CASE Incident!Create(h)
    BY <2>1, HandoffAdvances DEF Incident!Create
  <2>2. CASE Incident!CreateUnanswered(h)
    BY <2>2, HandoffAdvances DEF Incident!CreateUnanswered
  <2>3. CASE Incident!HandoffFails(h) \/ Incident!Enrich(h)
    BY <2>3, HandoffAdvances DEF Incident!HandoffFails, Incident!Enrich
  <2>. QED
    BY <1>7, <2>1, <2>2, <2>3
<1>8. CASE UNCHANGED Incident!vars
  BY <1>2, <1>8, HandoffsRest DEF Incident!vars
<1>. QED
  BY <1>3, <1>4, <1>5, <1>6, <1>7, <1>8, HandoffSearches DEF Incident!Next

-----------------------------------------------------------------------------
(* The language models, in the variables of the composition *)

CallTypes ==
    /\ pc \in {"list", "fetch", "ask", "parse", "settle", "done"}
    /\ present \subseteq Profiles
    /\ order \in Seq(Profiles) /\ candidates \in Seq(Profiles)
    /\ answers \in Seq(Profiles \X {"failed", "answered"})
    /\ fetched \in 0 .. Len(order)
    /\ pc \in {"ask", "parse"} => index \in 1 .. Len(candidates)

\* Before the first is asked, the candidates are among those the call has fetched.
Unasked ==
    /\ pc = "list" => order = << >>
    /\ pc \in {"list", "fetch"} =>
          /\ answers = << >> /\ index = 1
          /\ \A c \in 1 .. Len(candidates) : \E k \in 1 .. fetched : candidates[c] = order[k]

\* No profile is listed twice, and the candidates come as they are listed.
ListedOrder ==
    /\ \A i, k \in 1 .. Len(order) : order[i] = order[k] => i = k
    /\ \A i, k \in 1 .. Len(order), c, d \in 1 .. Len(candidates) :
          candidates[c] = order[i] /\ candidates[d] = order[k] /\ i < k => c < d

\* The first m candidates were asked, and nobody else.
AskedUpTo(m) == \A p \in Profiles : Llm!Asked(p) <=> \E c \in 1 .. m : candidates[c] = p
AskedFromFirst ==
    \E m \in 0 .. Len(candidates) :
        AskedUpTo(m) /\ (pc \in {"ask", "parse"} => index <= m + 1)

\* What a call that settles has done.
HasReason ==
    \/ unparsed
    \/ \A c \in 1 .. Len(candidates) : Llm!Asked(candidates[c])
    \/ Len(candidates) = 1 /\ ~Llm!Buildable(candidates[1])
SettledForReason == pc \in {"settle", "done"} /\ outcome # "llm" => HasReason

CallInv == CallTypes /\ Unasked /\ ListedOrder /\ AskedFromFirst /\ SettledForReason

\* A profile that is asked is one more that was.
LEMMA AskedOnce ==
    ASSUME answers \in Seq(Profiles \X {"failed", "answered"}),
           NEW q \in Profiles, NEW how \in {"failed", "answered"},
           answers' = Append(answers, <<q, how>>)
    PROVE  /\ answers' \in Seq(Profiles \X {"failed", "answered"})
           /\ \A p \in Profiles : Llm!Asked(p)' <=> Llm!Asked(p) \/ p = q
<1>1. /\ answers' \in Seq(Profiles \X {"failed", "answered"})
      /\ Len(answers) \in Nat /\ Len(answers') = Len(answers) + 1
      /\ DOMAIN answers = 1 .. Len(answers) /\ DOMAIN answers' = 1 .. Len(answers')
      /\ \A i \in 1 .. Len(answers) : answers'[i] = answers[i]
      /\ answers'[Len(answers) + 1] = <<q, how>>
  OBVIOUS
<1>2. ASSUME NEW p \in Profiles, Llm!Asked(p)' PROVE Llm!Asked(p) \/ p = q
  <2>1. PICK i \in 1 .. Len(answers) + 1 : answers'[i][1] = p
    BY <1>1, <1>2 DEF Llm!Asked
  <2>2. CASE i = Len(answers) + 1
    BY <1>1, <2>1, <2>2
  <2>3. CASE i \in 1 .. Len(answers)
    BY <1>1, <2>1, <2>3 DEF Llm!Asked
  <2>. QED
    BY <1>1, <2>2, <2>3
<1>3. ASSUME NEW p \in Profiles, Llm!Asked(p) \/ p = q PROVE Llm!Asked(p)'
  <2>1. CASE p = q
    <3>1. Len(answers) + 1 \in DOMAIN answers'
      BY <1>1
    <3>2. answers'[Len(answers) + 1][1] = p
      BY <1>1, <2>1
    <3>. QED
      BY <3>1, <3>2 DEF Llm!Asked
  <2>2. CASE Llm!Asked(p)
    <3>1. PICK i \in 1 .. Len(answers) : answers[i][1] = p
      BY <1>1, <2>2 DEF Llm!Asked
    <3>2. i \in DOMAIN answers' /\ answers'[i][1] = p
      BY <1>1, <3>1
    <3>. QED
      BY <3>2 DEF Llm!Asked
  <2>. QED
    BY <1>3, <2>1, <2>2
<1>. QED
  BY <1>1, <1>2, <1>3

\* Asking the candidate at the index extends what was asked from the first on.
LEMMA AskedNext ==
    ASSUME CallInv, pc = "ask", NEW how \in {"failed", "answered"},
           answers' = Append(answers, <<candidates[index], how>>),
           candidates' = candidates
    PROVE  /\ answers' \in Seq(Profiles \X {"failed", "answered"})
           /\ \E m \in 0 .. Len(candidates) : AskedUpTo(m)' /\ index <= m
<1>1. /\ candidates \in Seq(Profiles) /\ index \in 1 .. Len(candidates)
      /\ answers \in Seq(Profiles \X {"failed", "answered"})
      /\ Len(candidates) \in Nat /\ candidates[index] \in Profiles
  BY DEF CallInv, CallTypes
<1>2. /\ answers' \in Seq(Profiles \X {"failed", "answered"})
      /\ \A p \in Profiles : Llm!Asked(p)' <=> Llm!Asked(p) \/ p = candidates[index]
  BY <1>1, AskedOnce
<1>3. PICK m \in 0 .. Len(candidates) : AskedUpTo(m) /\ index <= m + 1
  BY DEF CallInv, AskedFromFirst
<1>4. PICK n \in 0 .. Len(candidates) : n = IF index = m + 1 THEN m + 1 ELSE m
  BY <1>1, <1>3
<1>5. \A c \in 1 .. n : c \in 1 .. m \/ c = index
  BY <1>1, <1>3, <1>4
<1>6. index \in 1 .. n /\ \A c \in 1 .. m : c \in 1 .. n
  BY <1>1, <1>3, <1>4
<1>7. ASSUME NEW p \in Profiles
      PROVE  Llm!Asked(p)' <=> \E c \in 1 .. n : candidates[c] = p
  <2>1. Llm!Asked(p) <=> \E c \in 1 .. m : candidates[c] = p
    BY <1>3 DEF AskedUpTo
  <2>. QED
    BY <1>2, <1>5, <1>6, <2>1
<1>8. AskedUpTo(n)'
  BY <1>7 DEF AskedUpTo
<1>. QED
  BY <1>1, <1>2, <1>6, <1>8

\* Whether a wrapper can be made of a profile is a matter of the configuration.
LEMMA ReasonStands ==
    ASSUME HasReason,
           UNCHANGED <<provider, keyKind, candidates, answers>>, unparsed => unparsed'
    PROVE  HasReason'
BY DEF HasReason, Llm!Asked, Llm!Buildable

\* The invariant holds before the call.
LEMMA CallInit ==
    ASSUME Llm!Init
    PROVE  CallInv
<1>1. /\ pc = "list" /\ order = << >> /\ fetched = 0 /\ candidates = << >>
      /\ index = 1 /\ answers = << >> /\ present \subseteq Profiles
  BY DEF Llm!Init
<1>2. CallTypes
  BY <1>1 DEF CallTypes
<1>3. Len(candidates) = 0 /\ Len(order) = 0
  BY <1>1
<1>4. AskedUpTo(0)
  BY <1>1 DEF AskedUpTo, Llm!Asked
<1>5. AskedFromFirst /\ SettledForReason
  BY <1>1, <1>3, <1>4 DEF AskedFromFirst, SettledForReason
<1>6. Unasked /\ ListedOrder
  BY <1>1, <1>3 DEF Unasked, ListedOrder
<1>. QED
  BY <1>2, <1>5, <1>6 DEF CallInv

\* What changes meanwhile leaves the call alone.
LEMMA ChangeKeepsCall ==
    ASSUME CallInv, UNCHANGED <<provider, keyKind, order, candidates, answers, fetched, index,
                                pc, unparsed, outcome>>,
           present' \subseteq present
    PROVE  CallInv'
<1>1. CallTypes' /\ Unasked' /\ ListedOrder'
  BY DEF CallInv, CallTypes, Unasked, ListedOrder
<1>2. AskedFromFirst'
  BY DEF CallInv, AskedFromFirst, AskedUpTo, Llm!Asked
<1>3. SettledForReason'
  BY ReasonStands DEF CallInv, SettledForReason
<1>. QED
  BY <1>1, <1>2, <1>3 DEF CallInv

\* A listing names profiles, each once.
LEMMA ListingIsOnce ==
    ASSUME present \subseteq Profiles, NEW s \in Llm!Listings
    PROVE  s \in Seq(Profiles) /\ \A i, k \in 1 .. Len(s) : s[i] = s[k] => i = k
<1>1. Cardinality(present) \in Nat
  <2>1. Llm!IsFiniteSet(Profiles)
    BY PartsAssumption DEF Llm!CallAssumption
  <2>2. IsFiniteSet(Profiles)
    BY <2>1 DEF Llm!IsFiniteSet, IsFiniteSet
  <2>. QED
    BY <2>2, FS_Subset, FS_CardinalityType
<1>2. s \in [1 .. Cardinality(present) -> present] /\ Llm!DefaultFirst(s)
  <2>1. Llm!Cardinality(present) = Cardinality(present)
    BY DEF Llm!Cardinality, Cardinality
  <2>. QED
    BY <2>1 DEF Llm!Listings
<1>3. s \in Seq(present)
  BY <1>1, <1>2
<1>4. s \in Seq(Profiles) /\ DOMAIN s = 1 .. Len(s)
  BY <1>3
<1>. QED
  BY <1>2, <1>4 DEF Llm!DefaultFirst, Llm!IsInjective

\* The listing keeps the invariant.
LEMMA ListKeepsCall ==
    ASSUME CallInv, Llm!List
    PROVE  CallInv'
<1>1. /\ pc = "list" /\ pc' = "fetch"
      /\ order' = << >> \/ order' \in Llm!Listings
      /\ UNCHANGED <<provider, keyKind, present, fetched, candidates, answers, index, unparsed,
                     outcome>>
  BY DEF Llm!List, Llm!configuration
<1>2. /\ CallTypes /\ order = << >> /\ answers = << >> /\ candidates \in Seq(Profiles)
      /\ \A c \in 1 .. Len(candidates) : \E k \in 1 .. fetched : candidates[c] = order[k]
      /\ fetched = 0 /\ Len(candidates) = 0 /\ index = 1
  <2>1. /\ CallTypes /\ order = << >> /\ answers = << >> /\ candidates \in Seq(Profiles)
        /\ \A c \in 1 .. Len(candidates) : \E k \in 1 .. fetched : candidates[c] = order[k]
        /\ fetched = 0 /\ index = 1
    BY <1>1 DEF CallInv, Unasked, CallTypes
  <2>2. \A c \in 1 .. Len(candidates) : FALSE
    BY <2>1
  <2>. QED
    BY <2>1, <2>2
<1>3. order' \in Seq(Profiles) /\ \A i, k \in 1 .. Len(order') : order'[i] = order'[k] => i = k
  <2>1. CASE order' = << >>
    BY <2>1
  <2>2. CASE order' \in Llm!Listings
    BY <1>2, <2>2, ListingIsOnce DEF CallTypes
  <2>. QED
    BY <1>1, <2>1, <2>2
<1>4. CallTypes'
  <2>1. Len(order') \in Nat
    BY <1>3
  <2>2. 0 \in 0 .. Len(order')
    BY <2>1
  <2>3. fetched' = 0 /\ pc' = "fetch"
    BY <1>1, <1>2
  <2>. QED
    <3>1. present' \subseteq Profiles /\ candidates' \in Seq(Profiles)
      BY <1>1, <1>2 DEF CallTypes
    <3>2. answers' \in Seq(Profiles \X {"failed", "answered"})
      BY <1>1, <1>2 DEF CallTypes
    <3>. QED
      BY <1>3, <2>2, <2>3, <3>1, <3>2 DEF CallTypes
<1>5. Unasked' /\ ListedOrder' /\ SettledForReason'
  BY <1>1, <1>2, <1>3 DEF Unasked, ListedOrder, SettledForReason
<1>6. AskedFromFirst'
  BY <1>1, <1>2 DEF AskedFromFirst, AskedUpTo, Llm!Asked
<1>. QED
  BY <1>4, <1>5, <1>6 DEF CallInv

\* A profile that is fetched is the next one of the listing.
LEMMA FetchKeepsCall ==
    ASSUME CallInv, Llm!Fetch
    PROVE  CallInv'
<1>1. /\ pc = "fetch" /\ fetched < Len(order) /\ fetched' = fetched + 1
      /\ candidates' \in {candidates, Append(candidates, order[fetched + 1])}
      /\ UNCHANGED <<provider, keyKind, present, pc, order, answers, index, unparsed, outcome>>
  BY DEF Llm!Fetch, Llm!configuration
<1>2. /\ order \in Seq(Profiles) /\ candidates \in Seq(Profiles) /\ answers = << >>
      /\ index = 1
      /\ fetched \in 0 .. Len(order) /\ Len(order) \in Nat /\ Len(candidates) \in Nat
      /\ order[fetched + 1] \in Profiles
      /\ \A c \in 1 .. Len(candidates) : \E k \in 1 .. fetched : candidates[c] = order[k]
      /\ \A i, k \in 1 .. Len(order) : order[i] = order[k] => i = k
      /\ \A i, k \in 1 .. Len(order), c, d \in 1 .. Len(candidates) :
            candidates[c] = order[i] /\ candidates[d] = order[k] /\ i < k => c < d
  BY <1>1 DEF CallInv, CallTypes, Unasked, ListedOrder
<1>3. /\ candidates' \in Seq(Profiles)
      /\ \A c \in 1 .. Len(candidates) : c \in 1 .. Len(candidates')
      /\ \A c \in 1 .. Len(candidates) : candidates'[c] = candidates[c]
      /\ \A c \in 1 .. Len(candidates') :
            c \in 1 .. Len(candidates)
            \/ (c = Len(candidates) + 1 /\ candidates'[c] = order[fetched + 1])
  <2>1. CASE candidates' = candidates
    <3>1. candidates' \in Seq(Profiles)
      BY <1>2, <2>1
    <3>2. 1 .. Len(candidates') = 1 .. Len(candidates)
      BY <2>1
    <3>. QED
      BY <2>1, <3>1, <3>2, Zenon
  <2>2. CASE candidates' = Append(candidates, order[fetched + 1])
    <3>1. PICK q \in Profiles : q = order[fetched + 1]
      BY <1>2
    <3>2. candidates' = Append(candidates, q)
      BY <2>2, <3>1
    <3>3. /\ candidates' \in Seq(Profiles) /\ Len(candidates') = Len(candidates) + 1
          /\ \A c \in 1 .. Len(candidates) : candidates'[c] = candidates[c]
          /\ candidates'[Len(candidates) + 1] = q
      BY <1>2, <3>2
    <3>4. Len(candidates) \in Nat
      BY <1>2
    <3>5. \A c \in 1 .. Len(candidates') : c \in 1 .. Len(candidates) \/ c = Len(candidates) + 1
      BY <3>3, <3>4
    <3>6. \A c \in 1 .. Len(candidates) : c \in 1 .. Len(candidates')
      BY <3>3, <3>4
    <3>7. candidates'[Len(candidates) + 1] = order[fetched + 1]
      BY <3>1, <3>3
    <3>. QED
      BY <3>3, <3>5, <3>6, <3>7, Zenon
  <2>. QED
    BY <1>1, <2>1, <2>2
<1>4. CallTypes'
  BY <1>1, <1>2, <1>3 DEF CallInv, CallTypes
<1>5. \A c \in 1 .. Len(candidates') : \E k \in 1 .. fetched' : candidates'[c] = order[k]
  BY <1>1, <1>2, <1>3
<1>6. ASSUME NEW i \in 1 .. Len(order), NEW k \in 1 .. Len(order),
             NEW c \in 1 .. Len(candidates'), NEW d \in 1 .. Len(candidates'),
             candidates'[c] = order[i], candidates'[d] = order[k], i < k
      PROVE  c < d
  <2>1. CASE c \in 1 .. Len(candidates) /\ d \in 1 .. Len(candidates)
    BY <1>2, <1>3, <1>6, <2>1
  <2>2. CASE c \in 1 .. Len(candidates) /\ d = Len(candidates) + 1
    BY <1>2, <2>2
  <2>3. CASE candidates'[c] = order[fetched + 1]
    <3>1. i = fetched + 1
      <4>1. fetched + 1 \in 1 .. Len(order) /\ order[fetched + 1] = order[i]
        BY <1>1, <1>2, <1>6, <2>3
      <4>. QED
        BY <1>2, <4>1
    <3>2. PICK n \in 1 .. fetched + 1 : candidates'[d] = order[n]
      BY <1>1, <1>5
    <3>3. k = n
      <4>1. n \in 1 .. Len(order) /\ order[n] = order[k]
        BY <1>1, <1>2, <1>6, <3>2
      <4>. QED
        BY <1>2, <4>1
    <3>. QED
      BY <1>2, <1>6, <3>1, <3>2, <3>3
  <2>4. CASE c = Len(candidates) + 1 /\ candidates'[c] = order[fetched + 1]
    BY <2>3, <2>4
  <2>5. d \in 1 .. Len(candidates) \/ d = Len(candidates) + 1
    BY <1>3
  <2>6. c \in 1 .. Len(candidates) \/ (c = Len(candidates) + 1 /\ candidates'[c] = order[fetched + 1])
    BY <1>3
  <2>. QED
    BY <2>1, <2>2, <2>4, <2>5, <2>6
<1>7. Unasked' /\ ListedOrder' /\ SettledForReason'
  BY <1>1, <1>2, <1>5, <1>6 DEF Unasked, ListedOrder, SettledForReason
<1>8. AskedFromFirst'
  BY <1>1, <1>2, <1>3 DEF AskedFromFirst, AskedUpTo, Llm!Asked
<1>. QED
  BY <1>4, <1>7, <1>8 DEF CallInv

\* The choice of a wrapper keeps the invariant: what is looked for once more is one
\* profile at most.
LEMMA ChooseKeepsCall ==
    ASSUME CallInv, Llm!Choose
    PROVE  CallInv'
<1>1. /\ pc = "fetch"
      /\ candidates' = IF candidates = << >> THEN Llm!LastResort ELSE candidates
      /\ pc' = IF Len(candidates') > 1 \/ (Len(candidates') = 1 /\ Llm!Buildable(candidates'[1]))
               THEN "ask" ELSE "settle"
      /\ index' = index
      /\ UNCHANGED <<provider, keyKind, present, order, fetched, answers, unparsed, outcome>>
  BY DEF Llm!Choose, Llm!configuration
<1>2. /\ CallTypes /\ ListedOrder /\ candidates \in Seq(Profiles) /\ answers = << >> /\ index = 1
      /\ present \subseteq Profiles
  BY <1>1 DEF CallInv, CallTypes, Unasked
<1>3. candidates' = candidates \/ \E p \in Profiles : candidates' = <<p>>
  <2>1. CASE candidates # << >>
    BY <1>1, <2>1
  <2>2. CASE candidates = << >>
    <3>1. present # {} => Llm!First \in present
      <4>1. present \subseteq Nat
        BY <1>2, PartsAssumption DEF Llm!CallAssumption
      <4>2. ASSUME present # {} PROVE \E p \in present : \A q \in present : p <= q
        BY <4>1, <4>2, LeastNatural
      <4>. QED
        BY <4>2 DEF Llm!First
    <3>2. Llm!LastResort = << >> \/ \E p \in present : Llm!LastResort = <<p>>
      BY <3>1 DEF Llm!LastResort
    <3>. QED
      BY <1>1, <1>2, <2>2, <3>2
  <2>. QED
    BY <2>1, <2>2
<1>4. candidates' \in Seq(Profiles) /\ Len(candidates') \in Nat
  <2>1. candidates' \in Seq(Profiles)
    <3>1. ASSUME NEW p \in Profiles PROVE <<p>> \in Seq(Profiles)
      OBVIOUS
    <3>. QED
      BY <1>2, <1>3, <3>1
  <2>. QED
    BY <2>1
<1>5. CallTypes'
  <2>1. ASSUME pc' = "ask" PROVE 1 \in 1 .. Len(candidates')
    BY <1>1, <1>4, <2>1
  <2>2. pc' # "parse" /\ pc' \in {"ask", "settle"}
    BY <1>1
  <2>. QED
    BY <1>1, <1>2, <1>4, <2>1, <2>2 DEF CallTypes
<1>6. Unasked'
  BY <1>1 DEF Unasked
<1>7. ListedOrder'
  <2>1. CASE candidates' = candidates
    BY <1>1, <1>2, <2>1 DEF ListedOrder
  <2>2. CASE \E p \in Profiles : candidates' = <<p>>
    <3>1. PICK p \in Profiles : candidates' = <<p>>
      BY <2>2
    <3>2. \A c \in 1 .. Len(candidates') : candidates'[c] = p
      BY <3>1
    <3>3. ASSUME NEW i \in 1 .. Len(order), NEW k \in 1 .. Len(order), order[i] = order[k], i < k
          PROVE  FALSE
      BY <1>2, <3>3 DEF ListedOrder
    <3>. QED
      BY <1>1, <1>2, <3>2, <3>3 DEF ListedOrder
  <2>. QED
    BY <1>3, <2>1, <2>2
<1>8. AskedFromFirst'
  <2>1. AskedUpTo(0)'
    BY <1>1, <1>2 DEF AskedUpTo, Llm!Asked
  <2>. QED
    BY <1>1, <1>2, <1>4, <2>1 DEF AskedFromFirst
<1>9. SettledForReason'
  <2>1. CASE pc' = "settle"
    <3>1. Len(candidates') = 0 \/ (Len(candidates') = 1 /\ ~Llm!Buildable(candidates'[1]))
      <4>1. ~(Len(candidates') > 1) /\ ~(Len(candidates') = 1 /\ Llm!Buildable(candidates'[1]))
        BY <1>1, <2>1
      <4>2. Len(candidates') \in {0, 1}
        BY <1>4, <4>1
      <4>. QED
        BY <4>1, <4>2
    <3>2. Llm!Buildable(candidates'[1]) <=> Llm!Buildable(candidates[1])'
      BY <1>1 DEF Llm!Buildable
    <3>. QED
      BY <3>1, <3>2 DEF SettledForReason, HasReason
  <2>. QED
    BY <1>1, <2>1 DEF SettledForReason
<1>. QED
  BY <1>5, <1>6, <1>7, <1>8, <1>9 DEF CallInv

\* The answer of a profile, or its failure, keeps the invariant: the next one is asked,
\* or all have been.
LEMMA AskKeepsCall ==
    ASSUME CallInv, Llm!Fails \/ Llm!Answers
    PROVE  CallInv'
<1>1. PICK how \in {"failed", "answered"} :
          /\ pc = "ask" /\ answers' = Append(answers, <<candidates[index], how>>)
          /\ \/ pc' = "parse" /\ index' = index
             \/ pc' = "ask" /\ index < Len(candidates) /\ index' = index + 1
             \/ pc' = "settle" /\ ~(index < Len(candidates)) /\ index' = index + 1
          /\ UNCHANGED <<provider, keyKind, present, order, fetched, candidates, unparsed, outcome>>
  BY DEF Llm!Fails, Llm!Answers, Llm!Note, Llm!AfterFailure, Llm!configuration
<1>2. /\ CallTypes /\ ListedOrder /\ candidates \in Seq(Profiles) /\ Len(candidates) \in Nat
      /\ index \in 1 .. Len(candidates)
  BY <1>1 DEF CallInv, CallTypes
<1>3. /\ answers' \in Seq(Profiles \X {"failed", "answered"})
      /\ \E m \in 0 .. Len(candidates) : AskedUpTo(m)' /\ index <= m
  BY <1>1, AskedNext
<1>4. PICK m \in 0 .. Len(candidates) : AskedUpTo(m)' /\ index <= m
  BY <1>3
<1>5. CallTypes'
  <2>1. index < Len(candidates) => index + 1 \in 1 .. Len(candidates)
    BY <1>2
  <2>. QED
    BY <1>1, <1>2, <1>3, <2>1 DEF CallTypes
<1>6. Unasked' /\ ListedOrder'
  BY <1>1, <1>2 DEF Unasked, ListedOrder
<1>7. AskedFromFirst'
  <2>1. pc' \in {"ask", "parse"} => index' <= m + 1
    BY <1>1, <1>2, <1>4
  <2>. QED
    BY <1>1, <1>4, <2>1 DEF AskedFromFirst
<1>8. SettledForReason'
  <2>1. CASE pc' = "settle"
    <3>1. m = Len(candidates)
      BY <1>1, <1>2, <1>4, <2>1
    <3>2. ASSUME NEW c \in 1 .. Len(candidates') PROVE Llm!Asked(candidates[c])'
      <4>1. c \in 1 .. m /\ candidates'[c] \in Profiles /\ candidates' = candidates
        BY <1>1, <1>2, <3>1
      <4>. QED
        BY <1>4, <4>1 DEF AskedUpTo
    <3>. QED
      BY <3>2 DEF SettledForReason, HasReason
  <2>. QED
    BY <1>1, <2>1 DEF SettledForReason
<1>. QED
  BY <1>5, <1>6, <1>7, <1>8 DEF CallInv

\* The end of an answer, another try, and the settlement keep the invariant.
LEMMA RestKeepsCall ==
    ASSUME CallInv, Llm!Retry \/ Llm!Parsed \/ Llm!Unparsed \/ Llm!Settle
    PROVE  CallInv'
<1>1. /\ UNCHANGED <<provider, keyKind, present, order, fetched, candidates, answers>>
      /\ unparsed => unparsed'
      /\ \/ pc = "ask" /\ pc' = "ask" /\ index' = index /\ outcome' = outcome
         \/ pc = "parse" /\ pc' = "settle" /\ index' = index /\ (outcome' = "llm" \/ unparsed')
         \/ pc = "parse" /\ pc' = "ask" /\ index' = 1 /\ outcome' = outcome
         \/ pc = "settle" /\ pc' = "done" /\ index' = index /\ (outcome' # "llm" => outcome # "llm")
  BY DEF Llm!Retry, Llm!Parsed, Llm!Unparsed, Llm!Settle, Llm!configuration
<1>2. CallTypes /\ candidates \in Seq(Profiles) /\ Len(candidates) \in Nat
  BY DEF CallInv, CallTypes
<1>3. CallTypes'
  <2>1. pc = "parse" => 1 \in 1 .. Len(candidates)
    BY <1>2 DEF CallTypes
  <2>. QED
    BY <1>1, <1>2, <2>1 DEF CallTypes
<1>4. Unasked' /\ ListedOrder'
  BY <1>1 DEF CallInv, Unasked, ListedOrder
<1>5. AskedFromFirst'
  <2>1. PICK m \in 0 .. Len(candidates) : AskedUpTo(m) /\ (pc \in {"ask", "parse"} => index <= m + 1)
    BY DEF CallInv, AskedFromFirst
  <2>2. AskedUpTo(m)'
    BY <1>1, <2>1 DEF AskedUpTo, Llm!Asked
  <2>3. pc' \in {"ask", "parse"} => index' <= m + 1
    BY <1>1, <2>1
  <2>. QED
    BY <1>1, <2>2, <2>3 DEF AskedFromFirst
<1>6. SettledForReason'
  <2>1. CASE pc = "settle"
    BY <1>1, <2>1, ReasonStands DEF CallInv, SettledForReason
  <2>2. CASE pc = "parse"
    BY <1>1, <2>2 DEF SettledForReason, HasReason
  <2>3. CASE pc = "ask"
    BY <1>1, <2>3 DEF SettledForReason
  <2>. QED
    BY <1>1, <2>1, <2>2, <2>3
<1>. QED
  BY <1>3, <1>4, <1>5, <1>6 DEF CallInv

\* Every step of the call, and of what changes meanwhile, keeps the invariant.
LEMMA CallStep ==
    ASSUME CallInv, [Llm!Next]_Llm!llmVars
    PROVE  CallInv'
<1>1. ASSUME UNCHANGED Llm!llmVars PROVE CallInv'
  BY <1>1, ChangeKeepsCall DEF Llm!llmVars, Llm!callVars, Llm!configuration
<1>2. ASSUME Llm!GatewayChanges \/ \E p \in Profiles : Llm!ProfileRemoved(p) PROVE CallInv'
  <2>1. /\ UNCHANGED <<provider, keyKind, order, candidates, answers, fetched, index, pc,
                       unparsed, outcome>>
        /\ present' \subseteq present
    BY <1>2 DEF Llm!GatewayChanges, Llm!ProfileRemoved, Llm!callVars, Llm!configuration
  <2>. QED
    BY <2>1, ChangeKeepsCall
<1>. QED
  BY <1>1, <1>2, ListKeepsCall, FetchKeepsCall, ChooseKeepsCall, AskKeepsCall, RestKeepsCall
     DEF Llm!Next

\* The invariant implies the property.
LEMMA CallImplied == CallInv => Llm!ProfilesAreTried
<1>. SUFFICES ASSUME CallInv PROVE Llm!ProfilesAreTried
  OBVIOUS
<1>1. /\ order \in Seq(Profiles) /\ candidates \in Seq(Profiles)
      /\ DOMAIN order = 1 .. Len(order) /\ DOMAIN candidates = 1 .. Len(candidates)
      /\ Len(candidates) \in Nat
  BY DEF CallInv, CallTypes
<1>2. PICK m \in 0 .. Len(candidates) : AskedUpTo(m)
  BY DEF CallInv, AskedFromFirst
<1>3. ASSUME NEW i \in 1 .. Len(order), NEW k \in 1 .. Len(order), i < k, Llm!Asked(order[k]),
             NEW c \in 1 .. Len(candidates), candidates[c] = order[i]
      PROVE  Llm!Asked(order[i])
  <2>1. order[i] \in Profiles /\ order[k] \in Profiles
    BY <1>1
  <2>2. PICK d \in 1 .. m : candidates[d] = order[k]
    BY <1>2, <1>3, <2>1 DEF AskedUpTo
  <2>3. d \in 1 .. Len(candidates)
    BY <1>1, <2>2
  <2>4. c < d
    BY <1>3, <2>2, <2>3 DEF CallInv, ListedOrder
  <2>5. c \in 1 .. m
    BY <1>1, <2>2, <2>4
  <2>. QED
    BY <1>2, <1>3, <2>1, <2>5 DEF AskedUpTo
<1>4. Llm!AskedInOrder
  BY <1>1, <1>3 DEF Llm!AskedInOrder
<1>5. Llm!NoAnswerHasAReason
  BY <1>1 DEF CallInv, SettledForReason, HasReason, Llm!NoAnswerHasAReason
<1>. QED
  BY <1>4, <1>5 DEF Llm!ProfilesAreTried

-----------------------------------------------------------------------------
(* The feature runs, in the variables of the composition *)

Failing == {"failures", "odd exit", "nothing collected"}
Decisions == {"approve", "request_changes"}

\* The steps, and what of the plan is left at an index.
StepNames == {"code_generator", "test_runner", "fix_agent", "review_agent",
              "memory_writer", "pr_merge_agent"}
RestOf(c) == SubSeq(Feature!Plan, c + 1, Len(Feature!Plan))
Begin == <<"code_generator", "test_runner">>
Repair == <<"fix_agent", "test_runner">>
Retest == <<"test_runner">>

RunTypes ==
    /\ DOMAIN alias = {"code", "fixed", "tests", "review"}
    /\ DOMAIN result = {"code_generator", "fix_agent", "test_runner", "review_agent",
                        "memory_writer", "pr_merge_agent"}
    /\ cursor \in 0 .. 6 /\ fixes \in Nat /\ resumes \in Nat
    /\ alias.review \in {Feature!None} \cup Decisions
    /\ result.review_agent \in {Feature!None, "error"} \cup Decisions

\* What is left of a run that was never resumed, by its phase, and where the index is as
\* long as nothing was fixed.
InLoop ==
    /\ phase = "loop"
    /\ \/ todo = Begin /\ cursor = 0
       \/ todo = Retest /\ (fixes = 0 => cursor = 1)
       \/ todo = << >> /\ (fixes = 0 => cursor = 2)
       \/ todo = Repair /\ (fixes = 0 => cursor = 2)
BehindLoop ==
    /\ phase = "after"
    /\ \/ todo = RestOf(3) /\ (fixes = 0 => cursor = 2)
       \/ todo = RestOf(4) /\ (fixes = 0 => cursor = 3)
       \/ todo = RestOf(5) /\ (fixes = 0 => cursor = 4)
       \/ todo = << >> /\ (fixes = 0 => cursor = 5)

\* A resumed run has what is behind its index ahead; then it may repair.
InResume ==
    /\ phase = "last loop"
    /\ \/ todo = RestOf(cursor)
       \/ cursor = 6 /\ todo = Repair
       \/ cursor = 6 /\ todo = Retest /\ fixes # 0

OnPlan ==
    /\ IF resumes = 0 THEN InLoop \/ BehindLoop ELSE InResume
    /\ todo = Repair => Feature!LoopCondition

\* The last test run, as the context and the result have it.
Ahead(step) == \E k \in 1 .. Len(todo) : todo[k] = step
TestsKnown ==
    /\ result.test_runner \in {tested.end, Feature!None}
    /\ alias.tests = "passed" => tested.end = "passed" /\ ~Ahead("test_runner")
    /\ resumes = 0 /\ tested.end \in Failing =>
          /\ alias.tests = tested.end
          /\ phase = "after" => iteration = MaxIterations

\* As long as nothing was fixed there is one patch, the one that was tested and reviewed.
OnePatch ==
    fixes = 0 =>
        /\ alias.code \in {Feature!NoPatch, result.code_generator}
        /\ alias.fixed = Feature!NoPatch /\ result.fix_agent = Feature!NoPatch
        /\ tested.end # Feature!None => cursor >= 1 /\ tested.patch = result.code_generator
        /\ alias.review # Feature!None \/ result.review_agent \in Decisions =>
              cursor >= 1 /\ reviewed = result.code_generator

\* A run that has passed its review has a decision.
ReviewKnown ==
    /\ fixes = 0 /\ cursor >= 4 => result.review_agent \in Decisions
    /\ resumes = 0 /\ phase = "after" /\ todo # RestOf(3) => result.review_agent \in Decisions

\* A run that has published, and knows it, will not publish again.
PublishedOnce ==
    /\ Len(opened) > 1 => missed
    /\ Len(opened) > 0 /\ ~missed =>
          \/ recorded = "SUCCESS"
          \/ phase = "last loop" /\ cursor = 6
          \/ phase = "after" /\ todo = << >> /\ runState = "RUNNING" /\ recorded = "RUNNING"

CarefulPull(p) ==
    /\ p.tested.end \in Failing => p.resumed \/ p.iteration = MaxIterations
    /\ p.review \in {Feature!None, "error"} => p.resumed /\ p.fixes > 0
    /\ p.approved =>
        /\ p.tested.end = "passed"
        /\ p.fixes = 0 => p.patch = p.tested.patch /\ p.patch = p.reviewed

PullsCareful == \E S : opened \in Seq(S) /\ \A p \in S : CarefulPull(p)

RunInv == RunTypes /\ OnPlan /\ TestsKnown /\ OnePatch /\ ReviewKnown /\ PublishedOnce
    /\ PullsCareful

-----------------------------------------------------------------------------
\* What is left of a sequence behind its first c elements.
LEMMA EndOf ==
    ASSUME NEW S, NEW s \in Seq(S), NEW c \in Nat, c <= Len(s)
    PROVE  /\ SubSeq(s, c + 1, Len(s)) \in Seq(S)
           /\ Len(SubSeq(s, c + 1, Len(s))) = Len(s) - c
           /\ \A i \in 1 .. Len(s) - c : SubSeq(s, c + 1, Len(s))[i] = s[c + i]
<1>1. SubSeq(s, c + 1, Len(s)) \in Seq(S)
  OBVIOUS
<1>2. Len(SubSeq(s, c + 1, Len(s))) = Len(s) - c
  OBVIOUS
<1>3. \A i \in 1 .. Len(s) - c : SubSeq(s, c + 1, Len(s))[i] = s[c + i]
  OBVIOUS
<1>. QED
  BY <1>1, <1>2, <1>3

\* Its next element, and what is left behind that.
LEMMA NextOf ==
    ASSUME NEW S, NEW s \in Seq(S), NEW c \in Nat, c < Len(s)
    PROVE  /\ Head(SubSeq(s, c + 1, Len(s))) = s[c + 1]
           /\ Tail(SubSeq(s, c + 1, Len(s))) = SubSeq(s, c + 2, Len(s))
<1>1. Head(SubSeq(s, c + 1, Len(s))) = s[c + 1]
  OBVIOUS
<1>2. Tail(SubSeq(s, c + 1, Len(s))) = SubSeq(s, c + 2, Len(s))
  OBVIOUS
<1>. QED
  BY <1>1, <1>2

\* What is left of the plan.
LEMMA RestBehind ==
    ASSUME NEW c \in 0 .. 6
    PROVE  /\ RestOf(c) \in Seq(StepNames) /\ Len(RestOf(c)) = 6 - c
           /\ \A i \in 1 .. 6 - c : RestOf(c)[i] = Feature!Plan[c + i]
           /\ c < 6 => /\ RestOf(c) # << >> /\ Head(RestOf(c)) = Feature!Plan[c + 1]
                       /\ Tail(RestOf(c)) = RestOf(c + 1)
           /\ c = 6 => RestOf(c) = << >>
           /\ RestOf(c) # Repair
<1>1. Feature!Plan \in Seq(StepNames)
  BY DEF Feature!Plan, StepNames
<1>2. Len(Feature!Plan) = 6
  BY DEF Feature!Plan
<1>3. c \in Nat /\ c <= Len(Feature!Plan)
  BY <1>2
<1>4. /\ RestOf(c) \in Seq(StepNames) /\ Len(RestOf(c)) = Len(Feature!Plan) - c
      /\ \A i \in 1 .. Len(Feature!Plan) - c : RestOf(c)[i] = Feature!Plan[c + i]
  BY <1>1, <1>3, EndOf DEF RestOf
<1>5. Len(RestOf(c)) = 6 - c /\ \A i \in 1 .. 6 - c : RestOf(c)[i] = Feature!Plan[c + i]
  BY <1>2, <1>4
<1>6. ASSUME c < 6
      PROVE  RestOf(c) # << >> /\ Head(RestOf(c)) = Feature!Plan[c + 1]
         /\ Tail(RestOf(c)) = RestOf(c + 1)
  <2>1. Head(RestOf(c)) = Feature!Plan[c + 1]
        /\ Tail(RestOf(c)) = SubSeq(Feature!Plan, c + 2, Len(Feature!Plan))
    <3>1. c < Len(Feature!Plan)
      BY <1>2, <1>6
    <3>. QED
      BY <1>1, <1>3, <3>1, NextOf DEF RestOf
  <2>2. c + 2 = (c + 1) + 1
    BY <1>3
  <2>3. Len(RestOf(c)) # 0
    BY <1>5, <1>6
  <2>4. RestOf(c) # << >>
    BY <2>3
  <2>. QED
    BY <2>1, <2>2, <2>4 DEF RestOf
<1>7. ASSUME c = 6 PROVE RestOf(c) = << >>
  BY <1>4, <1>5, <1>7
<1>8. RestOf(c) # Repair
  <2>1. Len(Repair) = 2 /\ Repair[1] = "fix_agent" /\ Feature!Plan[5] = "memory_writer"
    BY DEF Repair, Feature!Plan
  <2>2. CASE c = 4
    BY <1>5, <2>1, <2>2
  <2>3. CASE c # 4
    BY <1>5, <2>1, <2>3
  <2>. QED
    BY <2>2, <2>3
<1>. QED
  BY <1>4, <1>5, <1>6, <1>7, <1>8

\* The heads and the tails of what may be left.
LEMMA HeadsAndTails ==
    /\ Head(Begin) = "code_generator" /\ Tail(Begin) = Retest
    /\ Head(Repair) = "fix_agent" /\ Tail(Repair) = Retest
    /\ Head(Retest) = "test_runner" /\ Tail(Retest) = << >>
    /\ Head(RestOf(3)) = "review_agent" /\ Tail(RestOf(3)) = RestOf(4)
    /\ Head(RestOf(4)) = "memory_writer" /\ Tail(RestOf(4)) = RestOf(5)
    /\ Head(RestOf(5)) = "pr_merge_agent" /\ Tail(RestOf(5)) = << >>
    /\ Head(RestOf(0)) = "code_generator" /\ Head(RestOf(1)) = "test_runner"
    /\ Head(RestOf(2)) = "fix_agent"
    /\ Tail(RestOf(1)) = RestOf(2)
<1>1. /\ Head(Begin) = "code_generator" /\ Tail(Begin) = Retest
      /\ Head(Repair) = "fix_agent" /\ Tail(Repair) = Retest
      /\ Head(Retest) = "test_runner" /\ Tail(Retest) = << >>
  BY DEF Begin, Repair, Retest
<1>2. ASSUME NEW c \in 0 .. 5
      PROVE  Head(RestOf(c)) = Feature!Plan[c + 1] /\ Tail(RestOf(c)) = RestOf(c + 1)
  <2>1. c \in 0 .. 6 /\ c < 6
    OBVIOUS
  <2>. QED
    BY <2>1, RestBehind
<1>3. /\ Head(RestOf(0)) = Feature!Plan[1] /\ Head(RestOf(1)) = Feature!Plan[2]
         /\ Head(RestOf(2)) = Feature!Plan[3]
      /\ Head(RestOf(3)) = Feature!Plan[4] /\ Head(RestOf(4)) = Feature!Plan[5]
         /\ Head(RestOf(5)) = Feature!Plan[6]
  BY <1>2
<1>4. /\ Tail(RestOf(3)) = RestOf(4) /\ Tail(RestOf(4)) = RestOf(5)
      /\ Tail(RestOf(5)) = RestOf(6) /\ Tail(RestOf(1)) = RestOf(2)
  BY <1>2
<1>5. RestOf(6) = << >>
  BY RestBehind
<1>6. /\ Feature!Plan[1] = "code_generator" /\ Feature!Plan[2] = "test_runner"
         /\ Feature!Plan[3] = "fix_agent"
      /\ Feature!Plan[4] = "review_agent" /\ Feature!Plan[5] = "memory_writer"
         /\ Feature!Plan[6] = "pr_merge_agent"
  BY DEF Feature!Plan
<1>. QED
  BY <1>1, <1>3, <1>4, <1>5, <1>6

\* What may be left differs.
LEMMA AllDiffer ==
    /\ << >> # Repair /\ Retest # Repair /\ Begin # Repair
    /\ << >> # Begin /\ << >> # Retest
    /\ \A c \in 0 .. 6 : RestOf(c) # Repair
    /\ RestOf(4) # RestOf(3) /\ RestOf(5) # RestOf(3) /\ << >> # RestOf(3)
    /\ \A c \in 0 .. 5 : RestOf(c) # << >>
<1>1. /\ << >> # Repair /\ Retest # Repair /\ << >> # Begin /\ << >> # Retest
  BY DEF Repair, Retest, Begin
<1>2. Begin # Repair /\ RestOf(4) # RestOf(3) /\ RestOf(5) # RestOf(3)
  BY HeadsAndTails
<1>3. \A c \in 0 .. 6 : RestOf(c) # Repair
  BY RestBehind
<1>4. ASSUME NEW c \in 0 .. 5 PROVE RestOf(c) # << >>
  <2>1. c \in 0 .. 6 /\ c < 6
    OBVIOUS
  <2>. QED
    BY <2>1, RestBehind
<1>5. << >> # RestOf(3)
  BY <1>4
<1>. QED
  BY <1>1, <1>2, <1>3, <1>4, <1>5

\* Where a run is, by its next step.
Places(step) ==
    /\ step \in StepNames
    /\ step = "code_generator" => cursor = 0
    /\ step = "test_runner" =>
          /\ fixes = 0 => cursor = 1
          /\ todo = RestOf(1) \/ todo = Retest
          /\ phase # "after"
    /\ step = "fix_agent" /\ fixes = 0 => cursor = 2 \/ cursor = 6
    /\ step = "review_agent" => todo = RestOf(3) /\ (fixes = 0 => cursor = 2 \/ cursor = 3)
    /\ step = "memory_writer" /\ fixes = 0 =>
          cursor = 4 \/ (cursor = 3 /\ resumes = 0 /\ phase = "after" /\ todo = RestOf(4))
    /\ step = "pr_merge_agent" =>
          /\ todo = RestOf(5)
          /\ (phase = "last loop" /\ cursor = 5) \/ (phase = "after" /\ resumes = 0)
          /\ fixes = 0 => cursor = 4 \/ cursor = 5

\* Where the next step finds a run, at its index.
LEMMA StepPlaces ==
    ASSUME RunTypes, OnPlan, todo # << >>
    PROVE  Places(Head(todo))
<1>1. cursor \in 0 .. 6 /\ fixes \in Nat
  BY DEF RunTypes
<1>2. CASE InLoop /\ resumes = 0
  <2>1. \/ todo = Begin /\ cursor = 0
        \/ todo = Retest /\ (fixes = 0 => cursor = 1) /\ phase # "after"
        \/ todo = Repair /\ (fixes = 0 => cursor = 2)
    BY <1>2 DEF InLoop
  <2>2. CASE todo = Begin /\ cursor = 0
    BY <2>2, HeadsAndTails DEF Places, StepNames
  <2>3. CASE todo = Retest /\ (fixes = 0 => cursor = 1) /\ phase # "after"
    BY <2>3, HeadsAndTails DEF Places, StepNames
  <2>4. CASE todo = Repair /\ (fixes = 0 => cursor = 2)
    BY <2>4, HeadsAndTails DEF Places, StepNames
  <2>. QED
    BY <2>1, <2>2, <2>3, <2>4
<1>3. CASE BehindLoop /\ resumes = 0
  <2>1. /\ phase = "after" /\ resumes = 0
        /\ \/ todo = RestOf(3) /\ (fixes = 0 => cursor = 2)
           \/ todo = RestOf(4) /\ (fixes = 0 => cursor = 3)
           \/ todo = RestOf(5) /\ (fixes = 0 => cursor = 4)
    BY <1>3 DEF BehindLoop
  <2>2. CASE todo = RestOf(3) /\ (fixes = 0 => cursor = 2)
    BY <2>2, HeadsAndTails DEF Places, StepNames
  <2>3. CASE todo = RestOf(4) /\ (fixes = 0 => cursor = 3)
    BY <2>1, <2>3, HeadsAndTails DEF Places, StepNames
  <2>4. CASE todo = RestOf(5) /\ (fixes = 0 => cursor = 4)
    BY <2>1, <2>4, HeadsAndTails DEF Places, StepNames
  <2>. QED
    BY <2>1, <2>2, <2>3, <2>4
<1>4. CASE InResume
  <2>1. phase = "last loop" /\ phase # "after"
    BY <1>4 DEF InResume
  <2>2. CASE todo = RestOf(cursor)
    <3>1. cursor # 6
      BY <2>2, RestBehind
    <3>2. cursor = 0 \/ cursor = 1 \/ cursor = 2 \/ cursor = 3 \/ cursor = 4 \/ cursor = 5
      BY <1>1, <3>1
    <3>3. CASE cursor = 0
      BY <2>2, <3>3, HeadsAndTails DEF Places, StepNames
    <3>4. CASE cursor = 1
      BY <2>1, <2>2, <3>4, HeadsAndTails DEF Places, StepNames
    <3>5. CASE cursor = 2
      BY <2>2, <3>5, HeadsAndTails DEF Places, StepNames
    <3>6. CASE cursor = 3
      BY <2>2, <3>6, HeadsAndTails DEF Places, StepNames
    <3>7. CASE cursor = 4
      BY <2>2, <3>7, HeadsAndTails DEF Places, StepNames
    <3>8. CASE cursor = 5
      BY <2>1, <2>2, <3>8, HeadsAndTails DEF Places, StepNames
    <3>. QED
      BY <3>2, <3>3, <3>4, <3>5, <3>6, <3>7, <3>8
  <2>3. CASE cursor = 6 /\ todo = Repair
    BY <2>3, HeadsAndTails DEF Places, StepNames
  <2>4. CASE todo = Retest /\ fixes # 0
    BY <2>1, <2>4, HeadsAndTails DEF Places, StepNames
  <2>5. \/ todo = RestOf(cursor)
        \/ cursor = 6 /\ todo = Repair
        \/ todo = Retest /\ fixes # 0
    BY <1>4 DEF InResume
  <2>. QED
    BY <2>2, <2>3, <2>4, <2>5
<1>5. (InLoop /\ resumes = 0) \/ (BehindLoop /\ resumes = 0) \/ InResume
  BY DEF OnPlan
<1>. QED
  BY <1>2, <1>3, <1>4, <1>5

\* The steps that are left are steps of the plan.
LEMMA TodoType ==
    ASSUME RunTypes, OnPlan
    PROVE  todo \in Seq(StepNames)
<1>1. << >> \in Seq(StepNames) /\ Retest \in Seq(StepNames)
      /\ Begin \in Seq(StepNames) /\ Repair \in Seq(StepNames)
  BY DEF StepNames, Repair, Retest, Begin
<1>2. RestOf(cursor) \in Seq(StepNames)
  BY RestBehind DEF RunTypes
<1>3. RestOf(3) \in Seq(StepNames) /\ RestOf(4) \in Seq(StepNames)
      /\ RestOf(5) \in Seq(StepNames)
  <2>1. 3 \in 0 .. 6 /\ 4 \in 0 .. 6 /\ 5 \in 0 .. 6
    OBVIOUS
  <2>. QED
    BY <2>1, RestBehind
<1>. QED
  BY <1>1, <1>2, <1>3 DEF OnPlan, InLoop, BehindLoop, InResume

\* What the end of a step does to the plan: the step is gone and the index moves on.
Advances ==
    /\ todo # << >> /\ todo' = Tail(todo) /\ cursor' = Feature!Advanced
    /\ phase' = phase /\ resumes' = resumes
    /\ fixes' \in Nat /\ (fixes' = 0 => fixes = 0)
    /\ todo = Repair => fixes' # 0

\* A run stays on its plan when a step ends.
LEMMA StepAdvances ==
    ASSUME RunTypes, OnPlan, Advances
    PROVE  /\ cursor' \in 0 .. 6 /\ cursor' = IF cursor < 6 THEN cursor + 1 ELSE 6
           /\ OnPlan'
           /\ \A step : Ahead(step)' => Ahead(step)
<1>1. cursor \in 0 .. 6 /\ todo # << >> /\ todo' = Tail(todo) /\ phase' = phase
      /\ resumes' = resumes /\ (fixes' = 0 => fixes = 0) /\ (todo = Repair => fixes' # 0)
  BY DEF RunTypes, Advances
<1>2. cursor' = IF cursor < 6 THEN cursor + 1 ELSE 6
  <2>1. Len(Feature!Plan) = 6
    BY DEF Feature!Plan
  <2>. QED
    BY <1>1, <2>1 DEF Advances, Feature!Advanced
<1>3. cursor' \in 0 .. 6
  BY <1>1, <1>2
<1>4. /\ cursor = 0 => cursor' = 1
      /\ cursor = 1 => cursor' = 2
      /\ cursor = 2 => cursor' = 3
      /\ cursor = 3 => cursor' = 4
      /\ cursor = 4 => cursor' = 5
      /\ cursor = 6 => cursor' = 6
  BY <1>2
<1>5. ASSUME InLoop /\ resumes = 0 PROVE OnPlan'
  <2>1. /\ phase' = "loop" /\ resumes' = 0
        /\ \/ todo = Begin /\ cursor = 0
           \/ todo = Retest /\ (fixes = 0 => cursor = 1)
           \/ todo = Repair /\ (fixes = 0 => cursor = 2)
    BY <1>1, <1>5 DEF InLoop
  <2>2. CASE todo = Begin /\ cursor = 0
    <3>1. todo' = Retest /\ cursor' = 1
      BY <1>1, <1>4, <2>2, HeadsAndTails
    <3>8. InLoop'
      BY <2>1, <3>1 DEF InLoop
    <3>9. todo' # Repair
      BY <3>1, AllDiffer
    <3>. QED
      BY <2>1, <3>8, <3>9 DEF OnPlan
  <2>3. CASE todo = Retest /\ (fixes = 0 => cursor = 1)
    <3>1. todo' = << >> /\ (fixes' = 0 => cursor' = 2)
      BY <1>1, <1>4, <2>3, HeadsAndTails
    <3>8. InLoop'
      BY <2>1, <3>1 DEF InLoop
    <3>9. todo' # Repair
      BY <3>1, AllDiffer
    <3>. QED
      BY <2>1, <3>8, <3>9 DEF OnPlan
  <2>4. CASE todo = Repair
    <3>1. todo' = Retest /\ fixes' # 0
      BY <1>1, <2>4, HeadsAndTails
    <3>8. InLoop'
      BY <2>1, <3>1 DEF InLoop
    <3>9. todo' # Repair
      BY <3>1, AllDiffer
    <3>. QED
      BY <2>1, <3>8, <3>9 DEF OnPlan
  <2>. QED
    BY <2>1, <2>2, <2>3, <2>4
<1>6. ASSUME BehindLoop /\ resumes = 0 PROVE OnPlan'
  <2>1. /\ phase' = "after" /\ resumes' = 0
        /\ \/ todo = RestOf(3) /\ (fixes = 0 => cursor = 2)
           \/ todo = RestOf(4) /\ (fixes = 0 => cursor = 3)
           \/ todo = RestOf(5) /\ (fixes = 0 => cursor = 4)
    BY <1>1, <1>6 DEF BehindLoop
  <2>2. CASE todo = RestOf(3) /\ (fixes = 0 => cursor = 2)
    <3>1. todo' = RestOf(4) /\ (fixes' = 0 => cursor' = 3)
      BY <1>1, <1>4, <2>2, HeadsAndTails
    <3>8. BehindLoop'
      BY <2>1, <3>1 DEF BehindLoop
    <3>9. todo' # Repair
      BY <3>1, AllDiffer
    <3>. QED
      BY <2>1, <3>8, <3>9 DEF OnPlan
  <2>3. CASE todo = RestOf(4) /\ (fixes = 0 => cursor = 3)
    <3>1. todo' = RestOf(5) /\ (fixes' = 0 => cursor' = 4)
      BY <1>1, <1>4, <2>3, HeadsAndTails
    <3>8. BehindLoop'
      BY <2>1, <3>1 DEF BehindLoop
    <3>9. todo' # Repair
      BY <3>1, AllDiffer
    <3>. QED
      BY <2>1, <3>8, <3>9 DEF OnPlan
  <2>4. CASE todo = RestOf(5) /\ (fixes = 0 => cursor = 4)
    <3>1. todo' = << >> /\ (fixes' = 0 => cursor' = 5)
      BY <1>1, <1>4, <2>4, HeadsAndTails
    <3>8. BehindLoop'
      BY <2>1, <3>1 DEF BehindLoop
    <3>9. todo' # Repair
      BY <3>1, AllDiffer
    <3>. QED
      BY <2>1, <3>8, <3>9 DEF OnPlan
  <2>. QED
    BY <2>1, <2>2, <2>3, <2>4
<1>7. ASSUME InResume /\ resumes # 0 PROVE OnPlan'
  <2>1. /\ phase' = "last loop" /\ resumes' # 0
        /\ \/ todo = RestOf(cursor)
           \/ cursor = 6 /\ todo = Repair
           \/ cursor = 6 /\ todo = Retest /\ fixes # 0
    BY <1>1, <1>7 DEF InResume
  <2>2. CASE todo = RestOf(cursor)
    <3>1. cursor # 6
      BY <1>1, <2>2, RestBehind
    <3>2. cursor' = cursor + 1 /\ cursor < 6
      BY <1>1, <1>2, <3>1
    <3>3. todo' = RestOf(cursor')
      BY <1>1, <2>2, <3>2, RestBehind
    <3>8. InResume'
      BY <1>3, <2>1, <3>3 DEF InResume
    <3>9. todo' # Repair
      BY <1>3, <3>3, AllDiffer
    <3>. QED
      BY <2>1, <3>8, <3>9 DEF OnPlan
  <2>3. CASE cursor = 6 /\ todo = Repair
    <3>1. todo' = Retest /\ cursor' = 6 /\ fixes' # 0
      BY <1>1, <1>4, <2>3, HeadsAndTails
    <3>8. InResume'
      BY <2>1, <3>1 DEF InResume
    <3>9. todo' # Repair
      BY <3>1, AllDiffer
    <3>. QED
      BY <2>1, <3>8, <3>9 DEF OnPlan
  <2>4. CASE cursor = 6 /\ todo = Retest
    <3>1. todo' = << >> /\ cursor' = 6
      BY <1>1, <1>4, <2>4, HeadsAndTails
    <3>2. todo' = RestOf(cursor')
      <4>1. RestOf(6) = << >>
        BY RestBehind
      <4>. QED
        BY <3>1, <4>1
    <3>8. InResume'
      BY <2>1, <3>1, <3>2 DEF InResume
    <3>9. todo' # Repair
      BY <3>1, <3>2, AllDiffer
    <3>. QED
      BY <2>1, <3>8, <3>9 DEF OnPlan
  <2>. QED
    BY <2>1, <2>2, <2>3, <2>4
<1>8. OnPlan'
  BY <1>5, <1>6, <1>7 DEF OnPlan
<1>9. ASSUME NEW step, Ahead(step)' PROVE Ahead(step)
  <2>1. todo \in Seq(StepNames)
    BY TodoType
  <2>2. Len(todo') = Len(todo) - 1 /\ \A k \in 1 .. Len(todo') : todo'[k] = todo[k + 1]
    BY <1>1, <2>1
  <2>3. PICK k \in 1 .. Len(todo') : todo'[k] = step
    BY <1>9 DEF Ahead
  <2>4. k + 1 \in 1 .. Len(todo) /\ todo[k + 1] = step
    BY <2>1, <2>2, <2>3
  <2>. QED
    BY <2>4 DEF Ahead
<1>. QED
  BY <1>2, <1>3, <1>8, <1>9

\* What a step that ends keeps of what it leaves alone.
LEMMA StepKeeps ==
    ASSUME RunInv, NEW step, Feature!AtStep(step), Advances,
           recorded' = recorded, iteration' = iteration, missed' = missed
    PROVE  /\ alias'.tests = alias.tests /\ tested' = tested
              /\ result'.test_runner = result.test_runner => TestsKnown'
           /\ opened' = opened => PublishedOnce' /\ PullsCareful'
           /\ step # "review_agent" /\ result'.review_agent = result.review_agent
              => ReviewKnown'
<1>. USE DEF RunInv
<1>1. /\ cursor \in 0 .. 6 /\ cursor' \in 0 .. 6
      /\ cursor' = IF cursor < 6 THEN cursor + 1 ELSE 6
      /\ \A s : Ahead(s)' => Ahead(s)
  BY StepAdvances DEF RunTypes
<1>2. todo # << >> /\ todo' = Tail(todo) /\ phase' = phase /\ resumes' = resumes
      /\ (fixes' = 0 => fixes = 0) /\ Head(todo) = step /\ recorded = "RUNNING"
  BY DEF Advances, Feature!AtStep
<1>3. Places(step)
  BY <1>2, StepPlaces
<1>4. ASSUME alias'.tests = alias.tests, tested' = tested,
             result'.test_runner = result.test_runner
      PROVE  TestsKnown'
  BY <1>1, <1>2, <1>4 DEF TestsKnown
<1>5. ASSUME opened' = opened PROVE PublishedOnce' /\ PullsCareful'
  <2>1. Len(opened) > 0 /\ ~missed => phase = "last loop" /\ cursor = 6
    BY <1>2 DEF PublishedOnce
  <2>2. cursor = 6 => cursor' = 6
    BY <1>1
  <2>3. PublishedOnce'
    BY <1>2, <1>5, <2>1, <2>2 DEF PublishedOnce
  <2>. QED
    BY <1>5, <2>3 DEF PullsCareful
<1>6. ASSUME step # "review_agent", result'.review_agent = result.review_agent
      PROVE  ReviewKnown'
  <2>1. ASSUME fixes' = 0, cursor' >= 4 PROVE result.review_agent \in Decisions
    <3>1. cursor >= 4 \/ cursor = 3
      BY <1>1, <2>1
    <3>2. CASE cursor >= 4
      BY <1>2, <2>1, <3>2 DEF ReviewKnown
    <3>3. CASE cursor = 3
      <4>1. resumes = 0 /\ phase = "after" /\ todo = RestOf(4)
        BY <1>2, <1>3, <1>6, <2>1, <3>3 DEF Places, StepNames
      <4>. QED
        BY <4>1, AllDiffer DEF ReviewKnown
    <3>. QED
      BY <3>1, <3>2, <3>3
  <2>2. todo # RestOf(3)
    BY <1>2, <1>6, HeadsAndTails
  <2>. QED
    BY <1>2, <1>6, <2>1, <2>2 DEF ReviewKnown
<1>. QED
  BY <1>4, <1>5, <1>6

\* The patches, and what was seen of them, are those they were.
SamePatches ==
    /\ alias'.code = alias.code /\ alias'.fixed = alias.fixed
    /\ result'.code_generator = result.code_generator
    /\ result'.fix_agent \in {result.fix_agent, Feature!NoPatch}

\* The one patch stays the one that was tested and reviewed.
LEMMA PatchKept ==
    ASSUME RunInv, SamePatches, fixes' = 0 => fixes = 0, cursor' \in Nat, cursor <= cursor',
           tested' = tested, reviewed' = reviewed,
           alias'.review \in {alias.review, Feature!None},
           result'.review_agent \notin Decisions
              \/ result'.review_agent = result.review_agent
    PROVE  OnePatch'
<1>1. cursor \in Nat
  BY DEF RunInv, RunTypes
<1>2. Feature!None \notin Decisions
  BY DEF Feature!None, Decisions
<1>. QED
  BY <1>1, <1>2 DEF RunInv, OnePatch, SamePatches

\* The condition of the fix agent does not hold.
LEMMA SkipKeeps == RunInv /\ Feature!SkipByCondition => RunInv'
<1>. SUFFICES ASSUME RunInv, Feature!SkipByCondition PROVE RunInv'
  OBVIOUS
<1>. USE DEF RunInv
<1>1. /\ Feature!AtStep("fix_agent") /\ todo # << >> /\ todo' = Tail(todo)
         /\ cursor' = Feature!Advanced
      /\ ~Feature!LoopCondition /\ result' = [result EXCEPT !.fix_agent = Feature!NoPatch]
      /\ UNCHANGED <<phase, resumes, fixes, alias, recorded, iteration, missed, opened,
                     tested, reviewed>>
  BY DEF Feature!SkipByCondition, Feature!AtStep, Feature!Skipped, Feature!ends,
     Feature!history
<1>2. Advances
  BY <1>1 DEF Advances, OnPlan, RunTypes
<1>3. /\ DOMAIN result' = DOMAIN result
      /\ result'.code_generator = result.code_generator /\ result'.fix_agent = Feature!NoPatch
      /\ result'.test_runner = result.test_runner
      /\ result'.review_agent = result.review_agent
  BY <1>1 DEF RunTypes
<1>4. cursor \in 0 .. 6 /\ cursor' \in 0 .. 6 /\ cursor <= cursor' /\ OnPlan'
  BY <1>2, StepAdvances DEF RunTypes
<1>5. RunTypes'
  BY <1>1, <1>3, <1>4 DEF RunTypes
<1>6. TestsKnown' /\ PublishedOnce' /\ PullsCareful' /\ ReviewKnown'
  BY <1>1, <1>2, <1>3, StepKeeps
<1>7. SamePatches
  BY <1>1, <1>3 DEF SamePatches
<1>8. OnePatch'
  BY <1>1, <1>3, <1>4, <1>7, PatchKept
<1>. QED
  BY <1>4, <1>5, <1>6, <1>8

\* What every step does that is executed and ends.
LEMMA EndsAdvance ==
    ASSUME RunInv, NEW step, Feature!Executes(step), Feature!StepEnds, step # "fix_agent",
       fixes' = fixes
    PROVE  /\ Feature!AtStep(step) /\ Advances /\ recorded' = recorded /\ iteration' = iteration
           /\ runState' = "RUNNING" /\ resumes' = resumes
           /\ OnPlan' /\ Places(step)
           /\ cursor' = IF cursor < 6 THEN cursor + 1 ELSE 6
           /\ cursor' \in 0 .. 6 /\ cursor \in 0 .. 6 /\ cursor <= cursor'
<1>1. Feature!AtStep(step) /\ todo # << >> /\ Head(todo) = step
  BY DEF Feature!Executes, Feature!AtStep
<1>2. todo # Repair
  BY <1>1, HeadsAndTails
<1>3. Advances
  BY <1>1, <1>2 DEF Feature!StepEnds, Advances, RunInv, RunTypes
<1>4. /\ OnPlan' /\ cursor' \in 0 .. 6
      /\ cursor' = IF cursor < 6 THEN cursor + 1 ELSE 6
  BY <1>3, StepAdvances DEF RunInv
<1>5. cursor \in 0 .. 6
  BY DEF RunInv, RunTypes
<1>6. cursor <= cursor'
  BY <1>4, <1>5
<1>7. Places(step)
  BY <1>1, StepPlaces DEF RunInv
<1>. QED
  BY <1>1, <1>3, <1>4, <1>5, <1>6, <1>7 DEF Feature!StepEnds

\* The first patch replaces one that was neither tested nor reviewed.
LEMMA GenerateKeeps == RunInv /\ Feature!GenerateCode => RunInv'
<1>. SUFFICES ASSUME RunInv, Feature!GenerateCode PROVE RunInv'
  OBVIOUS
<1>. USE DEF RunInv
<1>1. PICK q : /\ alias' = [alias EXCEPT !.code = q]
               /\ result' = [result EXCEPT !.code_generator = q]
  BY DEF Feature!GenerateCode
<1>2. /\ Feature!Executes("code_generator") /\ Feature!StepEnds
      /\ UNCHANGED <<fixes, tested, reviewed, opened, missed>>
  BY DEF Feature!GenerateCode
<1>3. /\ Feature!AtStep("code_generator") /\ Advances /\ recorded' = recorded
         /\ iteration' = iteration
      /\ resumes' = resumes /\ OnPlan' /\ Places("code_generator")
      /\ cursor' \in 0 .. 6 /\ cursor \in 0 .. 6 /\ cursor <= cursor'
  BY <1>2, EndsAdvance
<1>4. /\ DOMAIN result' = DOMAIN result /\ DOMAIN alias' = DOMAIN alias
      /\ alias'.code = q /\ result'.code_generator = q
      /\ alias'.fixed = alias.fixed /\ alias'.tests = alias.tests
      /\ alias'.review = alias.review /\ result'.fix_agent = result.fix_agent
      /\ result'.test_runner = result.test_runner
      /\ result'.review_agent = result.review_agent
  BY <1>1 DEF RunTypes
<1>5. RunTypes'
  BY <1>2, <1>3, <1>4 DEF RunTypes
<1>6. TestsKnown' /\ PublishedOnce' /\ PullsCareful' /\ ReviewKnown'
  BY <1>2, <1>3, <1>4, StepKeeps
<1>7. OnePatch'
  <2>1. cursor = 0
    BY <1>3 DEF Places
  <2>2. fixes = 0 => /\ tested.end = Feature!None /\ alias.review = Feature!None
                     /\ result.review_agent \notin Decisions
                     /\ alias.fixed = Feature!NoPatch /\ result.fix_agent = Feature!NoPatch
    BY <2>1 DEF OnePatch
  <2>. QED
    BY <1>2, <1>4, <2>2 DEF OnePatch
<1>. QED
  BY <1>3, <1>5, <1>6, <1>7

\* Tests are run before the review, of the one patch there is.
LEMMA RunTestsKeeps == RunInv /\ Feature!RunTests => RunInv'
<1>. SUFFICES ASSUME RunInv, Feature!RunTests PROVE RunInv'
  OBVIOUS
<1>. USE DEF RunInv
<1>1. PICK end \in Feature!Ends \cup {Feature!None} :
        /\ tested' = [patch |-> Feature!TestedPatch,
           written |-> Feature!Written(Feature!TestedPatch), end |-> end]
        /\ result' = [result EXCEPT !.test_runner = end]
        /\ alias' = IF end # Feature!None /\ Feature!StatusOf(end) # "BLOCKED"
                    THEN [alias EXCEPT !.tests = end] ELSE alias
  BY DEF Feature!RunTests
<1>2. /\ Feature!Executes("test_runner") /\ Feature!StepEnds
      /\ UNCHANGED <<fixes, reviewed, opened, missed>>
  BY DEF Feature!RunTests
<1>3. /\ Feature!AtStep("test_runner") /\ Advances /\ recorded' = recorded
         /\ iteration' = iteration
      /\ resumes' = resumes /\ OnPlan' /\ Places("test_runner")
      /\ cursor' \in 0 .. 6 /\ cursor \in 0 .. 6 /\ cursor <= cursor'
  BY <1>2, EndsAdvance
<1>4. /\ DOMAIN result' = DOMAIN result /\ DOMAIN alias' = DOMAIN alias
      /\ alias'.code = alias.code /\ result'.code_generator = result.code_generator
      /\ alias'.fixed = alias.fixed /\ alias'.review = alias.review
      /\ result'.fix_agent = result.fix_agent
      /\ result'.review_agent = result.review_agent
  BY <1>1 DEF RunTypes
<1>5. RunTypes'
  BY <1>2, <1>3, <1>4 DEF RunTypes
<1>6. PublishedOnce' /\ PullsCareful' /\ ReviewKnown'
  BY <1>2, <1>3, <1>4, StepKeeps
<1>7. TestsKnown'
  <2>1. tested'.end = end /\ result'.test_runner = end
    BY <1>1 DEF RunTypes
  <2>2. alias'.tests = end \/ alias'.tests = alias.tests
    BY <1>1 DEF RunTypes
  <2>3. phase' # "after"
    BY <1>3 DEF Places, Advances
  <2>4. Ahead("test_runner")
    <3>1. todo \in Seq(StepNames) /\ todo # << >> /\ Head(todo) = "test_runner"
      BY <1>3, TodoType DEF Feature!AtStep
    <3>2. 1 \in 1 .. Len(todo) /\ todo[1] = "test_runner"
      BY <3>1
    <3>. QED
      BY <3>2 DEF Ahead
  <2>5. alias.tests # "passed"
    BY <2>4 DEF TestsKnown
  <2>6. ~Ahead("test_runner")'
    <3>1. CASE todo = Retest
      <4>1. todo' = << >>
        BY <1>3, <3>1, HeadsAndTails DEF Advances
      <4>. QED
        BY <4>1 DEF Ahead
    <3>2. CASE todo = RestOf(1)
      <4>1. todo' = RestOf(2)
        BY <1>3, <3>2, HeadsAndTails DEF Advances
      <4>2. Len(RestOf(2)) = 4 /\ \A i \in 1 .. 4 : RestOf(2)[i] = Feature!Plan[2 + i]
        <5>1. 2 \in 0 .. 6 /\ 6 - 2 = 4
          OBVIOUS
        <5>2. Len(RestOf(2)) = 6 - 2 /\ \A i \in 1 .. 6 - 2 : RestOf(2)[i] = Feature!Plan[2 + i]
          BY <5>1, RestBehind
        <5>. QED
          BY <5>1, <5>2
      <4>3. Feature!Plan[3] # "test_runner" /\ Feature!Plan[4] # "test_runner"
            /\ Feature!Plan[5] # "test_runner"
            /\ Feature!Plan[6] # "test_runner"
        BY DEF Feature!Plan
      <4>4. \A i \in 1 .. 4 : Feature!Plan[2 + i] # "test_runner"
        BY <4>3
      <4>. QED
        BY <4>1, <4>2, <4>4 DEF Ahead
    <3>. QED
      BY <1>3, <3>1, <3>2 DEF Places
  <2>7. ASSUME end \in Failing PROVE alias'.tests = end
    <3>1. Feature!StatusOf(end) # "BLOCKED" /\ end # Feature!None
      BY <2>7 DEF Feature!StatusOf, Feature!ResultType, Failing, Feature!None
    <3>. QED
      BY <1>1, <3>1 DEF RunTypes
  <2>. QED
    BY <2>1, <2>2, <2>3, <2>5, <2>6, <2>7 DEF TestsKnown
<1>8. OnePatch'
  <2>1. tested'.patch = Feature!TestedPatch /\ tested'.end = end /\ reviewed' = reviewed
        /\ fixes' = fixes
    BY <1>1, <1>2
  <2>2. ASSUME fixes = 0 PROVE cursor' >= 1 /\ Feature!TestedPatch = result.code_generator
    <3>1. cursor = 1
      BY <1>3, <2>2 DEF Places
    <3>2. cursor' >= 1
      BY <1>3, <3>1
    <3>3. alias.code \in {Feature!NoPatch, result.code_generator}
          /\ result.fix_agent = Feature!NoPatch
      BY <2>2 DEF OnePatch
    <3>. QED
      BY <3>2, <3>3 DEF Feature!TestedPatch, Feature!FixOrCode, Feature!First
  <2>. QED
    BY <1>4, <2>1, <2>2 DEF OnePatch
<1>. QED
  BY <1>3, <1>5, <1>6, <1>7, <1>8

\* Once something was fixed there is no one patch to speak of.
LEMMA FixKeeps == RunInv /\ Feature!Fix => RunInv'
<1>. SUFFICES ASSUME RunInv, Feature!Fix PROVE RunInv'
  OBVIOUS
<1>. USE DEF RunInv
<1>1. /\ alias' = [alias EXCEPT !.fixed = Feature!NewPatch(FALSE)]
      /\ result' = [result EXCEPT !.fix_agent = Feature!NewPatch(FALSE)]
      /\ fixes' = fixes + 1 /\ Feature!Executes("fix_agent") /\ Feature!StepEnds
      /\ UNCHANGED <<tested, reviewed, opened, missed>>
  BY DEF Feature!Fix
<1>2. fixes' \in Nat /\ fixes' # 0
  BY <1>1 DEF RunTypes
<1>3. /\ Feature!AtStep("fix_agent") /\ recorded' = recorded /\ iteration' = iteration
      /\ resumes' = resumes /\ Advances
  BY <1>1, <1>2 DEF Feature!Executes, Feature!AtStep, Feature!StepEnds, Advances
<1>4. OnPlan' /\ cursor' \in 0 .. 6
  BY <1>3, StepAdvances
<1>5. /\ DOMAIN result' = DOMAIN result /\ DOMAIN alias' = DOMAIN alias
      /\ alias'.tests = alias.tests /\ alias'.review = alias.review
      /\ result'.test_runner = result.test_runner
      /\ result'.review_agent = result.review_agent
  BY <1>1 DEF RunTypes
<1>6. RunTypes'
  BY <1>2, <1>3, <1>4, <1>5 DEF RunTypes
<1>7. TestsKnown' /\ PublishedOnce' /\ PullsCareful' /\ ReviewKnown'
  BY <1>1, <1>3, <1>5, StepKeeps
<1>8. OnePatch'
  BY <1>2 DEF OnePatch
<1>. QED
  BY <1>4, <1>6, <1>7, <1>8

\* A review decides, and sees the one patch there is.
LEMMA ReviewKeeps == RunInv /\ Feature!Review => RunInv'
<1>. SUFFICES ASSUME RunInv, Feature!Review PROVE RunInv'
  OBVIOUS
<1>. USE DEF RunInv
<1>1. PICK decision \in Decisions :
        /\ alias' = [alias EXCEPT !.review = decision]
        /\ result' = [result EXCEPT !.review_agent = decision]
  BY DEF Feature!Review, Decisions
<1>2. /\ Feature!Executes("review_agent") /\ Feature!StepEnds
         /\ reviewed' = Feature!ReviewedPatch
      /\ UNCHANGED <<fixes, tested, opened, missed>>
  BY DEF Feature!Review
<1>3. /\ Feature!AtStep("review_agent") /\ Advances /\ recorded' = recorded
         /\ iteration' = iteration
      /\ resumes' = resumes /\ OnPlan' /\ Places("review_agent")
      /\ cursor' \in 0 .. 6 /\ cursor \in 0 .. 6 /\ cursor <= cursor'
  BY <1>2, EndsAdvance
<1>4. /\ DOMAIN result' = DOMAIN result /\ DOMAIN alias' = DOMAIN alias
      /\ alias'.code = alias.code /\ result'.code_generator = result.code_generator
      /\ alias'.fixed = alias.fixed /\ alias'.tests = alias.tests
      /\ result'.fix_agent = result.fix_agent /\ result'.test_runner = result.test_runner
      /\ alias'.review = decision /\ result'.review_agent = decision
  BY <1>1 DEF RunTypes
<1>5. RunTypes'
  BY <1>2, <1>3, <1>4 DEF RunTypes
<1>6. TestsKnown' /\ PublishedOnce' /\ PullsCareful'
  BY <1>2, <1>3, <1>4, StepKeeps
<1>7. ReviewKnown'
  BY <1>4 DEF ReviewKnown
<1>8. OnePatch'
  <2>1. ASSUME fixes = 0 PROVE cursor' >= 1 /\ Feature!ReviewedPatch = result.code_generator
    <3>1. cursor = 2 \/ cursor = 3
      BY <1>3, <2>1 DEF Places
    <3>2. cursor' >= 1
      BY <1>3, <3>1
    <3>3. alias.code \in {Feature!NoPatch, result.code_generator}
          /\ result.fix_agent = Feature!NoPatch
      BY <2>1 DEF OnePatch
    <3>. QED
      BY <3>2, <3>3 DEF Feature!ReviewedPatch, Feature!FixOrCode, Feature!First
  <2>. QED
    BY <1>2, <1>4, <2>1 DEF OnePatch
<1>. QED
  BY <1>3, <1>5, <1>6, <1>7, <1>8

\* The memory is no part of what is published.
LEMMA MemoryKeeps == RunInv /\ Feature!WriteMemory => RunInv'
<1>. SUFFICES ASSUME RunInv, Feature!WriteMemory PROVE RunInv'
  OBVIOUS
<1>. USE DEF RunInv
<1>1. /\ Feature!Executes("memory_writer") /\ Feature!StepEnds
      /\ UNCHANGED <<alias, result, fixes, tested, reviewed, opened, missed>>
  BY DEF Feature!WriteMemory, Feature!context
<1>2. /\ Feature!AtStep("memory_writer") /\ Advances /\ recorded' = recorded
         /\ iteration' = iteration
      /\ resumes' = resumes /\ OnPlan'
      /\ cursor' \in 0 .. 6 /\ cursor \in 0 .. 6 /\ cursor <= cursor'
  BY <1>1, EndsAdvance
<1>3. RunTypes'
  BY <1>1, <1>2 DEF RunTypes
<1>4. TestsKnown' /\ PublishedOnce' /\ PullsCareful' /\ ReviewKnown'
  BY <1>1, <1>2, StepKeeps
<1>5. SamePatches
  BY <1>1 DEF SamePatches
<1>6. OnePatch'
  BY <1>1, <1>2, <1>5, PatchKept
<1>. QED
  BY <1>2, <1>3, <1>4, <1>6

\* What a run that is at the merge knows of its patch.
LEMMA PullIsCareful ==
    ASSUME RunInv, Feature!AtStep("pr_merge_agent")
    PROVE  CarefulPull(Feature!Pull)
<1>. USE DEF RunInv
<1>1. Places("pr_merge_agent")
  BY StepPlaces DEF Feature!AtStep
<1>2. /\ todo = RestOf(5) /\ (phase = "after" \/ resumes # 0)
      /\ fixes = 0 => cursor >= 4
  <2>1. todo = RestOf(5) /\ (fixes = 0 => cursor = 4 \/ cursor = 5)
    BY <1>1 DEF Places
  <2>2. fixes = 0 => cursor >= 4
    BY <2>1
  <2>3. phase = "after" \/ resumes # 0
    BY <1>1 DEF Places, OnPlan, InLoop, BehindLoop
  <2>. QED
    BY <2>1, <2>2, <2>3
<1>3. /\ Feature!Pull.patch = Feature!PublishedPatch /\ Feature!Pull.tested = tested
         /\ Feature!Pull.reviewed = reviewed
      /\ Feature!Pull.review = Feature!SeenReview /\ Feature!Pull.approved = Feature!Approved
      /\ Feature!Pull.iteration = iteration /\ Feature!Pull.fixes = fixes
         /\ Feature!Pull.resumed = (resumes > 0)
  BY DEF Feature!Pull
<1>4. resumes \in Nat /\ fixes \in Nat
  BY DEF RunTypes
<1>5. ASSUME tested.end \in Failing PROVE resumes > 0 \/ iteration = MaxIterations
  BY <1>2, <1>4, <1>5 DEF TestsKnown
<1>6. ASSUME Feature!SeenReview \in {Feature!None, "error"} PROVE resumes > 0 /\ fixes > 0
  <2>1. result.review_agent \notin Decisions
    <3>1. Feature!None \notin Decisions /\ "error" \notin Decisions
      BY DEF Feature!None, Decisions
    <3>2. CASE alias.review = Feature!None
      BY <1>6, <3>1, <3>2 DEF Feature!SeenReview
    <3>3. CASE alias.review # Feature!None
      BY <1>6, <3>1, <3>3 DEF Feature!SeenReview, RunTypes
    <3>. QED
      BY <3>2, <3>3
  <2>2. fixes # 0
    BY <1>2, <2>1 DEF ReviewKnown
  <2>3. resumes # 0
    BY <1>2, <2>1, AllDiffer DEF ReviewKnown
  <2>. QED
    BY <1>4, <2>2, <2>3
<1>7. ASSUME Feature!Approved
      PROVE  /\ tested.end = "passed"
             /\ fixes = 0 => /\ Feature!PublishedPatch = tested.patch
                             /\ Feature!PublishedPatch = reviewed
  <2>1. Feature!SeenTests = "passed" /\ Feature!SeenReview = "approve"
    BY <1>7 DEF Feature!Approved, Feature!TestsPassed
  <2>2. tested.end = "passed"
    <3>1. CASE alias.tests # Feature!None
      BY <2>1, <3>1 DEF Feature!SeenTests, TestsKnown
    <3>2. CASE alias.tests = Feature!None
      BY <2>1, <3>2 DEF Feature!SeenTests, TestsKnown, Feature!None
    <3>. QED
      BY <3>1, <3>2
  <2>3. ASSUME fixes = 0
        PROVE Feature!PublishedPatch = tested.patch /\ Feature!PublishedPatch = reviewed
    <3>1. alias.fixed = Feature!NoPatch /\ result.fix_agent = Feature!NoPatch
      BY <2>3 DEF OnePatch
    <3>2. Feature!PublishedPatch = result.code_generator
      BY <3>1 DEF Feature!PublishedPatch, Feature!CodeOrFix, Feature!First
    <3>3. tested.patch = result.code_generator
      BY <2>2, <2>3 DEF OnePatch, Feature!None
    <3>4. alias.review # Feature!None \/ result.review_agent \in Decisions
      BY <2>1 DEF Feature!SeenReview, Decisions
    <3>5. reviewed = result.code_generator
      BY <2>3, <3>4 DEF OnePatch
    <3>. QED
      BY <3>2, <3>3, <3>5
  <2>. QED
    BY <2>2, <2>3
<1>. QED
  BY <1>3, <1>5, <1>6, <1>7 DEF CarefulPull

\* The pull request of such a run is one more of the careful ones.
LEMMA PullAppended ==
    ASSUME RunInv, Feature!AtStep("pr_merge_agent"), opened' = Append(opened, Feature!Pull)
    PROVE  PullsCareful' /\ Len(opened') = Len(opened) + 1
<1>1. PICK S : opened \in Seq(S) /\ \A p \in S : CarefulPull(p)
  BY DEF RunInv, PullsCareful
<1>2. CarefulPull(Feature!Pull)
  BY PullIsCareful
<1>. DEFINE T == S \cup {Feature!Pull}
<1>3. \A p \in T : CarefulPull(p)
  BY <1>1, <1>2
<1>4. opened \in Seq(T)
  BY <1>1
<1>5. opened' \in Seq(T) /\ Len(opened') = Len(opened) + 1
  <2>1. Feature!Pull \in T
    OBVIOUS
  <2>. HIDE DEF T
  <2>. QED
    BY <1>4, <2>1
<1>6. \A p : CarefulPull(p) <=> CarefulPull(p)'
  BY DEF CarefulPull
<1>. QED
  BY <1>3, <1>5 DEF PullsCareful, CarefulPull

\* Nothing is published before, as far as the record knows.
LEMMA NothingPublished ==
    ASSUME RunInv, Feature!AtStep("pr_merge_agent"), ~missed
    PROVE  Len(opened) = 0
<1>1. Places("pr_merge_agent") /\ todo # << >> /\ recorded = "RUNNING"
  BY StepPlaces DEF Feature!AtStep, RunInv
<1>2. phase = "last loop" => cursor = 5
  BY <1>1 DEF Places
<1>3. ~(Len(opened) > 0)
  <2>1. ASSUME phase = "last loop" PROVE cursor # 6
    <3>1. cursor = 5
      BY <1>2, <2>1
    <3>. QED
      BY <3>1
  <2>. QED
    BY <1>1, <2>1 DEF RunInv, PublishedOnce
<1>4. Len(opened) \in Nat
  BY DEF RunInv, PullsCareful
<1>. QED
  BY <1>3, <1>4

\* Merging publishes at most once, and the index passes the merge.
LEMMA MergeKeeps == RunInv /\ Feature!Merge => RunInv'
<1>. SUFFICES ASSUME RunInv, Feature!Merge PROVE RunInv'
  OBVIOUS
<1>. USE DEF RunInv
<1>1. /\ Feature!Executes("pr_merge_agent") /\ Feature!StepEnds
      /\ result' = [result EXCEPT !.pr_merge_agent = "done"]
      /\ opened' = opened \/ opened' = Append(opened, Feature!Pull)
      /\ UNCHANGED <<alias, fixes, tested, reviewed, missed>>
  BY DEF Feature!Merge, Feature!Merged
<1>2. /\ Feature!AtStep("pr_merge_agent") /\ Advances /\ recorded' = recorded
         /\ iteration' = iteration
      /\ resumes' = resumes /\ OnPlan' /\ runState' = "RUNNING" /\ Places("pr_merge_agent")
      /\ cursor' = IF cursor < 6 THEN cursor + 1 ELSE 6
      /\ cursor' \in 0 .. 6 /\ cursor \in 0 .. 6 /\ cursor <= cursor'
  BY <1>1, EndsAdvance
<1>3. /\ DOMAIN result' = DOMAIN result
      /\ result'.code_generator = result.code_generator
      /\ result'.fix_agent = result.fix_agent
      /\ result'.test_runner = result.test_runner
      /\ result'.review_agent = result.review_agent
  BY <1>1 DEF RunTypes
<1>4. RunTypes'
  BY <1>1, <1>2, <1>3 DEF RunTypes
<1>5. TestsKnown' /\ ReviewKnown'
  BY <1>1, <1>2, <1>3, StepKeeps
<1>6. SamePatches
  BY <1>1, <1>3 DEF SamePatches
<1>7. OnePatch'
  BY <1>1, <1>2, <1>3, <1>6, PatchKept
<1>8. PublishedOnce' /\ PullsCareful'
  <2>1. CASE opened' = opened
    BY <1>1, <1>2, <2>1, StepKeeps
  <2>2. CASE opened' = Append(opened, Feature!Pull)
    <3>1. PullsCareful' /\ Len(opened') = Len(opened) + 1
      BY <1>2, <2>2, PullAppended
    <3>2. Len(opened') > 1 => missed'
      BY <1>1, <1>2, <3>1, NothingPublished
    <3>3. \/ phase' = "last loop" /\ cursor' = 6
          \/ phase' = "after" /\ todo' = << >> /\ runState' = "RUNNING" /\ recorded' = "RUNNING"
      <4>1. phase' = phase /\ todo' = Tail(todo) /\ todo = RestOf(5) /\ recorded = "RUNNING"
        BY <1>2 DEF Places, Advances, Feature!AtStep
      <4>2. todo' = << >>
        BY <4>1, HeadsAndTails
      <4>3. (phase = "last loop" /\ cursor = 5) \/ phase = "after"
        BY <1>2 DEF Places
      <4>4. cursor = 5 => cursor' = 6
        BY <1>2
      <4>. QED
        BY <1>2, <4>1, <4>2, <4>3, <4>4
    <3>. QED
      BY <3>1, <3>2, <3>3 DEF PublishedOnce
  <2>. QED
    BY <1>1, <2>1, <2>2
<1>. QED
  BY <1>2, <1>4, <1>5, <1>7, <1>8

\* What an action does that leaves the run where it is: at most the result of the step
\* it stands before is lost.
Stays ==
    /\ UNCHANGED <<phase, todo, iteration, cursor, resumes, alias, fixes, tested, reviewed>>
    /\ DOMAIN result' = DOMAIN result
    /\ result'.code_generator = result.code_generator
    /\ result'.fix_agent = result.fix_agent
    /\ result'.test_runner \in {result.test_runner, Feature!None}
    /\ \/ result'.review_agent = result.review_agent
       \/ /\ todo # << >> /\ Head(todo) = "review_agent"
          /\ result'.review_agent \in {Feature!None, "error"}

\* What is known of the run then stays true.
LEMMA StaysKeeps ==
    ASSUME RunInv, Stays
    PROVE  /\ RunTypes' /\ OnPlan' /\ TestsKnown' /\ OnePatch' /\ ReviewKnown'
           /\ opened' = opened => PullsCareful'
<1>. USE DEF RunInv
<1>1. /\ UNCHANGED <<phase, todo, iteration, cursor, resumes, alias, fixes, tested, reviewed>>
      /\ DOMAIN result' = DOMAIN result
      /\ result'.code_generator = result.code_generator
      /\ result'.fix_agent = result.fix_agent
      /\ result'.test_runner \in {result.test_runner, Feature!None}
  BY DEF Stays
<1>2. /\ result'.review_agent \in {result.review_agent, Feature!None, "error"}
      /\ result'.review_agent = result.review_agent
           \/ (todo # << >> /\ Head(todo) = "review_agent")
  BY DEF Stays
<1>3. Feature!None \notin Decisions /\ "error" \notin Decisions
  BY DEF Feature!None, Decisions
<1>4. RunTypes'
  BY <1>1, <1>2 DEF RunTypes
<1>5. OnPlan'
  BY <1>1 DEF OnPlan, InLoop, BehindLoop, InResume, Feature!LoopCondition
<1>6. TestsKnown'
  BY <1>1 DEF TestsKnown, Ahead
<1>7. OnePatch'
  BY <1>1, <1>2, <1>3 DEF OnePatch
<1>8. ReviewKnown'
  <2>1. CASE result'.review_agent = result.review_agent
    BY <1>1, <2>1 DEF ReviewKnown
  <2>2. CASE todo # << >> /\ Head(todo) = "review_agent"
    <3>1. todo = RestOf(3) /\ (fixes = 0 => cursor = 2 \/ cursor = 3)
      BY <2>2, StepPlaces DEF Places
    <3>2. fixes = 0 => ~(cursor >= 4)
      BY <3>1
    <3>. QED
      BY <1>1, <3>1, <3>2 DEF ReviewKnown
  <2>. QED
    BY <1>2, <2>1, <2>2
<1>9. opened' = opened => PullsCareful'
  BY DEF PullsCareful
<1>. QED
  BY <1>4, <1>5, <1>6, <1>7, <1>8, <1>9

\* Before a step of the plan only a run that was resumed may have published.
LEMMA StaysPublished ==
    ASSUME RunInv, Stays, recorded = "RUNNING", todo # << >>, opened' = opened, missed' = missed
    PROVE  PublishedOnce'
<1>1. phase' = phase /\ cursor' = cursor
  BY DEF Stays
<1>. QED
  BY <1>1 DEF RunInv, PublishedOnce

\* A step that blocks its run.
LEMMA BlocksKeeps ==
    ASSUME RunInv, Feature!GenerationFails \/ Feature!FixFails \/ Feature!ReviewFails
       \/ Feature!MergeFails
    PROVE  RunInv'
<1>1. /\ todo # << >> /\ recorded = "RUNNING"
      /\ UNCHANGED <<phase, todo, iteration, cursor, resumes, alias, fixes, tested, reviewed>>
  BY DEF Feature!GenerationFails, Feature!FixFails, Feature!ReviewFails, Feature!MergeFails,
     Feature!Executes, Feature!AtStep, Feature!Blocks, Feature!context
<1>2. \/ result' = result
      \/ result' = [result EXCEPT !.pr_merge_agent = Feature!None]
      \/ result' = [result EXCEPT !.review_agent = "error"] /\ Head(todo) = "review_agent"
  BY DEF Feature!GenerationFails, Feature!FixFails, Feature!ReviewFails, Feature!MergeFails,
     Feature!Executes, Feature!AtStep, Feature!Blocks, Feature!context
<1>3. Stays
  <2>1. result.test_runner \in {result.test_runner, Feature!None}
    OBVIOUS
  <2>2. CASE result' = result
    BY <1>1, <2>1, <2>2 DEF Stays
  <2>3. CASE result' = [result EXCEPT !.pr_merge_agent = Feature!None]
    <3>1. /\ DOMAIN result' = DOMAIN result
          /\ result'.code_generator = result.code_generator
          /\ result'.fix_agent = result.fix_agent
          /\ result'.test_runner = result.test_runner
          /\ result'.review_agent = result.review_agent
      BY <2>3 DEF RunInv, RunTypes
    <3>. QED
      BY <1>1, <3>1 DEF Stays
  <2>4. CASE result' = [result EXCEPT !.review_agent = "error"] /\ Head(todo) = "review_agent"
    <3>1. /\ DOMAIN result' = DOMAIN result
          /\ result'.code_generator = result.code_generator
          /\ result'.fix_agent = result.fix_agent
          /\ result'.test_runner = result.test_runner
          /\ result'.review_agent = "error"
      BY <2>4 DEF RunInv, RunTypes
    <3>. QED
      BY <1>1, <2>4, <3>1 DEF Stays
  <2>. QED
    BY <1>2, <2>2, <2>3, <2>4
<1>4. /\ RunTypes' /\ OnPlan' /\ TestsKnown' /\ OnePatch' /\ ReviewKnown'
      /\ opened' = opened => PullsCareful'
  BY <1>3, StaysKeeps
<1>5. \/ opened' = opened /\ missed' = missed
      \/ Feature!AtStep("pr_merge_agent") /\ opened' = Append(opened, Feature!Pull)
         /\ missed' = TRUE
  BY DEF Feature!GenerationFails, Feature!FixFails, Feature!ReviewFails, Feature!MergeFails,
     Feature!Executes
<1>6. PublishedOnce' /\ PullsCareful'
  <2>1. CASE opened' = opened /\ missed' = missed
    BY <1>1, <1>3, <1>4, <2>1, StaysPublished
  <2>2. CASE Feature!AtStep("pr_merge_agent") /\ opened' = Append(opened, Feature!Pull)
        /\ missed' = TRUE
    BY <2>2, PullAppended DEF PublishedOnce
  <2>. QED
    BY <1>5, <2>1, <2>2
<1>. QED
  BY <1>4, <1>6 DEF RunInv

\* A stopped run keeps the results of the steps that had succeeded.
LEMMA HaltKeeps == RunInv /\ Feature!Halt => RunInv'
<1>. SUFFICES ASSUME RunInv, Feature!Halt PROVE RunInv'
  OBVIOUS
<1>1. /\ todo # << >> /\ recorded = "RUNNING"
      /\ UNCHANGED <<phase, todo, iteration, cursor, resumes, alias, fixes, tested,
                     reviewed, opened, missed>>
  BY DEF Feature!Halt, Feature!history
<1>2. \/ result' = result
      \/ ~Feature!HasSucceeded(Head(todo))
         /\ result' = [result EXCEPT ![Head(todo)] = Feature!Erased(Head(todo))]
  BY DEF Feature!Halt
<1>3. Stays
  <2>1. result.test_runner \in {result.test_runner, Feature!None}
    OBVIOUS
  <2>2. CASE result' = result
    BY <1>1, <2>1, <2>2 DEF Stays
  <2>3. CASE ~Feature!HasSucceeded(Head(todo))
             /\ result' = [result EXCEPT ![Head(todo)] = Feature!Erased(Head(todo))]
    <3>1. Head(todo) \in StepNames
      BY <1>1, StepPlaces DEF RunInv, Places
    <3>. DEFINE step == Head(todo)
    <3>2. /\ step = "code_generator" \/ step = "fix_agent"
               => result[step] = Feature!NoPatch /\ Feature!Erased(step) = Feature!NoPatch
          /\ step # "code_generator" /\ step # "fix_agent"
             => Feature!Erased(step) = Feature!None
      BY <2>3 DEF Feature!HasSucceeded, Feature!Erased
    <3>3. /\ result' = [result EXCEPT ![step] = Feature!Erased(step)] /\ step \in StepNames
          /\ DOMAIN result = {"code_generator", "fix_agent", "test_runner", "review_agent",
                              "memory_writer", "pr_merge_agent"}
      BY <2>3, <3>1 DEF RunInv, RunTypes
    <3>. HIDE DEF step
    <3>4. /\ DOMAIN result' = DOMAIN result
          /\ result'.code_generator = result.code_generator
          /\ result'.fix_agent = result.fix_agent
          /\ result'.test_runner \in {result.test_runner, Feature!None}
      BY <3>2, <3>3
    <3>5. \/ result'.review_agent = result.review_agent
          \/ step = "review_agent" /\ result'.review_agent = Feature!None
      BY <3>2, <3>3
    <3>. QED
      BY <1>1, <3>4, <3>5 DEF Stays, step
  <2>. QED
    BY <1>2, <2>2, <2>3
<1>. QED
  BY <1>1, <1>3, StaysKeeps, StaysPublished DEF RunInv

\* A crash leaves a publication behind that the record does not know of.
LEMMA CrashKeeps == RunInv /\ Feature!Crash => RunInv'
<1>. SUFFICES ASSUME RunInv, Feature!Crash PROVE RunInv'
  OBVIOUS
<1>1. /\ UNCHANGED <<phase, todo, iteration, cursor, resumes, alias, result, fixes, tested,
                     reviewed>>
      /\ missed' = (missed \/ opened' # << >>)
      /\ opened' = opened \/
         (Feature!AtStep("pr_merge_agent") /\ opened' = Append(opened, Feature!Pull))
  BY DEF Feature!Crash, Feature!context, Feature!Executes
<1>2. Stays
  <2>1. result.test_runner \in {result.test_runner, Feature!None}
    OBVIOUS
  <2>. QED
    BY <1>1, <2>1 DEF Stays
<1>3. /\ RunTypes' /\ OnPlan' /\ TestsKnown' /\ OnePatch' /\ ReviewKnown'
      /\ opened' = opened => PullsCareful'
  BY <1>2, StaysKeeps
<1>4. PullsCareful'
  BY <1>1, <1>3, PullAppended
<1>5. Len(opened') > 0 => missed'
  <2>1. opened' # << >> => missed'
    BY <1>1
  <2>2. Len(<< >>) = 0
    OBVIOUS
  <2>. QED
    BY <2>1, <2>2
<1>6. Len(opened') \in Nat
  BY <1>4 DEF PullsCareful
<1>7. PublishedOnce'
  <2>1. Len(opened') > 1 => Len(opened') > 0
    BY <1>6
  <2>. QED
    BY <1>5, <2>1 DEF PublishedOnce
<1>. QED
  BY <1>3, <1>4, <1>7 DEF RunInv

\* Stopping asks only, and the end of a run keeps what it has.
LEMMA RestKeeps == RunInv /\ (Feature!Stop \/ Feature!EndRun \/ UNCHANGED Feature!vars)
    => RunInv'
<1>. SUFFICES ASSUME RunInv, Feature!Stop \/ Feature!EndRun \/ UNCHANGED Feature!vars
     PROVE RunInv'
  OBVIOUS
<1>1. UNCHANGED <<phase, todo, iteration, cursor, resumes, alias, result, fixes, tested,
                  reviewed, opened, missed, runState>>
  BY DEF Feature!Stop, Feature!EndRun, Feature!vars, Feature!context, Feature!history,
     Feature!ends
<1>2. \/ recorded' = recorded
      \/ recorded = "RUNNING" /\ (runState # "BLOCKED" => recorded' = "SUCCESS")
  BY DEF Feature!Stop, Feature!EndRun, Feature!vars, Feature!ends, Feature!AtEnd
<1>3. Stays
  <2>1. result.test_runner \in {result.test_runner, Feature!None}
    OBVIOUS
  <2>. QED
    BY <1>1, <2>1 DEF Stays
<1>4. RunTypes' /\ OnPlan' /\ TestsKnown' /\ OnePatch' /\ ReviewKnown' /\ PullsCareful'
  BY <1>1, <1>3, StaysKeeps
<1>5. PublishedOnce'
  <2>1. "RUNNING" # "BLOCKED" /\ "RUNNING" # "SUCCESS"
    OBVIOUS
  <2>. QED
    BY <1>1, <1>2, <2>1 DEF RunInv, PublishedOnce
<1>. QED
  BY <1>4, <1>5 DEF RunInv

\* A resumed run begins at its index, and has no entries in its context.
LEMMA ResumeKeeps == RunInv /\ Feature!Resume => RunInv'
<1>. SUFFICES ASSUME RunInv, Feature!Resume PROVE RunInv'
  OBVIOUS
<1>. USE DEF RunInv
<1>1. /\ recorded \in {"BLOCKED", "FAILED"} /\ recorded' = "RUNNING"
      /\ resumes' = resumes + 1 /\ phase' = "last loop"
      /\ todo' = RestOf(cursor) /\ alias' = Feature!NoAlias
      /\ UNCHANGED <<cursor, result, fixes, tested, reviewed, opened, missed>>
  BY DEF Feature!Resume, RestOf
<1>2. resumes' \in Nat /\ resumes' # 0 /\ cursor \in 0 .. 6
  <2>1. resumes \in Nat /\ cursor \in 0 .. 6
    BY DEF RunTypes
  <2>2. resumes' = resumes + 1
    BY <1>1
  <2>. QED
    BY <2>1, <2>2
<1>3. /\ alias'.code = Feature!NoPatch /\ alias'.fixed = Feature!NoPatch
         /\ alias'.tests = Feature!None
      /\ alias'.review = Feature!None /\ DOMAIN alias' = DOMAIN alias
  BY <1>1 DEF Feature!NoAlias, RunTypes
<1>4. RunTypes'
  BY <1>1, <1>2, <1>3 DEF RunTypes
<1>5. OnPlan'
  <2>1. InResume'
    BY <1>1 DEF InResume
  <2>2. todo' # Repair
    BY <1>1, <1>2, AllDiffer
  <2>. QED
    BY <1>2, <2>1, <2>2 DEF OnPlan
<1>6. TestsKnown'
  BY <1>1, <1>2, <1>3 DEF TestsKnown, Feature!None
<1>7. OnePatch'
  BY <1>1, <1>3 DEF OnePatch
<1>8. ReviewKnown'
  BY <1>1, <1>2 DEF ReviewKnown
<1>9. PublishedOnce'
  BY <1>1 DEF PublishedOnce
<1>10. PullsCareful'
  BY <1>1 DEF PullsCareful
<1>. QED
  BY <1>4, <1>5, <1>6, <1>7, <1>8, <1>9, <1>10

\* The loop goes on only while the tests do not pass.
LEMMA IterateKeeps == RunInv /\ Feature!Iterate => RunInv'
<1>. SUFFICES ASSUME RunInv, Feature!Iterate PROVE RunInv'
  OBVIOUS
<1>. USE DEF RunInv
<1>1. /\ recorded = "RUNNING" /\ todo = << >> /\ phase \in {"loop", "last loop"}
      /\ Feature!LoopCondition /\ todo' = Repair
      /\ UNCHANGED <<phase, cursor, resumes, recorded, runState, alias, result, fixes, tested,
                     reviewed, opened, missed>>
  BY DEF Feature!Iterate, Feature!context, Feature!ends, Feature!history, Repair
<1>2. phase # "after"
  BY <1>1
<1>3. RunTypes'
  BY <1>1 DEF RunTypes
<1>4. OnPlan'
  <2>1. Feature!LoopCondition'
    BY <1>1 DEF Feature!LoopCondition
  <2>2. CASE resumes = 0
    <3>1. InLoop
      BY <1>2, <2>2 DEF OnPlan, BehindLoop
    <3>2. phase = "loop" /\ (fixes = 0 => cursor = 2)
      BY <1>1, <3>1, AllDiffer DEF InLoop
    <3>3. InLoop'
      BY <1>1, <3>2 DEF InLoop
    <3>. QED
      BY <1>1, <2>1, <2>2, <3>3 DEF OnPlan
  <2>3. CASE resumes # 0
    <3>1. InResume
      BY <2>3 DEF OnPlan
    <3>2. phase = "last loop"
      BY <3>1 DEF InResume
    <3>3. todo = RestOf(cursor)
      BY <1>1, <3>1, AllDiffer DEF InResume
    <3>4. cursor = 6
      <4>1. cursor \in 0 .. 6
        BY DEF RunTypes
      <4>2. cursor \notin 0 .. 5
        BY <1>1, <3>3, AllDiffer
      <4>. QED
        BY <4>1, <4>2
    <3>5. InResume'
      BY <1>1, <3>2, <3>4 DEF InResume
    <3>. QED
      BY <1>1, <2>1, <2>3, <3>5 DEF OnPlan
  <2>. QED
    BY <2>2, <2>3
<1>5. TestsKnown'
  <2>1. alias.tests # "passed"
    <3>1. Feature!FailedTests("passed") = 0
      BY DEF Feature!FailedTests
    <3>2. ~(Feature!FailedTests("passed") > 0)
      BY <3>1
    <3>. QED
      BY <1>1, <3>2 DEF Feature!LoopCondition
  <2>. QED
    BY <1>1, <1>2, <2>1 DEF TestsKnown
<1>6. OnePatch'
  BY <1>1 DEF OnePatch
<1>7. ReviewKnown'
  BY <1>1, <1>2 DEF ReviewKnown
<1>8. PublishedOnce'
  BY <1>1, <1>2 DEF PublishedOnce
<1>9. PullsCareful'
  BY <1>1 DEF PullsCareful
<1>. QED
  BY <1>3, <1>4, <1>5, <1>6, <1>7, <1>8, <1>9

\* The loop is left with tests that pass, or with its iterations used up.
LEMMA LeaveKeeps == RunInv /\ Feature!LeaveLoop => RunInv'
<1>. SUFFICES ASSUME RunInv, Feature!LeaveLoop PROVE RunInv'
  OBVIOUS
<1>. USE DEF RunInv
<1>1. /\ recorded = "RUNNING" /\ todo = << >> /\ phase = "loop" /\ phase' = "after"
      /\ ~Feature!LoopCondition \/ iteration = MaxIterations
      /\ UNCHANGED <<cursor, iteration, resumes, recorded, runState, alias, result, fixes,
                     tested, reviewed, opened, missed>>
  BY DEF Feature!LeaveLoop, Feature!context, Feature!ends, Feature!history
<1>2. todo' = RestOf(3)
  <2>1. todo' = <<"review_agent", "memory_writer", "pr_merge_agent">>
    BY DEF Feature!LeaveLoop
  <2>2. Len(RestOf(3)) = 3 /\ \A i \in 1 .. 3 : RestOf(3)[i] = Feature!Plan[3 + i]
    <3>1. 3 \in 0 .. 6 /\ 6 - 3 = 3
      OBVIOUS
    <3>2. Len(RestOf(3)) = 6 - 3 /\ \A i \in 1 .. 6 - 3 : RestOf(3)[i] = Feature!Plan[3 + i]
      BY <3>1, RestBehind
    <3>. QED
      BY <3>1, <3>2
  <2>3. Feature!Plan[4] = "review_agent" /\ Feature!Plan[5] = "memory_writer"
        /\ Feature!Plan[6] = "pr_merge_agent"
    BY DEF Feature!Plan
  <2>4. RestOf(3) \in Seq(StepNames)
    <3>1. 3 \in 0 .. 6
      OBVIOUS
    <3>. QED
      BY <3>1, RestBehind
  <2>5. RestOf(3)[1] = "review_agent" /\ RestOf(3)[2] = "memory_writer"
        /\ RestOf(3)[3] = "pr_merge_agent"
    BY <2>2, <2>3
  <2>. QED
    BY <2>1, <2>2, <2>4, <2>5
<1>3. RunTypes'
  BY <1>1 DEF RunTypes
<1>4. resumes = 0 /\ InLoop
  BY <1>1 DEF OnPlan, InResume, BehindLoop
<1>5. OnPlan'
  <2>1. fixes = 0 => cursor = 2
    BY <1>1, <1>4, AllDiffer DEF InLoop
  <2>2. BehindLoop'
    BY <1>1, <1>2, <2>1 DEF BehindLoop
  <2>3. todo' # Repair
    BY <1>2, AllDiffer
  <2>. QED
    BY <1>1, <1>4, <2>2, <2>3 DEF OnPlan
<1>6. TestsKnown'
  <2>1. ~Ahead("test_runner")'
    <3>1. todo' = <<"review_agent", "memory_writer", "pr_merge_agent">>
      BY DEF Feature!LeaveLoop
    <3>. QED
      BY <3>1 DEF Ahead
  <2>2. tested.end \in Failing => alias.tests = tested.end /\ iteration = MaxIterations
    <3>1. ASSUME tested.end \in Failing PROVE Feature!LoopCondition /\ alias.tests = tested.end
      <4>1. alias.tests = tested.end
        BY <1>4, <3>1 DEF TestsKnown
      <4>. QED
        BY <3>1, <4>1 DEF Feature!LoopCondition, Failing, Feature!None
    <3>. QED
      BY <1>1, <3>1
  <2>. QED
    BY <1>1, <2>1, <2>2 DEF TestsKnown
<1>7. OnePatch'
  BY <1>1 DEF OnePatch
<1>8. ReviewKnown'
  BY <1>1, <1>2 DEF ReviewKnown
<1>9. PublishedOnce'
  BY <1>1 DEF PublishedOnce
<1>10. PullsCareful'
  BY <1>1 DEF PullsCareful
<1>. QED
  BY <1>3, <1>5, <1>6, <1>7, <1>8, <1>9, <1>10

\* A run begins with nothing made.
LEMMA RunInit == Feature!Init => RunInv
<1>. SUFFICES ASSUME Feature!Init PROVE RunInv
  OBVIOUS
<1>1. /\ phase = "loop" /\ todo = Begin /\ iteration = 0 /\ cursor = 0
      /\ alias = Feature!NoAlias /\ result = Feature!NoResult /\ fixes = 0 /\ resumes = 0
      /\ tested.end = Feature!None /\ opened = << >>
  BY DEF Feature!Init, Begin
<1>2. /\ DOMAIN alias = {"code", "fixed", "tests", "review"}
      /\ DOMAIN result = {"code_generator", "fix_agent", "test_runner", "review_agent",
                          "memory_writer", "pr_merge_agent"}
      /\ alias.code = Feature!NoPatch /\ alias.fixed = Feature!NoPatch
         /\ alias.tests = Feature!None
      /\ alias.review = Feature!None /\ result.code_generator = Feature!NoPatch
      /\ result.fix_agent = Feature!NoPatch /\ result.test_runner = Feature!None
      /\ result.review_agent = Feature!None
  BY <1>1 DEF Feature!NoAlias, Feature!NoResult
<1>3. RunTypes
  BY <1>1, <1>2 DEF RunTypes
<1>4. OnPlan
  BY <1>1, AllDiffer DEF OnPlan, InLoop
<1>5. TestsKnown
  BY <1>1, <1>2 DEF TestsKnown, Feature!None, Failing
<1>6. OnePatch
  BY <1>1, <1>2 DEF OnePatch, Feature!None, Decisions
<1>7. ReviewKnown
  BY <1>1 DEF ReviewKnown
<1>8. opened \in Seq({}) /\ Len(opened) = 0
  BY <1>1
<1>9. PublishedOnce /\ PullsCareful
  BY <1>8 DEF PublishedOnce, PullsCareful
<1>. QED
  BY <1>3, <1>4, <1>5, <1>6, <1>7, <1>9 DEF RunInv

\* Every step of a run keeps what is known of it.
LEMMA RunStep == RunInv /\ [Feature!Next]_Feature!vars => RunInv'
<1>1. RunInv /\ (Feature!GenerationFails \/ Feature!FixFails \/ Feature!ReviewFails
      \/ Feature!MergeFails) => RunInv'
  BY BlocksKeeps
<1>. QED
  BY <1>1, SkipKeeps, IterateKeeps, LeaveKeeps, RestKeeps, GenerateKeeps, RunTestsKeeps,
     FixKeeps, ReviewKeeps, MemoryKeeps, MergeKeeps, HaltKeeps, CrashKeeps, ResumeKeeps
     DEF Feature!Next

\* What is known of a run and of its pull requests says that they are careful.
LEMMA RunImplied == RunInv => Feature!PublishedWithCare
<1>. SUFFICES ASSUME RunInv PROVE Feature!PublishedWithCare
  OBVIOUS
<1>1. ASSUME NEW p \in Feature!Pulls PROVE CarefulPull(p)
  BY DEF RunInv, PullsCareful, Feature!Pulls
<1>. QED
  BY <1>1 DEF RunInv, PublishedOnce, CarefulPull, Failing, Feature!PublishedWithCare,
     Feature!FailingIsExhausted, Feature!UnreviewedIsInterrupted, Feature!SecondIsCutOff,
     Feature!ApprovedIsTested

-----------------------------------------------------------------------------
(* The streams of the models, in the variables of the composition *)

\* The kinds of chunks handlers make, and the pieces streams bring.
ChunkKinds == {"text", "tool", "usage", "thought"}
PieceKinds == {"text", "tool", "part", "usage", "detailed", "tail", "noise", "done", "thought"}

\* A handler's chunks of a piece hold no kind twice; the chunks that tell text are those of
\* a text.
Contains(chunks, kind) == \E j \in DOMAIN chunks : chunks[j] = kind
OneOfEach(chunks) ==
    /\ chunks \in Seq(ChunkKinds)
    /\ \A j, k \in DOMAIN chunks : chunks[j] = chunks[k] => j = k
Answers(table, e) == table[e] \notin {Stream!Fails, Stream!Stops}
HandsOn(table) ==
    \A e \in DOMAIN table :
        /\ table[e] = Stream!Stops => e = "done"
        /\ Answers(table, e) =>
              OneOfEach(table[e]) /\ (Contains(table[e], "text") <=> e = "text")
CountsUsage(table) ==
    \A e \in DOMAIN table :
        Answers(table, e) /\ e \in {"usage", "detailed"} => Contains(table[e], "usage")
CountsUsageAlone(table) ==
    \A e \in DOMAIN table :
        Answers(table, e) /\ Contains(table[e], "usage") => e \in {"usage", "detailed"}
CallsTools(table) ==
    \A e \in DOMAIN table :
        Answers(table, e) /\ e \in {"tool", "part"} => Contains(table[e], "tool")

\* Every stream that is asked is one of a handler or, for text alone, of a wrapper.
AskedStreams ==
    /\ at \in Nat \ {0}
    /\ inquiry.order \in Seq(Stream!ApiProvider)
    /\ Stream!TextAlone => inquiry.order \in Seq(DOMAIN Stream!TextStream)
    /\ got \in Seq([from : Nat, chunk : ChunkKinds])
    /\ sent \in Seq(PieceKinds)

\* The profiles are read from the first on; whoever was read before the one at hand failed.
ReadInOrder ==
    /\ streamPhase = "choose" => at = 1 /\ got = <<>> /\ broken = {}
    /\ streamPhase \in {"open", "stream"} \/ ending = "complete" =>
          at \in 1..Len(inquiry.order) /\ broken = 1..(at - 1)
    /\ ending = "complete" => streamPhase = "over"
    /\ streamPhase = "open" => \A i \in DOMAIN got : got[i].from # at
    /\ \A i \in DOMAIN got :
          got[i].from \in 1..at /\ (got[i].from # at => got[i].from \in broken)
    /\ \A i, j \in DOMAIN got : i < j => got[i].from <= got[j].from

\* What the stream at hand has told.
ToldSoFar ==
    Stream!Reading =>
        /\ Stream!Yielded("text") = Stream!Brought({"text"})
        /\ ~Stream!TextAlone =>
              /\ Stream!Provider \notin {"gemini", "vertex"} =>
                    Stream!Yielded("usage") <= Stream!Brought({"usage", "detailed"})
              /\ Stream!Brought({"tail", "done"}) = 0 =>
                    Stream!Yielded("usage")
                        >= Stream!Brought({"usage", "detailed", "tail", "done"})
              /\ Stream!Provider \notin {"anthropic", "bedrock"} =>
                    Stream!Yielded("tool") >= Stream!Brought({"tool", "part"})

StreamInv == AskedStreams /\ ReadInOrder /\ ToldSoFar /\ Stream!RoutedToAKey

\* What a handler makes of a piece.
Nothing == <<>>
One(c) == <<c>>
TextAndUsage == <<"text", "usage">>
\* Nothing, one chunk, or a text with a report of usage.
LEMMA SmallAnswers ==
    /\ OneOfEach(Nothing) /\ \A k : ~Contains(Nothing, k)
    /\ \A c \in ChunkKinds : OneOfEach(One(c)) /\ \A k : Contains(One(c), k) <=> k = c
    /\ OneOfEach(TextAndUsage)
    /\ \A k : Contains(TextAndUsage, k) <=> k \in {"text", "usage"}
<1>1. OneOfEach(Nothing) /\ \A k : ~Contains(Nothing, k)
  BY DEF OneOfEach, Contains, Nothing
<1>2. ASSUME NEW c \in ChunkKinds
             PROVE OneOfEach(One(c)) /\ \A k : Contains(One(c), k) <=> k = c
  BY DEF OneOfEach, Contains, One
<1>3. OneOfEach(TextAndUsage)
  BY DEF OneOfEach, ChunkKinds, TextAndUsage
<1>4. \A k : Contains(TextAndUsage, k) <=> k \in {"text", "usage"}
  BY DEF Contains, TextAndUsage
<1>. QED
  BY <1>1, <1>2, <1>3, <1>4

\* None of them is taken for a failure or the end of the stream.
LEMMA AnswersDiffer ==
    /\ Nothing \notin {Stream!Fails, Stream!Stops}
       /\ TextAndUsage \notin {Stream!Fails, Stream!Stops}
    /\ \A c \in ChunkKinds : One(c) \notin {Stream!Fails, Stream!Stops}
    /\ Stream!Fails # Stream!Stops
<1>1. Stream!Fails[1] = "fails" /\ Stream!Stops[1] = "stops" /\ Len(Stream!Fails) = 1
      /\ Len(Stream!Stops) = 1
  BY DEF Stream!Fails, Stream!Stops
<1>2. Len(Nothing) = 0 /\ Len(TextAndUsage) = 2
  BY DEF Nothing, TextAndUsage
<1>3. \A c \in ChunkKinds : One(c)[1] = c /\ c \notin {"fails", "stops"}
  BY DEF ChunkKinds, One
<1>. QED
  BY <1>1, <1>2, <1>3

\* Most handlers make of a piece what it says it is, but for some they may drop.
Usual(table, lost) ==
    \A e \in DOMAIN table :
        \/ table[e] = Stream!Fails
        \/ table[e] = Stream!Stops /\ e = "done"
        \/ table[e] = Nothing /\ (e \in {"tail", "noise", "thought"} \/ e \in lost)
        \/ table[e] = One(e) /\ e \in ChunkKinds
        \/ table[e] = One("tool") /\ e = "part"
        \/ table[e] = One("usage") /\ e = "detailed"

\* Such a handler does what is asked of it.
LEMMA UsualTable ==
    ASSUME NEW table, NEW lost \in SUBSET {"tool", "part"}, Usual(table, lost)
    PROVE  /\ HandsOn(table) /\ CountsUsage(table) /\ CountsUsageAlone(table)
           /\ lost = {} => CallsTools(table)
<1>. DEFINE Says(e, c) == \/ c = e
                          \/ c = "tool" /\ e = "part"
                          \/ c = "usage" /\ e = "detailed"
<1>. SUFFICES ASSUME NEW e \in DOMAIN table
              PROVE  /\ table[e] = Stream!Stops => e = "done"
                     /\ Answers(table, e) =>
                           OneOfEach(table[e]) /\ (Contains(table[e], "text") <=> e = "text")
                     /\ Answers(table, e) /\ e \in {"usage", "detailed"}
                           => Contains(table[e], "usage")
                     /\ Answers(table, e) /\ Contains(table[e], "usage")
                           => e \in {"usage", "detailed"}
                     /\ lost = {} /\ Answers(table, e) /\ e \in {"tool", "part"}
                           => Contains(table[e], "tool")
  BY DEF HandsOn, CountsUsage, CountsUsageAlone, CallsTools
<1>1. \/ table[e] = Stream!Fails
      \/ table[e] = Stream!Stops /\ e = "done"
      \/ table[e] = Nothing /\ (e \in {"tail", "noise", "thought"} \/ e \in lost)
      \/ \E c \in ChunkKinds : table[e] = One(c) /\ Says(e, c)
  BY DEF Usual, ChunkKinds
<1>2. CASE table[e] = Stream!Fails
  BY <1>2, AnswersDiffer DEF Answers
<1>3. CASE table[e] = Stream!Stops /\ e = "done"
  BY <1>3, AnswersDiffer DEF Answers
<1>4. CASE table[e] = Nothing /\ (e \in {"tail", "noise", "thought"} \/ e \in lost)
  BY <1>4, SmallAnswers, AnswersDiffer
<1>5. ASSUME NEW c \in ChunkKinds, table[e] = One(c), Says(e, c)
      PROVE  /\ table[e] # Stream!Stops /\ OneOfEach(table[e])
             /\ Contains(table[e], "text") <=> e = "text"
             /\ e \in {"usage", "detailed"} <=> Contains(table[e], "usage")
             /\ e \in {"tool", "part"} => Contains(table[e], "tool")
  <2>1. table[e] # Stream!Stops /\ OneOfEach(table[e]) /\ \A k : Contains(table[e], k) <=> k = c
    BY <1>5, SmallAnswers, AnswersDiffer
  <2>2. (c = "text" <=> e = "text") /\ (e \in {"usage", "detailed"} <=> c = "usage")
        /\ (e \in {"tool", "part"} => c = "tool")
    BY <1>5 DEF ChunkKinds
  <2>. QED
    BY <2>1, <2>2
<1>. QED
  BY <1>1, <1>2, <1>3, <1>4, <1>5

\* Which of them are usual.
LEMMA UsualTables ==
    /\ Usual(Stream!Choice, {}) /\ Usual(Stream!AsksDetails, {})
    /\ \A pieces \in SUBSET {"text", "tail", "noise",
       "thought"} : Usual(Stream!OnlyText(pieces), {})
    /\ Usual(Stream!OllamaHandler.chunk, {}) /\ Usual(Stream!ClaudeCodeHandler.chunk, {})
    /\ Usual(Stream!LmStudioHandler.chunk, {})
    /\ Usual(Stream!AnthropicWrapper.chunk, {"part"})
       /\ Usual(Stream!AwsBedrockHandler.chunk, {"tool", "part"})
<1>1. ChunkKinds = {"text", "tool", "usage", "thought"}
  BY DEF ChunkKinds
<1>2. /\ DOMAIN Stream!Choice = {"text", "tool", "part", "usage", "detailed", "tail"}
      /\ Stream!Choice["text"] = One("text") /\ Stream!Choice["tool"] = One("tool")
      /\ Stream!Choice["part"] = One("tool") /\ Stream!Choice["tail"] = Nothing
      /\ Stream!Choice["usage"] = One("usage") /\ Stream!Choice["detailed"] = One("usage")
  BY DEF Stream!Choice, One, Nothing
<1>3. Usual(Stream!Choice, {})
  BY <1>1, <1>2 DEF Usual
<1>4. Usual(Stream!AsksDetails, {})
  <2>1. /\ DOMAIN Stream!AsksDetails = DOMAIN Stream!Choice
           /\ Stream!AsksDetails["detailed"] = Stream!Fails
        /\ \A e \in DOMAIN Stream!Choice : e # "detailed"
           => Stream!AsksDetails[e] = Stream!Choice[e]
    BY <1>2 DEF Stream!AsksDetails
  <2>. QED
    BY <2>1, <1>3 DEF Usual
<1>5. ASSUME NEW pieces \in SUBSET {"text", "tail", "noise", "thought"}
      PROVE  Usual(Stream!OnlyText(pieces), {})
  <2>1. /\ DOMAIN Stream!OnlyText(pieces) = pieces
        /\ \A e \in pieces : Stream!OnlyText(pieces)[e] = IF e = "text" THEN One(e) ELSE Nothing
    BY DEF Stream!OnlyText, One, Nothing
  <2>. QED
    BY <1>1, <2>1 DEF Usual
<1>6. Usual(Stream!OllamaHandler.chunk, {})
  <2>. DEFINE t == Stream!OllamaHandler.chunk
  <2>1. /\ DOMAIN t = {"text", "tool", "usage", "noise", "done"}
        /\ \A e \in DOMAIN t : t[e] = CASE e = "done" -> Stream!Stops [] e = "noise" -> Nothing
                                        [] OTHER -> One(e)
    BY DEF Stream!OllamaHandler, One, Nothing
  <2>. HIDE DEF t
  <2>2. Usual(t, {})
    BY <1>1, <2>1 DEF Usual
  <2>. QED
    BY <2>2 DEF t
<1>7. Usual(Stream!ClaudeCodeHandler.chunk, {})
  <2>. DEFINE t == Stream!ClaudeCodeHandler.chunk
  <2>1. /\ DOMAIN t = {"text", "tool", "thought", "usage"}
        /\ \A e \in DOMAIN t : t[e] = One(e)
    BY DEF Stream!ClaudeCodeHandler, One
  <2>. HIDE DEF t
  <2>2. Usual(t, {})
    BY <1>1, <2>1 DEF Usual
  <2>. QED
    BY <2>2 DEF t
<1>8. Usual(Stream!LmStudioHandler.chunk, {})
  <2>. DEFINE t == Stream!LmStudioHandler.chunk
  <2>1. /\ DOMAIN t = DOMAIN Stream!Choice \cup {"noise"}
        /\ \A e \in DOMAIN t : t[e] = IF e = "noise" THEN Nothing ELSE Stream!Choice[e]
    BY DEF Stream!LmStudioHandler, Nothing
  <2>. HIDE DEF t
  <2>2. Usual(t, {})
    BY <1>3, <2>1 DEF Usual
  <2>. QED
    BY <2>2 DEF t
<1>9. Usual(Stream!AnthropicWrapper.chunk, {"part"})
  <2>. DEFINE t == Stream!AnthropicWrapper.chunk
  <2>1. /\ DOMAIN t = {"text", "tool", "part", "usage", "tail"}
        /\ \A e \in DOMAIN t : t[e] = IF e \in {"part", "tail"} THEN Nothing ELSE One(e)
    BY DEF Stream!AnthropicWrapper, One, Nothing
  <2>. HIDE DEF t
  <2>2. Usual(t, {"part"})
    BY <1>1, <2>1 DEF Usual
  <2>. QED
    BY <2>2 DEF t
<1>10. Usual(Stream!AwsBedrockHandler.chunk, {"tool", "part"})
  <2>. DEFINE t == Stream!AwsBedrockHandler.chunk
  <2>1. /\ DOMAIN t = {"text", "tool", "part", "usage", "tail"}
        /\ \A e \in DOMAIN t : t[e] = IF e \in {"text", "usage"} THEN One(e) ELSE Nothing
    BY DEF Stream!AwsBedrockHandler, Stream!Built, One, Nothing
  <2>. HIDE DEF t
  <2>2. Usual(t, {"tool", "part"})
    BY <1>1, <2>1 DEF Usual
  <2>. QED
    BY <2>2 DEF t
<1>. QED
  BY <1>3, <1>4, <1>5, <1>6, <1>7, <1>8, <1>9, <1>10

\* Gemini reports the usage with every piece.
LEMMA GeminiTable ==
    LET table == Stream!GeminiHandler.chunk
    IN HandsOn(table) /\ CountsUsage(table) /\ CallsTools(table)
<1>. DEFINE t == Stream!GeminiHandler.chunk
<1>1. /\ DOMAIN t = {"text", "tool", "tail"}
      /\ t["text"] = TextAndUsage /\ t["tail"] = One("usage") /\ t["tool"] = Stream!Fails
  BY DEF Stream!GeminiHandler, Stream!Built, One, TextAndUsage
<1>. HIDE DEF t
<1>2. "usage" \in ChunkKinds
  BY DEF ChunkKinds
<1>3. HandsOn(t)
  BY <1>1, <1>2, SmallAnswers, AnswersDiffer DEF HandsOn, Answers
<1>4. CountsUsage(t)
  BY <1>1 DEF CountsUsage
<1>5. CallsTools(t)
  BY <1>1 DEF CallsTools, Answers
<1>. QED
  BY <1>3, <1>4, <1>5 DEF t

\* Every handler hands on the text and counts the usage that comes with it; two of them
\* count more than they are told, and two drop pieces of tool calls.
LEMMA EveryHandler ==
    ASSUME NEW p \in Stream!ApiProvider
    PROVE  LET table == Stream!_create_handler[p].chunk
           IN /\ HandsOn(table) /\ CountsUsage(table)
              /\ p \notin {"gemini", "vertex"} => CountsUsageAlone(table)
              /\ p \notin {"anthropic", "bedrock"} => CallsTools(table)
<1>. DEFINE table == Stream!_create_handler[p].chunk
<1>1. CASE p \in {"openrouter", "fireworks", "together", "qwen", "qwen-code", "mistral",
                  "litellm", "moonshot", "groq"}
  <2>1. table = Stream!Choice
    BY <1>1 DEF Stream!_create_handler, Stream!Built, Stream!OpenRouterHandler,
       Stream!FireworksHandler, Stream!TogetherHandler,
       Stream!QwenHandler, Stream!QwenCodeHandler, Stream!MistralHandler,
       Stream!LiteLlmHandler, Stream!MoonshotHandler,
       Stream!GroqHandler
  <2>. QED
    BY <1>1, <2>1, UsualTables, UsualTable
<1>2. CASE p \in {"openai", "deepseek"}
  <2>1. table = Stream!AsksDetails
    BY <1>2 DEF Stream!_create_handler, Stream!Built, Stream!OpenAIWrapper,
       Stream!DeepSeekHandler
  <2>. QED
    BY <1>2, <2>1, UsualTables, UsualTable
<1>3. CASE p \in {"google", "huggingface"}
  <2>1. \E pieces \in SUBSET {"text", "tail", "noise",
        "thought"} : table = Stream!OnlyText(pieces)
    <3>1. CASE p = "google"
      <4>1. table = Stream!OnlyText({"text", "tail"})
        BY <3>1 DEF Stream!_create_handler, Stream!GoogleGenAIWrapper
      <4>. QED
        BY <4>1
    <3>2. CASE p = "huggingface"
      <4>1. table = Stream!OnlyText({"text", "noise"})
        BY <3>2 DEF Stream!_create_handler, Stream!HuggingFaceHandler, Stream!Built
      <4>. QED
        BY <4>1
    <3>. QED
      BY <3>1, <3>2, <1>3
  <2>. QED
    BY <1>3, <2>1, UsualTables, UsualTable
<1>4. CASE p \in {"ollama", "claude_code", "lmstudio"}
  <2>1. table \in {Stream!OllamaHandler.chunk, Stream!ClaudeCodeHandler.chunk,
        Stream!LmStudioHandler.chunk}
    BY <1>4 DEF Stream!_create_handler
  <2>. QED
    BY <1>4, <2>1, UsualTables, UsualTable
<1>5. CASE p = "anthropic"
  <2>1. table = Stream!AnthropicWrapper.chunk
    BY <1>5 DEF Stream!_create_handler
  <2>. QED
    BY <1>5, <2>1, UsualTables, UsualTable
<1>6. CASE p = "bedrock"
  <2>1. table = Stream!AwsBedrockHandler.chunk
    BY <1>6 DEF Stream!_create_handler
  <2>. QED
    BY <1>6, <2>1, UsualTables, UsualTable
<1>7. CASE p \in {"gemini", "vertex"}
  <2>1. table = Stream!GeminiHandler.chunk
    BY <1>7 DEF Stream!_create_handler, Stream!VertexHandler, Stream!GeminiHandler,
       Stream!Built
  <2>. QED
    BY <1>7, <2>1, GeminiTable
<1>. QED
  BY <1>1, <1>2, <1>3, <1>4, <1>5, <1>6, <1>7 DEF Stream!ApiProvider

\* So do the wrappers, for text alone.
LEMMA EveryWrapper == \A p \in DOMAIN Stream!TextStream : HandsOn(Stream!TextStream[p])
<1>. SUFFICES ASSUME NEW p \in DOMAIN Stream!TextStream PROVE HandsOn(Stream!TextStream[p])
  OBVIOUS
<1>1. p \in {"openai", "qwen", "anthropic", "google", "qwen-code"}
  BY DEF Stream!TextStream
<1>2. Stream!TextStream[p] \in {Stream!OnlyText({"text", "tail"}), Stream!OnlyText({"text",
      "thought", "tail"})}
  BY <1>1 DEF Stream!TextStream, Stream!OpenAITextStream, Stream!AnthropicTextStream,
     Stream!GoogleTextStream,
     Stream!QwenCodeTextStream
<1>. QED
  BY <1>2, UsualTables, UsualTable

\* The places of a list that hold one of a set.
PlacesOf(list, S) == {i \in DOMAIN list : list[i] \in S}
\* There are none in an empty list, and one more when one more is added.
LEMMA PlacesOfList ==
    ASSUME NEW T, NEW list \in Seq(T), NEW S
    PROVE  /\ IsFiniteSet(PlacesOf(list, S)) /\ Cardinality(PlacesOf(list, S)) \in Nat
           /\ Cardinality(PlacesOf(<<>>, S)) = 0
           /\ \A e \in T : Cardinality(PlacesOf(Append(list, e), S)) =
                              Cardinality(PlacesOf(list, S)) + (IF e \in S THEN 1 ELSE 0)
<1>1. DOMAIN list = 1..Len(list) /\ Len(list) \in Nat
  OBVIOUS
<1>2. IsFiniteSet(PlacesOf(list, S)) /\ Cardinality(PlacesOf(list, S)) \in Nat
  <2>1. IsFiniteSet(1..Len(list))
    BY <1>1, FS_Interval
  <2>2. PlacesOf(list, S) \subseteq 1..Len(list)
    BY <1>1 DEF PlacesOf
  <2>. QED
    BY <2>1, <2>2, FS_Subset, FS_CardinalityType
<1>3. Cardinality(PlacesOf(<<>>, S)) = 0
  <2>1. PlacesOf(<<>>, S) = {}
    BY DEF PlacesOf
  <2>. QED
    BY <2>1, FS_EmptySet
<1>4. ASSUME NEW e \in T
      PROVE  Cardinality(PlacesOf(Append(list, e), S)) =
                Cardinality(PlacesOf(list, S)) + (IF e \in S THEN 1 ELSE 0)
  <2>1. /\ DOMAIN Append(list, e) = 1..(Len(list) + 1)
        /\ \A i \in 1..Len(list) : Append(list, e)[i] = list[i]
        /\ Append(list, e)[Len(list) + 1] = e
    OBVIOUS
  <2>2. Len(list) + 1 \notin PlacesOf(list, S)
    BY <1>1 DEF PlacesOf
  <2>3. CASE e \in S
    <3>1. PlacesOf(Append(list, e), S) = PlacesOf(list, S) \cup {Len(list) + 1}
      BY <2>1, <2>3, <1>1 DEF PlacesOf
    <3>2. Cardinality(PlacesOf(list, S) \cup {Len(list) + 1}) = Cardinality(PlacesOf(list,
          S)) + 1
      BY <1>2, <2>2, FS_AddElement
    <3>. QED
      BY <3>1, <3>2, <2>3
  <2>4. CASE e \notin S
    <3>1. PlacesOf(Append(list, e), S) = PlacesOf(list, S)
      BY <2>1, <2>4, <1>1 DEF PlacesOf
    <3>. QED
      BY <3>1, <2>4, <1>2
  <2>. QED
    BY <2>3, <2>4
<1>. QED
  BY <1>2, <1>3, <1>4

\* The chunks of one kind that a stream has handed on.
HandedChunk == [from : Nat, chunk : ChunkKinds]
HandedFrom(list, place, kind) == {i \in DOMAIN list : list[i].from = place
/\ list[i].chunk = kind}
TaggedWith(place, chunks) == [i \in DOMAIN chunks |-> [from |-> place, chunk |-> chunks[i]]]
\* There is one more when the chunks of one more piece follow, and hold one of the kind.
LEMMA HandedOnMore ==
    ASSUME NEW list \in Seq(HandedChunk), NEW place \in Nat, NEW chunks, OneOfEach(chunks)
    PROVE  /\ list \o TaggedWith(place, chunks) \in Seq(HandedChunk)
           /\ \A kind : Cardinality(HandedFrom(list, place, kind)) \in Nat
           /\ \A kind : Cardinality(HandedFrom(list \o TaggedWith(place, chunks), place,
              kind)) =
                           Cardinality(HandedFrom(list, place, kind))
                              + (IF Contains(chunks, kind) THEN 1 ELSE 0)
<1>. DEFINE more == TaggedWith(place, chunks)
            longer == list \o more
<1>1. /\ DOMAIN list = 1..Len(list) /\ Len(list) \in Nat
      /\ chunks \in Seq(ChunkKinds) /\ DOMAIN chunks = 1..Len(chunks) /\ Len(chunks) \in Nat
  BY DEF OneOfEach
<1>2. more \in Seq(HandedChunk) /\ Len(more) = Len(chunks)
      /\ \A j \in 1..Len(chunks) : more[j] = [from |-> place, chunk |-> chunks[j]]
  <2>1. more \in [1..Len(chunks) -> HandedChunk]
    BY <1>1 DEF TaggedWith, HandedChunk
  <2>. QED
    BY <2>1, <1>1 DEF TaggedWith
<1>. HIDE DEF more
<1>3. /\ longer \in Seq(HandedChunk)
      /\ DOMAIN longer = 1..(Len(list) + Len(chunks))
      /\ \A i \in 1..Len(list) : longer[i] = list[i]
      /\ \A j \in 1..Len(chunks) : longer[Len(list) + j] = more[j]
  BY <1>1, <1>2
<1>. HIDE DEF longer
<1>3a. \A j \in 1..Len(chunks) :
          longer[Len(list) + j].from = place /\ longer[Len(list) + j].chunk = chunks[j]
  <2>. SUFFICES ASSUME NEW j \in 1..Len(chunks)
                PROVE  /\ longer[Len(list) + j].from = place
                       /\ longer[Len(list) + j].chunk = chunks[j]
    OBVIOUS
  <2>1. longer[Len(list) + j] = more[j]
    BY <1>3
  <2>2. more[j] = [from |-> place, chunk |-> chunks[j]]
    BY <1>2
  <2>3. more[j].from = place /\ more[j].chunk = chunks[j]
    BY ONLY <2>2
  <2>. QED
    BY <2>1, <2>3
<1>4. ASSUME NEW kind
      PROVE  /\ IsFiniteSet(HandedFrom(list, place, kind))
                /\ Cardinality(HandedFrom(list, place, kind)) \in Nat
             /\ Cardinality(HandedFrom(longer, place, kind)) =
                   Cardinality(HandedFrom(list, place, kind)) + (IF Contains(chunks,
                   kind) THEN 1 ELSE 0)
  <2>1. IsFiniteSet(HandedFrom(list, place, kind))
        /\ Cardinality(HandedFrom(list, place, kind)) \in Nat
    <3>1. IsFiniteSet(1..Len(list))
      BY <1>1, FS_Interval
    <3>2. HandedFrom(list, place, kind) \subseteq 1..Len(list)
      BY <1>1 DEF HandedFrom
    <3>. QED
      BY <3>1, <3>2, FS_Subset, FS_CardinalityType
  <2>2. CASE Contains(chunks, kind)
    <3>1. PICK j \in 1..Len(chunks) : chunks[j] = kind
      BY <2>2, <1>1 DEF Contains
    <3>2. \A k \in 1..Len(chunks) : chunks[k] = kind => k = j
      BY <3>1, <1>1 DEF OneOfEach
    <3>3. HandedFrom(longer, place, kind) \subseteq HandedFrom(list, place,
          kind) \cup {Len(list) + j}
      <4>. SUFFICES ASSUME NEW i \in HandedFrom(longer, place, kind), i \notin 1..Len(list)
                    PROVE  i = Len(list) + j
        BY <1>1, <1>3 DEF HandedFrom
      <4>1. i \in 1..(Len(list) + Len(chunks))
        BY <1>3 DEF HandedFrom
      <4>2. PICK k \in 1..Len(chunks) : i = Len(list) + k
        <5>1. i - Len(list) \in 1..Len(chunks) /\ i = Len(list) + (i - Len(list))
          BY <1>1, <4>1
        <5>. QED
          BY <5>1
      <4>3. chunks[k] = kind
        <5>1. longer[i].chunk = kind
          BY DEF HandedFrom
        <5>. QED
          BY <5>1, <1>3a, <4>2
      <4>. QED
        BY <4>2, <4>3, <3>2
    <3>4. HandedFrom(list, place, kind) \cup {Len(list) + j} \subseteq HandedFrom(longer,
          place, kind)
      <4>1. Len(list) + j \in 1..(Len(list) + Len(chunks))
        BY <1>1
      <4>2. longer[Len(list) + j] = [from |-> place, chunk |-> kind]
        BY <1>2, <1>3, <3>1
      <4>3. 1..Len(list) \subseteq 1..(Len(list) + Len(chunks))
        BY <1>1
      <4>. QED
        BY <1>1, <1>3, <4>1, <4>2, <4>3 DEF HandedFrom
    <3>5. Len(list) + j \notin HandedFrom(list, place, kind)
      BY <1>1 DEF HandedFrom
    <3>6. Cardinality(HandedFrom(list, place, kind) \cup {Len(list) + j})
             = Cardinality(HandedFrom(list, place, kind)) + 1
      BY <2>1, <3>5, FS_AddElement
    <3>7. HandedFrom(longer, place, kind) = HandedFrom(list, place, kind) \cup {Len(list) + j}
      BY <3>3, <3>4
    <3>. QED
      BY <2>1, <2>2, <3>6, <3>7
  <2>3. CASE ~Contains(chunks, kind)
    <3>1. \A j \in 1..Len(chunks) : longer[Len(list) + j].chunk # kind
      BY <2>3, <1>1, <1>3a DEF Contains
    <3>2. HandedFrom(longer, place, kind) \subseteq HandedFrom(list, place, kind)
      <4>. SUFFICES ASSUME NEW i \in HandedFrom(longer, place, kind) PROVE i \in 1..Len(list)
        BY <1>1, <1>3 DEF HandedFrom
      <4>1. i \in 1..(Len(list) + Len(chunks))
        BY <1>3 DEF HandedFrom
      <4>2. ASSUME i \notin 1..Len(list) PROVE FALSE
        <5>1. i - Len(list) \in 1..Len(chunks) /\ i = Len(list) + (i - Len(list))
          BY <1>1, <4>1, <4>2
        <5>. QED
          BY <5>1, <3>1 DEF HandedFrom
      <4>. QED
        BY <4>2
    <3>3. HandedFrom(list, place, kind) \subseteq HandedFrom(longer, place, kind)
      <4>1. 1..Len(list) \subseteq 1..(Len(list) + Len(chunks))
        BY <1>1
      <4>. QED
        BY <1>1, <1>3, <4>1 DEF HandedFrom
    <3>4. HandedFrom(longer, place, kind) = HandedFrom(list, place, kind)
      BY <3>2, <3>3
    <3>. QED
      BY <2>1, <2>3, <3>4
  <2>. QED
    BY <2>1, <2>2, <2>3
<1>. QED
  BY <1>3, <1>4 DEF longer, more

\* The counts, over the lists.
LEMMA CountsOfLists ==
    /\ \A kind : Stream!Yielded(kind) = Cardinality(HandedFrom(got, at, kind))
    /\ \A S : Stream!Brought(S) = Cardinality(PlacesOf(sent, S))
    /\ \A kind : Stream!Yielded(kind)' = Cardinality(HandedFrom(got', at', kind))
    /\ \A S : Stream!Brought(S)' = Cardinality(PlacesOf(sent', S))
<1>1. \A S : Stream!Cardinality(S) = Cardinality(S)
  BY DEF Stream!Cardinality, Cardinality
<1>. QED
  BY <1>1 DEF Stream!Yielded, Stream!Brought, HandedFrom, PlacesOf

\* Providers are chosen.
LEMMA AskKeeps ==
    ASSUME StreamInv, streamPhase = "choose", NEW caller, NEW tried \in Seq(Stream!ApiProvider),
           NEW secrets, NEW spare, Stream!Ask(caller, tried, secrets, spare), tried # <<>>,
           caller \in {"profiles", "text"} => tried \in Seq(DOMAIN Stream!TextStream),
           caller = "task" /\ spare /\ secrets = {} =>
               \A i \in DOMAIN tried : Stream!_create_handler[tried[i]].key = "used"
    PROVE  StreamInv'
<1>1. /\ inquiry'.caller = caller /\ inquiry'.order = tried /\ inquiry'.secrets = secrets
      /\ inquiry'.spare = spare /\ streamPhase' = "open"
      /\ UNCHANGED <<at, sent, got, broken, ending, turns>>
  BY DEF Stream!Ask
<1>2. AskedStreams'
  BY <1>1 DEF StreamInv, AskedStreams, Stream!TextAlone
<1>3. ReadInOrder'
  <2>1. Len(tried) \in Nat \ {0}
    OBVIOUS
  <2>2. at = 1 /\ got = <<>> /\ broken = {} /\ ending # "complete" /\ DOMAIN got = {}
    BY DEF StreamInv, ReadInOrder
  <2>. QED
    BY <1>1, <2>1, <2>2 DEF ReadInOrder
<1>4. ~Stream!Reading'
  BY <1>1 DEF Stream!Reading, StreamInv, ReadInOrder
<1>5. Stream!RoutedToAKey'
  BY <1>1 DEF Stream!RoutedToAKey
<1>. QED
  BY <1>2, <1>3, <1>4, <1>5 DEF StreamInv, ToldSoFar

\* No provider can be asked.
LEMMA RefuseKeeps ==
    ASSUME StreamInv, streamPhase = "choose", NEW caller, Stream!Refuse(caller)
    PROVE  StreamInv'
<1>1. /\ inquiry'.order = <<>> /\ inquiry'.spare = FALSE
      /\ streamPhase' = "over" /\ ending' = "failed"
      /\ UNCHANGED <<at, sent, got, broken, turns>>
  BY DEF Stream!Refuse, Stream!Nobody
<1>2. AskedStreams'
  BY <1>1 DEF StreamInv, AskedStreams
<1>3. ReadInOrder'
  BY <1>1 DEF StreamInv, ReadInOrder
<1>4. ~Stream!Reading' /\ Stream!RoutedToAKey'
  BY <1>1 DEF Stream!Reading, Stream!RoutedToAKey
<1>. QED
  BY <1>2, <1>3, <1>4 DEF StreamInv, ToldSoFar

\* The first of a set of places is one of them.
LEMMA FirstPlace ==
    ASSUME NEW places, places \subseteq Nat, places # {}
    PROVE  Stream!First(places) \in places
  BY LeastNatural DEF Stream!First

\* Each way to choose them.
LEMMA ProviderNames ==
    /\ Stream!fallback_order \in Seq(Stream!ApiProvider)
    /\ \A task \in DOMAIN Stream!task_routes : Stream!task_routes[task] \in Seq(Stream!ApiProvider)
    /\ {Stream!fallback_order[i] : i \in 1..5} = {"openai", "anthropic", "google",
       "openrouter", "gemini"}
<1>1. /\ Stream!fallback_order[1] = "openai" /\ Stream!fallback_order[2] = "anthropic"
      /\ Stream!fallback_order[3] = "google" /\ Stream!fallback_order[4] = "openrouter"
      /\ Stream!fallback_order[5] = "gemini"
      /\ Stream!fallback_order \in Seq(Stream!ApiProvider)
  BY DEF Stream!fallback_order, Stream!ApiProvider
<1>2. ASSUME NEW task \in DOMAIN Stream!task_routes
             PROVE Stream!task_routes[task] \in Seq(Stream!ApiProvider)
  <2>1. DOMAIN Stream!task_routes = {"spec", "code", "analysis", "review", "refactor"}
    BY DEF Stream!task_routes
  <2>2. /\ Stream!task_routes["spec"] = <<"google", "gemini", "openai">>
        /\ Stream!task_routes["code"] = <<"openai", "anthropic", "gemini">>
        /\ Stream!task_routes["analysis"] = <<"anthropic", "openai", "google">>
        /\ Stream!task_routes["review"] = <<"anthropic", "openai", "google">>
        /\ Stream!task_routes["refactor"] = <<"openai", "google", "gemini">>
    BY DEF Stream!task_routes
  <2>3. \A a, b, c \in Stream!ApiProvider : <<a, b, c>> \in Seq(Stream!ApiProvider)
    OBVIOUS
  <2>4. {"google", "gemini", "openai", "anthropic"} \subseteq Stream!ApiProvider
    BY DEF Stream!ApiProvider
  <2>. QED
    BY <2>1, <2>2, <2>3, <2>4
<1>3. 1..5 = {1, 2, 3, 4, 5}
  OBVIOUS
<1>. QED
  BY <1>1, <1>2, <1>3

\* A command names its provider.
LEMMA CommandKeeps ==
    ASSUME StreamInv, NEW c \in {"prompt", "test", "chat"}, NEW p \in Stream!ApiProvider,
           NEW secrets, Stream!Command(c, p, secrets)
    PROVE  StreamInv'
<1>1. streamPhase = "choose" /\ (Stream!Ask(c, <<p>>, secrets, FALSE) \/ Stream!Refuse(c))
  BY DEF Stream!Command
<1>2. <<p>> \in Seq(Stream!ApiProvider) /\ <<p>> # <<>>
  OBVIOUS
<1>. QED
  BY <1>1, <1>2, AskKeeps, RefuseKeeps

\* The unified interface asks for text alone.
LEMMA CompleteStreamKeeps ==
    ASSUME StreamInv, NEW p \in Stream!ApiProvider, NEW secrets,
           Stream!CompleteStream(p, secrets)
    PROVE  StreamInv'
<1>1. streamPhase = "choose"
  BY DEF Stream!CompleteStream
<1>1a. <<p>> \in Seq(Stream!ApiProvider) /\ <<p>> # <<>>
  OBVIOUS
<1>2. CASE p \in DOMAIN Stream!TextStream /\ Stream!Ask("text", <<p>>, secrets, FALSE)
  <2>1. <<p>> \in Seq(DOMAIN Stream!TextStream)
    BY <1>2
  <2>. QED
    BY <1>1, <1>1a, <1>2, <2>1, AskKeeps
<1>3. CASE Stream!Refuse("text")
  BY <1>1, <1>3, RefuseKeeps
<1>. QED
  BY <1>2, <1>3 DEF Stream!CompleteStream

\* A command takes the first provider that has a key.
LEMMA CommandByKeysKeeps ==
    ASSUME StreamInv, NEW c \in {"prompt", "test", "chat"}, NEW keyed,
           Stream!CommandByKeys(c, keyed)
    PROVE  StreamInv'
<1>1. streamPhase = "choose"
  BY DEF Stream!CommandByKeys
<1>2. PICK p \in Stream!ApiProvider : \E secrets \in {{}, {"key"}} : Stream!Ask(c, <<p>>,
      secrets, FALSE)
  <2>. DEFINE tried == <<"openai", "anthropic", "google">>
              able == {i \in 1..3 : tried[i] \in keyed}
  <2>1. {"openai", "anthropic", "google", "ollama"} \subseteq Stream!ApiProvider
    BY DEF Stream!ApiProvider
  <2>2. \A i \in 1..3 : tried[i] \in Stream!ApiProvider
    BY <2>1
  <2>3. able # {} => Stream!First(able) \in 1..3
    BY FirstPlace
  <2>. QED
    BY <2>1, <2>2, <2>3 DEF Stream!CommandByKeys
<1>3. <<p>> \in Seq(Stream!ApiProvider) /\ <<p>> # <<>>
  OBVIOUS
<1>. QED
  BY <1>1, <1>2, <1>3, AskKeeps

\* A task goes to a registered provider that can be built without a key, or has one.
LEMMA RouteKeeps ==
    ASSUME StreamInv, NEW preferred \in Seq(Stream!ApiProvider),
           NEW registered \in SUBSET {Stream!fallback_order[i] : i \in 1..5},
           NEW keyed, Stream!RouteTask(preferred, registered, keyed)
    PROVE  StreamInv'
<1>. DEFINE routes == Stream!Routes(preferred, registered, keyed)
            chosen == Stream!Listed(preferred)[Stream!First(routes)]
<1>1. streamPhase = "choose"
  BY DEF Stream!RouteTask
<1>2. CASE Stream!Refuse("task")
  BY <1>1, <1>2, RefuseKeeps
<1>3. ASSUME NEW spare, routes # {},
             Stream!Ask("task", <<chosen>>, Stream!SecretsOf(chosen, keyed), spare)
      PROVE  StreamInv'
  <2>1. Stream!Listed(preferred) \in Seq(Stream!ApiProvider)
    BY ProviderNames DEF Stream!Listed
  <2>2. DOMAIN Stream!Listed(preferred) \subseteq Nat
    BY <2>1
  <2>3. Stream!First(routes) \in routes
    <3>1. routes \subseteq Nat
      BY <2>2 DEF Stream!Routes
    <3>. QED
      BY <3>1, <1>3, FirstPlace
  <2>4. /\ Stream!First(routes) \in DOMAIN Stream!Listed(preferred)
        /\ chosen \in registered /\ Stream!CanBuild(chosen, Stream!SecretsOf(chosen, keyed))
    BY <2>3 DEF Stream!Routes
  <2>5. chosen \in Stream!ApiProvider
    BY <2>1, <2>4
  <2>6. chosen \in {"openai", "anthropic", "google", "openrouter", "gemini"}
    BY <2>4, ProviderNames
  <2>7. Stream!SecretsOf(chosen, keyed) = {} => Stream!_create_handler[chosen].key = "used"
    <3>1. \A p \in {"openrouter", "gemini"} : Stream!_create_handler[p].key = "built"
      BY DEF Stream!_create_handler, Stream!ApiProvider, Stream!OpenRouterHandler,
         Stream!GeminiHandler, Stream!Built
    <3>2. \A p \in {"openai", "anthropic", "google"} : Stream!_create_handler[p].key = "used"
      BY DEF Stream!_create_handler, Stream!ApiProvider, Stream!OpenAIWrapper,
         Stream!AnthropicWrapper, Stream!GoogleGenAIWrapper
    <3>. QED
      BY <2>4, <2>6, <3>1, <3>2 DEF Stream!CanBuild
  <2>8. <<chosen>> \in Seq(Stream!ApiProvider) /\ <<chosen>> # <<>>
        /\ \A i \in DOMAIN <<chosen>> : <<chosen>>[i] = chosen
    BY <2>5
  <2>. QED
    BY <1>1, <1>3, <2>7, <2>8, AskKeeps
<1>. QED
  BY <1>2, <1>3 DEF Stream!RouteTask

\* A list of profiles is tried in turn.
LEMMA ProfilesKeep ==
    ASSUME StreamInv, NEW n \in Nat \ {0}, NEW tried \in [1..n -> DOMAIN Stream!TextStream],
           Stream!TryProfiles(tried)
    PROVE  StreamInv'
<1>1. DOMAIN Stream!TextStream \subseteq Stream!ApiProvider
  BY DEF Stream!TextStream, Stream!ApiProvider
<1>2. tried \in Seq(DOMAIN Stream!TextStream) /\ tried \in Seq(Stream!ApiProvider)
      /\ tried # <<>>
  BY <1>1
<1>. QED
  BY <1>2, AskKeeps DEF Stream!TryProfiles


\* The counts are numbers.
LEMMA StreamNumbers ==
    ASSUME AskedStreams
    PROVE  (\A kind : Stream!Yielded(kind) \in Nat) /\ (\A S : Stream!Brought(S) \in Nat)
<1>1. \A kind : Stream!Yielded(kind) \in Nat
  <2>1. \A kind : Cardinality(HandedFrom(got, at, kind)) \in Nat
    <3>1. got \in Seq(HandedChunk) /\ at \in Nat
      BY DEF AskedStreams, HandedChunk
    <3>2. OneOfEach(Nothing)
      BY SmallAnswers
    <3>. QED
      BY <3>1, <3>2, HandedOnMore
  <2>. QED
    BY <2>1, CountsOfLists
<1>2. \A S : Stream!Brought(S) \in Nat
  BY CountsOfLists, PlacesOfList DEF AskedStreams
<1>. QED
  BY <1>1, <1>2

\* A stream that opens has told nothing yet.
LEMMA OpenKeeps == ASSUME StreamInv, Stream!Open PROVE StreamInv'
<1>1. /\ streamPhase = "open" /\ streamPhase' = "stream" /\ sent' = <<>>
      /\ UNCHANGED <<inquiry, at, got, broken, ending, turns>>
  BY DEF Stream!Open
<1>2. AskedStreams'
  BY <1>1 DEF StreamInv, AskedStreams, Stream!TextAlone
<1>3. ReadInOrder'
  BY <1>1 DEF StreamInv, ReadInOrder
<1>4. \A kind : Stream!Yielded(kind)' = 0
  <2>1. \A i \in DOMAIN got : got[i].from # at
    BY <1>1 DEF StreamInv, ReadInOrder
  <2>2. \A kind : HandedFrom(got', at', kind) = {}
    BY <1>1, <2>1 DEF HandedFrom
  <2>. QED
    BY <2>2, CountsOfLists, FS_EmptySet
<1>5. \A S : Stream!Brought(S)' = 0
  <2>1. \A S : Cardinality(PlacesOf(<<>>, S)) = 0
    <3>1. <<>> \in Seq(PieceKinds)
      OBVIOUS
    <3>. QED
      BY <3>1, PlacesOfList
  <2>. QED
    BY <1>1, <2>1, CountsOfLists
<1>6. ToldSoFar'
  BY <1>4, <1>5 DEF ToldSoFar
<1>7. Stream!RoutedToAKey'
  BY <1>1 DEF StreamInv, Stream!RoutedToAKey
<1>. QED
  BY <1>2, <1>3, <1>6, <1>7 DEF StreamInv

\* A stream that fails is followed by that of the next profile, or by none.
LEMMA BrokenKeeps ==
    ASSUME StreamInv, streamPhase \in {"open", "stream"}, Stream!Broken, got' = got
    PROVE  StreamInv'
<1>1. /\ broken' = broken \cup {at} /\ inquiry' = inquiry
      /\ broken = 1..(at - 1) /\ at \in 1..Len(inquiry.order) /\ ending # "complete"
      /\ at \in Nat \ {0} /\ Len(inquiry.order) \in Nat
  BY DEF Stream!Broken, StreamInv, ReadInOrder, AskedStreams
<1>2. broken' = 1..at
  BY <1>1
<1>3. \A i \in DOMAIN got : got[i].from \in 1..at
  BY DEF StreamInv, ReadInOrder
<1>4. \A i, j \in DOMAIN got : i < j => got[i].from <= got[j].from
  BY DEF StreamInv, ReadInOrder
<1>5. CASE at < Len(inquiry.order) /\ at' = at + 1 /\ streamPhase' = "open" /\ sent' = <<>>
           /\ ending' = ending
  <2>1. AskedStreams'
    BY <1>1, <1>5 DEF StreamInv, AskedStreams, Stream!TextAlone
  <2>2. /\ at + 1 \in 1..Len(inquiry.order) /\ 1..at = 1..((at + 1) - 1)
        /\ \A i \in 1..at : i # at + 1 /\ i \in 1..(at + 1)
    BY <1>1, <1>5
  <2>3. ReadInOrder'
    <3>1. /\ streamPhase' # "choose" /\ ending' # "complete"
          /\ at' \in 1..Len(inquiry'.order) /\ broken' = 1..(at' - 1)
      BY <1>1, <1>2, <1>5, <2>2
    <3>2. \A i \in DOMAIN got' : /\ got'[i].from # at' /\ got'[i].from \in 1..at'
                                 /\ got'[i].from \in broken'
      BY <1>2, <1>3, <1>5, <2>2
    <3>3. \A i, j \in DOMAIN got' : i < j => got'[i].from <= got'[j].from
      BY <1>4
    <3>. QED
      BY <3>1, <3>2, <3>3 DEF ReadInOrder
  <2>4. ~Stream!Reading'
    BY <1>1, <1>5 DEF Stream!Reading
  <2>. QED
    BY <1>1, <2>1, <2>3, <2>4 DEF StreamInv, ToldSoFar, Stream!RoutedToAKey
<1>6. CASE streamPhase' = "over" /\ ending' = "failed" /\ at' = at /\ sent' = sent
  <2>1. AskedStreams'
    BY <1>1, <1>6 DEF StreamInv, AskedStreams, Stream!TextAlone
  <2>2. ReadInOrder'
    BY <1>1, <1>2, <1>3, <1>4, <1>6 DEF ReadInOrder
  <2>3. ~Stream!Reading'
    BY <1>6 DEF Stream!Reading
  <2>. QED
    BY <1>1, <2>1, <2>2, <2>3 DEF StreamInv, ToldSoFar, Stream!RoutedToAKey
<1>. QED
  BY <1>5, <1>6 DEF Stream!Broken

\* A stream ends, as it stands or with a last report of Ollama's.
LEMMA CompletedKeeps ==
    ASSUME StreamInv, streamPhase = "stream", Stream!Completed, got' = got,
           sent' = sent \/ sent' = Append(sent, "done")
    PROVE  StreamInv'
<1>1. streamPhase' = "over" /\ ending' = "complete" /\ UNCHANGED <<inquiry, at, broken, turns>>
  BY DEF Stream!Completed
<1>2. AskedStreams'
  <2>1. sent' \in Seq(PieceKinds)
    BY DEF StreamInv, AskedStreams, PieceKinds
  <2>. QED
    BY <1>1, <2>1 DEF StreamInv, AskedStreams, Stream!TextAlone
<1>3. ReadInOrder'
  BY <1>1 DEF StreamInv, ReadInOrder
<1>4. \A kind : Stream!Yielded(kind)' = Stream!Yielded(kind)
  BY <1>1, CountsOfLists
<1>5. \A S : Stream!Brought(S)' \in {Stream!Brought(S),
      Stream!Brought(S) + (IF "done" \in S THEN 1 ELSE 0)}
  <2>1. "done" \in PieceKinds /\ sent \in Seq(PieceKinds)
    BY DEF PieceKinds, StreamInv, AskedStreams
  <2>2. \A S : Cardinality(PlacesOf(Append(sent, "done"), S)) =
                  Cardinality(PlacesOf(sent, S)) + (IF "done" \in S THEN 1 ELSE 0)
    BY <2>1, PlacesOfList
  <2>. QED
    BY <2>2, CountsOfLists
<1>6. (\A kind : Stream!Yielded(kind) \in Nat) /\ (\A S : Stream!Brought(S) \in Nat)
  BY StreamNumbers DEF StreamInv
<1>7. /\ \A S : "done" \notin S => Stream!Brought(S)' = Stream!Brought(S)
      /\ \A S : Stream!Brought(S)' \in {Stream!Brought(S), Stream!Brought(S) + 1}
  BY <1>5, <1>6
<1>8. ToldSoFar'
  <2>. DEFINE ud == {"usage", "detailed"}
              tp == {"tool", "part"}
              td == {"tail", "done"}
              all == {"usage", "detailed", "tail", "done"}
  <2>1. /\ Stream!Brought({"text"})' = Stream!Brought({"text"})
           /\ Stream!Brought(ud)' = Stream!Brought(ud)
        /\ Stream!Brought(tp)' = Stream!Brought(tp)
    BY <1>7
  <2>2. Stream!Brought(td)' = 0 => Stream!Brought(td) = 0
        /\ Stream!Brought(all)' = Stream!Brought(all)
    <3>1. Stream!Brought(all)' \in {Stream!Brought(all), Stream!Brought(all) + 1}
          /\ Stream!Brought(td)' \in {Stream!Brought(td), Stream!Brought(td) + 1}
          /\ Stream!Brought(td) \in Nat
      BY <1>6, <1>7
    <3>2. CASE sent' = sent
      BY <3>1, <3>2, CountsOfLists
    <3>3. CASE sent' = Append(sent, "done")
      <4>1. "done" \in PieceKinds /\ sent \in Seq(PieceKinds) /\ "done" \in td
        BY DEF PieceKinds, StreamInv, AskedStreams
      <4>2. Cardinality(PlacesOf(Append(sent, "done"), td)) = Cardinality(PlacesOf(sent,
            td)) + 1
        BY <4>1, PlacesOfList
      <4>3. Stream!Brought(td)' = Stream!Brought(td) + 1
        BY <3>3, <4>2, CountsOfLists
      <4>. QED
        BY <3>1, <4>3
    <3>. QED
      BY <3>2, <3>3
  <2>3. Stream!Reading /\ Stream!Reading' /\ Stream!Provider' = Stream!Provider
        /\ Stream!TextAlone' = Stream!TextAlone
    BY <1>1 DEF Stream!Reading, Stream!Provider, Stream!TextAlone
  <2>4. ToldSoFar
    BY DEF StreamInv
  <2>5. Stream!Brought({"text"})' = Stream!Yielded("text")'
    BY <1>4, <2>1, <2>3, <2>4 DEF ToldSoFar
  <2>6. Stream!Provider \notin {"gemini", "vertex"} /\ ~Stream!TextAlone
        => Stream!Yielded("usage")' <= Stream!Brought(ud)'
    BY <1>4, <2>1, <2>3, <2>4 DEF ToldSoFar
  <2>7. Stream!Brought(td)' = 0 /\ ~Stream!TextAlone
        => Stream!Yielded("usage")' >= Stream!Brought(all)'
    BY <1>4, <2>2, <2>3, <2>4 DEF ToldSoFar
  <2>8. Stream!Provider \notin {"anthropic", "bedrock"} /\ ~Stream!TextAlone =>
           Stream!Yielded("tool")' >= Stream!Brought(tp)'
    BY <1>4, <2>1, <2>3, <2>4 DEF ToldSoFar
  <2>. QED
    BY <2>3, <2>5, <2>6, <2>7, <2>8 DEF ToldSoFar
<1>9. Stream!RoutedToAKey'
  BY <1>1 DEF StreamInv, Stream!RoutedToAKey
<1>. QED
  BY <1>2, <1>3, <1>8, <1>9 DEF StreamInv

\* What is read of a stream is the table of its provider.
LEMMA TableAtHand ==
    ASSUME StreamInv, streamPhase = "stream"
    PROVE  /\ HandsOn(Stream!Yields)
           /\ ~Stream!TextAlone =>
                 /\ CountsUsage(Stream!Yields)
                 /\ Stream!Provider \notin {"gemini", "vertex"}
                    => CountsUsageAlone(Stream!Yields)
                 /\ Stream!Provider \notin {"anthropic", "bedrock"} => CallsTools(Stream!Yields)
<1>1. at \in DOMAIN inquiry.order
  BY DEF StreamInv, ReadInOrder, AskedStreams
<1>2. CASE Stream!TextAlone
  <2>1. Stream!Provider \in DOMAIN Stream!TextStream
        /\ Stream!Yields = Stream!TextStream[Stream!Provider]
    BY <1>1, <1>2 DEF StreamInv, AskedStreams, Stream!Provider, Stream!Yields
  <2>. QED
    BY <1>2, <2>1, EveryWrapper
<1>3. CASE ~Stream!TextAlone
  <2>1. Stream!Provider \in Stream!ApiProvider
        /\ Stream!Yields = Stream!_create_handler[Stream!Provider].chunk
    BY <1>1, <1>3 DEF StreamInv, AskedStreams, Stream!Provider, Stream!Yields
  <2>. QED
    BY <1>3, <2>1, EveryHandler
<1>. QED
  BY <1>2, <1>3

\* What a list holds when another follows it.
LEMMA LongerList ==
    ASSUME NEW T, NEW list \in Seq(T), NEW more \in Seq(T)
    PROVE  /\ DOMAIN (list \o more) = 1..(Len(list) + Len(more))
           /\ \A i \in 1..Len(list) : (list \o more)[i] = list[i]
           /\ \A i \in (Len(list) + 1)..(Len(list) + Len(more)) :
                 (list \o more)[i] = more[i - Len(list)]
<1>1. DOMAIN (list \o more) = 1..(Len(list) + Len(more))
  OBVIOUS
<1>2. ASSUME NEW i \in 1..Len(list) PROVE (list \o more)[i] = list[i]
  BY <1>2
<1>3. ASSUME NEW i \in (Len(list) + 1)..(Len(list) + Len(more))
      PROVE  (list \o more)[i] = more[i - Len(list)]
  BY <1>3
<1>. QED
  BY <1>1, <1>2, <1>3

\* The chunks of one more piece are handed on.
LEMMA PieceKeeps ==
    ASSUME StreamInv, streamPhase = "stream", NEW e \in PieceKinds, e \in DOMAIN Stream!Yields,
           Answers(Stream!Yields, e), sent' = Append(sent, e),
           got' = got \o Stream!Tagged(Stream!Yields[e]),
           UNCHANGED <<inquiry, at, streamPhase, broken, ending, turns>>
    PROVE  StreamInv'
<1>. DEFINE chunks == Stream!Yields[e]
            B(kind) == IF Contains(chunks, kind) THEN 1 ELSE 0
            I(S) == IF e \in S THEN 1 ELSE 0
<1>1. OneOfEach(chunks) /\ (Contains(chunks, "text") <=> e = "text")
  BY TableAtHand DEF HandsOn
<1>2. got \in Seq(HandedChunk) /\ at \in Nat \ {0} /\ sent \in Seq(PieceKinds)
  BY DEF StreamInv, AskedStreams, HandedChunk
<1>3. got' = got \o TaggedWith(at, chunks)
  BY DEF Stream!Tagged, TaggedWith
<1>4. /\ got' \in Seq(HandedChunk)
      /\ \A kind : Cardinality(HandedFrom(got', at, kind)) = Cardinality(HandedFrom(got, at,
         kind)) + B(kind)
  <2>1. at \in Nat
    BY <1>2
  <2>2. /\ got \o TaggedWith(at, chunks) \in Seq(HandedChunk)
        /\ \A kind : Cardinality(HandedFrom(got \o TaggedWith(at, chunks), at, kind)) =
                         Cardinality(HandedFrom(got, at, kind)) + B(kind)
    BY <1>1, <1>2, <2>1, HandedOnMore
  <2>. QED
    BY <1>3, <2>2
<1>5. \A kind : Stream!Yielded(kind)' = Stream!Yielded(kind) + B(kind)
  BY <1>4, CountsOfLists
<1>6. \A S : Stream!Brought(S)' = Stream!Brought(S) + I(S)
  BY <1>2, PlacesOfList, CountsOfLists
<1>7. (\A kind : Stream!Yielded(kind) \in Nat) /\ (\A S : Stream!Brought(S) \in Nat)
  BY StreamNumbers DEF StreamInv
<1>8. AskedStreams'
  <2>1. sent' \in Seq(PieceKinds)
    BY <1>2
  <2>. QED
    BY <1>4, <2>1 DEF StreamInv, AskedStreams, Stream!TextAlone, HandedChunk
<1>9. ReadInOrder'
  <2>1. /\ DOMAIN got = 1..Len(got) /\ Len(got) \in Nat
        /\ DOMAIN chunks = 1..Len(chunks) /\ Len(chunks) \in Nat
    BY <1>1, <1>2 DEF OneOfEach
  <2>2. /\ TaggedWith(at, chunks) \in Seq(HandedChunk)
           /\ Len(TaggedWith(at, chunks)) = Len(chunks)
        /\ \A j \in 1..Len(chunks) :
              TaggedWith(at, chunks)[j] = [from |-> at, chunk |-> chunks[j]]
    <3>1. TaggedWith(at, chunks) \in [1..Len(chunks) -> HandedChunk]
      BY <1>1, <1>2, <2>1 DEF TaggedWith, HandedChunk, OneOfEach
    <3>. QED
      BY <3>1, <2>1 DEF TaggedWith
  <2>3. /\ DOMAIN got' = 1..(Len(got) + Len(chunks))
        /\ \A i \in 1..Len(got) : got'[i] = got[i]
        /\ \A i \in (Len(got) + 1)..(Len(got) + Len(chunks)) : got'[i].from = at
    <3>1. /\ DOMAIN got' = 1..(Len(got) + Len(chunks))
          /\ \A i \in 1..Len(got) : got'[i] = got[i]
          /\ \A i \in (Len(got) + 1)..(Len(got) + Len(chunks)) :
                got'[i] = TaggedWith(at, chunks)[i - Len(got)]
      <4>. DEFINE more == TaggedWith(at, chunks)
      <4>1. got \in Seq(HandedChunk) /\ more \in Seq(HandedChunk) /\ Len(more) = Len(chunks)
            /\ got' = got \o more
        BY <1>2, <1>3, <2>2
      <4>. HIDE DEF more
      <4>2. /\ DOMAIN got' = 1..(Len(got) + Len(chunks))
            /\ \A i \in 1..Len(got) : got'[i] = got[i]
            /\ \A i \in (Len(got) + 1)..(Len(got) + Len(chunks)) : got'[i] = more[i - Len(got)]
        <5>1. /\ DOMAIN (got \o more) = 1..(Len(got) + Len(more))
              /\ \A i \in 1..Len(got) : (got \o more)[i] = got[i]
              /\ \A i \in (Len(got) + 1)..(Len(got) + Len(more)) :
                    (got \o more)[i] = more[i - Len(got)]
          <6>1. got \in Seq(HandedChunk) /\ more \in Seq(HandedChunk)
            BY <4>1
          <6>. QED
            BY ONLY <6>1, LongerList
        <5>2. got' = got \o more /\ Len(more) = Len(chunks)
          BY <4>1
        <5>. QED
          BY ONLY <5>1, <5>2
      <4>. QED
        BY <4>2 DEF more
    <3>2. ASSUME NEW i \in (Len(got) + 1)..(Len(got) + Len(chunks)) PROVE got'[i].from = at
      <4>1. i - Len(got) \in 1..Len(chunks)
        BY <2>1
      <4>2. got'[i] = TaggedWith(at, chunks)[i - Len(got)]
        BY <3>1
      <4>3. got'[i] = [from |-> at, chunk |-> chunks[i - Len(got)]]
        BY <2>2, <4>1, <4>2
      <4>. QED
        BY ONLY <4>3
    <3>. QED
      BY <3>1, <3>2
  <2>4. /\ \A i \in 1..Len(got) :
              got[i].from \in 1..at /\ (got[i].from # at => got[i].from \in broken)
        /\ \A i, j \in 1..Len(got) : i < j => got[i].from <= got[j].from
        /\ at \in 1..Len(inquiry.order) /\ broken = 1..(at - 1) /\ ending # "complete"
    BY <2>1 DEF StreamInv, ReadInOrder
  <2>5. \A i \in DOMAIN got' : i \in 1..Len(got) \/ got'[i].from = at
    <3>1. \A i \in 1..(Len(got) + Len(chunks)) :
             i \in 1..Len(got) \/ i \in (Len(got) + 1)..(Len(got) + Len(chunks))
      BY <2>1
    <3>. QED
      BY <2>3, <3>1
  <2>6. \A i \in DOMAIN got' :
           got'[i].from \in 1..at /\ (got'[i].from # at => got'[i].from \in broken)
    <3>1. at \in 1..at
      BY <1>2
    <3>. QED
      BY <2>3, <2>4, <2>5, <3>1
  <2>7. ASSUME NEW i \in DOMAIN got', NEW j \in DOMAIN got', i < j
        PROVE  got'[i].from <= got'[j].from
    <3>1. CASE j \in 1..Len(got)
      <4>1. i \in 1..Len(got)
        BY <2>1, <2>3, <2>7, <3>1
      <4>. QED
        BY <2>3, <2>4, <2>7, <3>1, <4>1
    <3>2. CASE got'[j].from = at
      <4>1. got'[i].from \in 1..at
        BY <2>6
      <4>. QED
        BY <1>2, <3>2, <4>1
    <3>. QED
      BY <2>5, <3>1, <3>2
  <2>. QED
    BY <2>4, <2>6, <2>7 DEF ReadInOrder
<1>10. ToldSoFar'
  <2>. DEFINE ud == {"usage", "detailed"}
              tp == {"tool", "part"}
              td == {"tail", "done"}
              all == {"usage", "detailed", "tail", "done"}
  <2>1. Stream!Reading /\ Stream!Reading' /\ Stream!Provider' = Stream!Provider
        /\ Stream!TextAlone' = Stream!TextAlone
    BY DEF Stream!Reading, Stream!Provider, Stream!TextAlone
  <2>2. ToldSoFar
    BY DEF StreamInv
  <2>3. Stream!Yielded("text")' = Stream!Brought({"text"})'
    <3>1. B("text") = I({"text"})
      BY <1>1
    <3>2. Stream!Yielded("text") = Stream!Brought({"text"})
      BY <2>1, <2>2 DEF ToldSoFar
    <3>. QED
      BY <1>5, <1>6, <3>1, <3>2
  <2>4. ASSUME ~Stream!TextAlone, Stream!Provider \notin {"gemini", "vertex"}
        PROVE  Stream!Yielded("usage")' <= Stream!Brought(ud)'
    <3>1. B("usage") <= I(ud) /\ B("usage") \in Nat /\ I(ud) \in Nat
      BY <2>4, TableAtHand DEF CountsUsageAlone
    <3>2. Stream!Yielded("usage") <= Stream!Brought(ud)
      BY <2>1, <2>2, <2>4 DEF ToldSoFar
    <3>. QED
      BY <1>5, <1>6, <1>7, <3>1, <3>2
  <2>5. ASSUME ~Stream!TextAlone, Stream!Brought(td)' = 0
        PROVE  Stream!Yielded("usage")' >= Stream!Brought(all)'
    <3>1. I(td) = 0 /\ Stream!Brought(td) = 0
      <4>1. Stream!Brought(td) \in Nat /\ I(td) \in {0, 1} /\ Stream!Brought(td) + I(td) = 0
        BY <1>6, <1>7, <2>5
      <4>. QED
        BY <4>1
    <3>2. B("usage") >= I(all) /\ B("usage") \in Nat /\ I(all) \in Nat
      <4>1. e \in all => e \in ud
        BY <3>1
      <4>2. e \in ud => Contains(chunks, "usage")
        BY <2>5, TableAtHand DEF CountsUsage
      <4>. QED
        BY <4>1, <4>2
    <3>3. Stream!Yielded("usage") >= Stream!Brought(all)
      BY <2>1, <2>2, <2>5, <3>1 DEF ToldSoFar
    <3>. QED
      BY <1>5, <1>6, <1>7, <3>2, <3>3
  <2>6. ASSUME ~Stream!TextAlone, Stream!Provider \notin {"anthropic", "bedrock"}
        PROVE  Stream!Yielded("tool")' >= Stream!Brought(tp)'
    <3>1. B("tool") >= I(tp) /\ B("tool") \in Nat /\ I(tp) \in Nat
      BY <2>6, TableAtHand DEF CallsTools
    <3>2. Stream!Yielded("tool") >= Stream!Brought(tp)
      BY <2>1, <2>2, <2>6 DEF ToldSoFar
    <3>. QED
      BY <1>5, <1>6, <1>7, <3>1, <3>2
  <2>. QED
    BY <2>1, <2>3, <2>4, <2>5, <2>6 DEF ToldSoFar
<1>11. Stream!RoutedToAKey'
  BY DEF StreamInv, Stream!RoutedToAKey
<1>. QED
  BY <1>8, <1>9, <1>10, <1>11 DEF StreamInv

\* Whatever a stream brings.
LEMMA ReceiveKeeps ==
    ASSUME StreamInv, NEW e \in PieceKinds, Stream!Receive(e)
    PROVE  StreamInv'
<1>1. streamPhase = "stream" /\ e \in DOMAIN Stream!Yields
  BY DEF Stream!Receive
<1>2. CASE Stream!Broken /\ got' = got
  BY <1>1, <1>2, BrokenKeeps
<1>3. CASE Stream!Yields[e] = Stream!Stops /\ Stream!Completed /\ sent' = Append(sent, e)
           /\ got' = got
  <2>1. e = "done"
    BY <1>1, <1>3, TableAtHand DEF HandsOn
  <2>. QED
    BY <1>1, <1>3, <2>1, CompletedKeeps
<1>4. CASE /\ Stream!Yields[e] \notin {Stream!Fails, Stream!Stops}
           /\ sent' = Append(sent, e) /\ got' = got \o Stream!Tagged(Stream!Yields[e])
           /\ UNCHANGED <<inquiry, at, streamPhase, broken, ending, turns>>
  BY <1>1, <1>4, PieceKeeps DEF Answers
<1>. QED
  BY <1>2, <1>3, <1>4 DEF Stream!Receive

\* A chat asks the provider that has just answered.
LEMMA AskAgainKeeps == ASSUME StreamInv, Stream!AskAgain PROVE StreamInv'
<1>1. /\ streamPhase = "over" /\ ending = "complete" /\ streamPhase' = "open"
         /\ ending' = "none"
      /\ sent' = <<>> /\ got' = <<>> /\ UNCHANGED <<inquiry, at, broken>>
  BY DEF Stream!AskAgain
<1>2. AskedStreams'
  BY <1>1 DEF StreamInv, AskedStreams, Stream!TextAlone
<1>3. ReadInOrder'
  BY <1>1 DEF StreamInv, ReadInOrder
<1>4. ~Stream!Reading'
  BY <1>1 DEF Stream!Reading
<1>5. Stream!RoutedToAKey'
  BY <1>1 DEF StreamInv, Stream!RoutedToAKey
<1>. QED
  BY <1>2, <1>3, <1>4, <1>5 DEF StreamInv, ToldSoFar

\* Nobody has asked yet.
LEMMA StreamInit == Stream!Init => StreamInv
<1>. SUFFICES ASSUME Stream!Init PROVE StreamInv
  OBVIOUS
<1>1. /\ inquiry.order = <<>> /\ inquiry.spare = FALSE /\ at = 1 /\ streamPhase = "choose"
      /\ sent = <<>> /\ got = <<>> /\ broken = {} /\ ending = "none"
  BY DEF Stream!Init, Stream!Nobody
<1>2. AskedStreams
  BY <1>1 DEF AskedStreams
<1>3. ReadInOrder
  BY <1>1 DEF ReadInOrder
<1>4. ~Stream!Reading /\ Stream!RoutedToAKey
  BY <1>1 DEF Stream!Reading, Stream!RoutedToAKey
<1>. QED
  BY <1>2, <1>3, <1>4 DEF StreamInv, ToldSoFar

\* Every step of a stream keeps what is known of it.
LEMMA StreamStep == StreamInv /\ [Stream!Next]_Stream!vars => StreamInv'
<1>. SUFFICES ASSUME StreamInv, [Stream!Next]_Stream!vars PROVE StreamInv'
  OBVIOUS
<1>1. ASSUME NEW c \in {"prompt", "test", "chat"}, NEW p \in Stream!ApiProvider,
             NEW secrets \in SUBSET Stream!Secrets(p), Stream!Command(c, p, secrets)
      PROVE  StreamInv'
  BY <1>1, CommandKeeps
<1>2. ASSUME NEW p \in Stream!ApiProvider, NEW secrets \in SUBSET Stream!Secrets(p),
             Stream!CompleteStream(p, secrets)
      PROVE  StreamInv'
  BY <1>2, CompleteStreamKeeps
<1>3. ASSUME NEW c \in {"prompt", "test", "chat"},
             NEW keyed \in SUBSET {"openai", "anthropic", "google"},
             Stream!CommandByKeys(c, keyed)
      PROVE  StreamInv'
  BY <1>3, CommandByKeysKeeps
<1>4. ASSUME NEW task \in DOMAIN Stream!task_routes \cup {"other"},
             NEW registered \in SUBSET {Stream!fallback_order[i] : i \in 1..5},
             NEW keyed \in SUBSET registered,
             Stream!RouteTask(IF task = "other" THEN Stream!fallback_order ELSE Stream!task_routes[task],
                       registered, keyed)
      PROVE  StreamInv'
  <2>1. (IF task = "other" THEN Stream!fallback_order ELSE Stream!task_routes[task]) \in Seq(Stream!ApiProvider)
    BY ProviderNames
  <2>. QED
    BY <1>4, <2>1, RouteKeeps
<1>5. ASSUME NEW n \in 1..MaxProfiles, NEW tried \in [1..n -> DOMAIN Stream!TextStream],
             Stream!TryProfiles(tried)
      PROVE  StreamInv'
  <2>1. n \in Nat \ {0}
    OBVIOUS
  <2>. QED
    BY <1>5, <2>1, ProfilesKeep
<1>6. CASE Stream!Open
  BY <1>6, OpenKeeps
<1>7. CASE Stream!OpenFails
  BY <1>7, BrokenKeeps DEF Stream!OpenFails
<1>8. CASE Stream!EndStream
  BY <1>8, CompletedKeeps DEF Stream!EndStream
<1>9. CASE Stream!Cut
  BY <1>9, BrokenKeeps DEF Stream!Cut
<1>10. CASE Stream!AskAgain
  BY <1>10, AskAgainKeeps
<1>11. ASSUME NEW e \in PieceKinds, Stream!Receive(e) PROVE StreamInv'
  BY <1>11, ReceiveKeeps
<1>12. CASE UNCHANGED Stream!vars
  <2>1. UNCHANGED <<inquiry, at, streamPhase, sent, got, broken, ending>>
    BY <1>12 DEF Stream!vars
  <2>2. AskedStreams' /\ ReadInOrder' /\ Stream!RoutedToAKey'
    BY <2>1 DEF StreamInv, AskedStreams, ReadInOrder, Stream!RoutedToAKey, Stream!TextAlone
  <2>3. ToldSoFar'
    BY <2>1 DEF StreamInv, ToldSoFar, Stream!Reading, Stream!TextAlone, Stream!Provider,
       Stream!Yielded, Stream!Brought
  <2>. QED
    BY <2>2, <2>3 DEF StreamInv
<1>. QED
  BY <1>1, <1>2, <1>3, <1>4, <1>5, <1>6, <1>7, <1>8, <1>9, <1>10, <1>11, <1>12
     DEF Stream!Next, PieceKinds

\* What is known of a stream says that it is accounted for.
LEMMA StreamImplied == StreamInv => Stream!StreamsAreAccounted
<1>. SUFFICES ASSUME StreamInv PROVE Stream!StreamsAreAccounted
  OBVIOUS
<1>1. (\A kind : Stream!Yielded(kind) \in Nat) /\ (\A S : Stream!Brought(S) \in Nat)
  BY StreamNumbers DEF StreamInv
<1>2. ToldSoFar /\ Stream!RoutedToAKey
  BY DEF StreamInv
<1>3. Stream!NoTextIsLost
  BY <1>2 DEF ToldSoFar, Stream!NoTextIsLost
<1>4. Stream!OneStreamCompletes
  BY DEF StreamInv, ReadInOrder, Stream!OneStreamCompletes
<1>5. Stream!UsageIsCounted
  <2>. SUFFICES ASSUME Stream!Reading, ~Stream!TextAlone
                PROVE  /\ Stream!Yielded("usage") > Stream!Brought({"usage", "detailed"}) =>
                             Stream!Provider \in {"gemini", "vertex"}
                       /\ Stream!Yielded("usage") < Stream!Brought({"usage", "detailed",
                          "tail", "done"}) =>
                             Stream!Brought({"tail", "done"}) > 0
    BY DEF Stream!UsageIsCounted
  <2>1. Stream!Provider \notin {"gemini", "vertex"}
        => Stream!Yielded("usage") <= Stream!Brought({"usage", "detailed"})
    BY <1>2 DEF ToldSoFar
  <2>2. Stream!Brought({"tail", "done"}) = 0 =>
           Stream!Yielded("usage") >= Stream!Brought({"usage", "detailed", "tail", "done"})
    BY <1>2 DEF ToldSoFar
  <2>3. /\ Stream!Yielded("usage") \in Nat /\ Stream!Brought({"usage", "detailed"}) \in Nat
        /\ Stream!Brought({"tail", "done"}) \in Nat
        /\ Stream!Brought({"usage", "detailed", "tail", "done"}) \in Nat
    BY <1>1
  <2>. QED
    BY <2>1, <2>2, <2>3
<1>6. Stream!ToolCallsAreWhole
  <2>1. /\ Stream!Yielded("tool") \in Nat /\ Stream!Brought({"tool", "part"}) \in Nat
    BY <1>1
  <2>. QED
    BY <1>2, <2>1 DEF ToldSoFar, Stream!ToolCallsAreWhole
<1>. QED
  BY <1>2, <1>3, <1>4, <1>5, <1>6 DEF Stream!StreamsAreAccounted

-----------------------------------------------------------------------------
(* The plan of an issue, in the variables of the composition *)

\* A part of a plan, and a plan: its parts are of one planning, and of none where they were
\* never made.
PlanForms == {"absent", "full", "bare", "empty", "junk"}
PartRecord == [plan : Nat, form : PlanForms]
PlanOf(m, plan) ==
    /\ plan \in [Plan!Parts -> PartRecord]
    /\ \A p \in Plan!Parts : plan[p].plan = m /\ (plan[p].form = "absent" => m = 0)
OnePlan(plan, n) == \E m \in 0 .. n : PlanOf(m, plan)

\* A comment: JSON that parses is behind the marker, and so are the ones a scan wrote.
CommentRecord ==
    [id : Nat, marked : BOOLEAN, readable : BOOLEAN, plan : [Plan!Parts -> PartRecord]]
GoodComment(c, n) ==
    /\ c \in CommentRecord /\ OnePlan(c.plan, n)
    /\ c.readable => c.marked
    /\ c.id # 0 => c.marked
GoodComments(list, n) ==
    list \in Seq(CommentRecord) /\ \A i \in DOMAIN list : GoodComment(list[i], n)

ScanRecord ==
    [pc : {"idle", "enrich", "plan", "find", "post", "dispatch"},
     before : {"opened", "planning", "ready"}, read : Seq(CommentRecord),
     plan : [Plan!Parts -> PartRecord], source : {"none", "issue", "generated", "regenerated"},
     found : Nat, seen : SUBSET Nat]

\* A scan that has a plan has a complete one: that of the comments it read, or a later one.
Planned(w) ==
    w.pc \in {"find", "post", "dispatch"} =>
        /\ Plan!_plan_bundle_is_complete(w.plan)
        /\ w.source = "issue" => Plan!_extract_plan_payload(w.read) = w.plan
        /\ w.source # "issue" =>
              \A p \in Plan!Parts : Plan!_extract_plan_payload(w.read)[p].plan < w.plan[p].plan
GoodScan(w, n) ==
    /\ w \in ScanRecord /\ GoodComments(w.read, n) /\ OnePlan(w.plan, n) /\ Planned(w)

GoodRun(r, n) ==
    /\ r = [at |-> r.at, given |-> r.given, shown |-> r.shown, source |-> r.source,
            got |-> r.got]
    /\ OnePlan(r.given, n)
    /\ r.source = "issue" => r.shown = r.given
    /\ r.source \in {"generated", "regenerated"} =>
          \A p \in Plan!Parts : r.shown[p].plan < r.given[p].plan
    /\ r.at = "generated" =>
          \A p \in Plan!Parts : IF Plan!Usable(p, r.given[p])
                                  THEN r.got[p].plan = r.given[p].plan
                                  ELSE r.got[p].plan = 0 \/ r.got[p] = r.given[p]

\* The comments, as long as none was written unseen, and none lost or changed.
Posted(w) == w.pc = "dispatch" \/ Plan!Marked(w.read) # {}
Calm == planEvents \cap {"unposted", "touched"} = {}
CommentsKept ==
    /\ planEvents \cap {"page", "overlap"} = {} => \A i, j \in Plan!Marked(comments) : i = j
    /\ Calm => \A i \in Plan!Marked(comments) :
                  comments[i].readable /\ Plan!_plan_bundle_is_complete(comments[i].plan)
    /\ Calm /\ (stage = "ready" \/ \E s \in Scans : Posted(scan[s]))
       => Plan!Marked(comments) # {}

PlanInv ==
    /\ plans \in Nat /\ posted \in Nat /\ stage \in {"opened", "planning", "ready"}
    /\ GoodComments(comments, plans)
    /\ scan \in [Scans -> ScanRecord] /\ \A s \in Scans : GoodScan(scan[s], plans)
    /\ GoodRun(run, plans)
    /\ CommentsKept

\* The earliest of a set of places.
LEMMA EarliestPlace ==
    ASSUME NEW T, T \subseteq Nat, T # {}
    PROVE  Plan!Earliest(T) \in T /\ \A j \in T : Plan!Earliest(T) <= j
  BY LeastNatural DEF Plan!Earliest

\* A plan stays one as more are made, and so does what holds one.
LEMMA PlansGrow ==
    ASSUME NEW n \in Nat, NEW m \in Nat, n <= m
    PROVE  /\ \A plan : OnePlan(plan, n) => OnePlan(plan, m)
           /\ \A list : GoodComments(list, n) => GoodComments(list, m)
           /\ \A w : GoodScan(w, n) => GoodScan(w, m)
           /\ \A r : GoodRun(r, n) => GoodRun(r, m)
<1>1. \A plan : OnePlan(plan, n) => OnePlan(plan, m)
  <2>1. 0 .. n \subseteq 0 .. m
    OBVIOUS
  <2>. QED
    BY <2>1 DEF OnePlan
<1>2. \A list : GoodComments(list, n) => GoodComments(list, m)
  BY <1>1 DEF GoodComments, GoodComment
<1>. QED
  BY <1>1, <1>2 DEF GoodScan, GoodRun

\* No plan at all.
LEMMA NoPlanIsOne ==
    /\ PlanOf(0, Plan!NoPlan) /\ \A n \in Nat : OnePlan(Plan!NoPlan, n)
    /\ ~Plan!_plan_bundle_is_complete(Plan!NoPlan)
    /\ Plan!NoPlan \in [Plan!Parts -> PartRecord]
       /\ \A p \in Plan!Parts : Plan!NoPlan[p].plan = 0
<1>1. \A p \in Plan!Parts : Plan!NoPlan[p] = Plan!Absent
  BY DEF Plan!NoPlan
<1>2. Plan!Absent.plan = 0 /\ Plan!Absent.form = "absent" /\ Plan!Absent \in PartRecord
  BY DEF Plan!Absent, Plan!Part, PartRecord, PlanForms
<1>3. Plan!NoPlan \in [Plan!Parts -> PartRecord]
  BY <1>2 DEF Plan!NoPlan
<1>4. PlanOf(0, Plan!NoPlan)
  BY <1>1, <1>2, <1>3 DEF PlanOf
<1>5. ~Plan!_plan_bundle_is_complete(Plan!NoPlan)
  <2>1. "dod" \in Plan!REQUIRED_PLAN_KEYS /\ "dod" \in Plan!Parts
    BY DEF Plan!REQUIRED_PLAN_KEYS, Plan!Parts
  <2>. QED
    BY <1>1, <1>2, <2>1 DEF Plan!_plan_bundle_is_complete, Plan!Filled
<1>6. \A n \in Nat : 0 \in 0 .. n
  OBVIOUS
<1>. QED
  BY <1>1, <1>2, <1>3, <1>4, <1>5, <1>6 DEF OnePlan

\* What is read of comments is one plan; one that is complete is what the code generator
\* reads as well.
LEMMA PlansRead ==
    ASSUME NEW n \in Nat, NEW list, GoodComments(list, n)
    PROVE  /\ OnePlan(Plan!_load_plan_from_issue(list), n)
              /\ OnePlan(Plan!_extract_plan_payload(list), n)
           /\ Plan!_plan_bundle_is_complete(Plan!_load_plan_from_issue(list)) =>
                 /\ Plan!_extract_plan_payload(list) = Plan!_load_plan_from_issue(list)
                 /\ Plan!Marked(list) # {}
           /\ Plan!_find_planning_comment_id(list) \in Nat
<1>1. DOMAIN list = 1 .. Len(list) /\ Len(list) \in Nat
  BY DEF GoodComments
<1>2. Plan!Marked(list) \subseteq Nat /\ Plan!Readable(list) \subseteq Plan!Marked(list)
      /\ Plan!Marked(list) \subseteq DOMAIN list
  BY <1>1 DEF Plan!Marked, Plan!Readable, GoodComments, GoodComment
<1>3. Plan!Marked(list) # {} => /\ Plan!Earliest(Plan!Marked(list)) \in Plan!Marked(list)
                           /\ \A j \in Plan!Marked(list) : Plan!Earliest(Plan!Marked(list)) <= j
  BY <1>2, EarliestPlace
<1>4. Plan!Readable(list) # {} =>
         /\ Plan!Earliest(Plan!Readable(list)) \in Plan!Readable(list)
         /\ \A j \in Plan!Readable(list) : Plan!Earliest(Plan!Readable(list)) <= j
  BY <1>2, EarliestPlace
<1>5. OnePlan(Plan!_load_plan_from_issue(list), n)
  BY <1>2, <1>3, NoPlanIsOne DEF Plan!_load_plan_from_issue, GoodComments, GoodComment
<1>6. OnePlan(Plan!_extract_plan_payload(list), n)
  BY <1>2, <1>4, NoPlanIsOne DEF Plan!_extract_plan_payload, GoodComments, GoodComment
<1>7. ASSUME Plan!_plan_bundle_is_complete(Plan!_load_plan_from_issue(list))
      PROVE  /\ Plan!_extract_plan_payload(list) = Plan!_load_plan_from_issue(list)
             /\ Plan!Marked(list) # {}
  <2>1. /\ Plan!Marked(list) # {} /\ list[Plan!Earliest(Plan!Marked(list))].readable
        /\ Plan!_load_plan_from_issue(list) = list[Plan!Earliest(Plan!Marked(list))].plan
    BY <1>7, NoPlanIsOne DEF Plan!_load_plan_from_issue
  <2>2. Plan!Earliest(Plan!Marked(list)) \in Plan!Readable(list)
    BY <1>2, <1>3, <2>1 DEF Plan!Readable
  <2>3. Plan!Earliest(Plan!Readable(list)) = Plan!Earliest(Plan!Marked(list))
    <3>1. Plan!Earliest(Plan!Readable(list)) <= Plan!Earliest(Plan!Marked(list))
      BY <1>4, <2>2
    <3>2. Plan!Earliest(Plan!Readable(list)) \in Plan!Marked(list)
      BY <1>2, <1>4, <2>2
    <3>3. Plan!Earliest(Plan!Marked(list)) <= Plan!Earliest(Plan!Readable(list))
      BY <1>3, <3>2
    <3>4. Plan!Earliest(Plan!Marked(list)) \in Nat /\ Plan!Earliest(Plan!Readable(list)) \in Nat
      BY <1>2, <2>2, <3>2
    <3>. QED
      BY <3>1, <3>3, <3>4
  <2>. QED
    BY <2>1, <2>2, <2>3 DEF Plan!_extract_plan_payload
<1>8. Plan!_find_planning_comment_id(list) \in Nat
  <2>1. \A i \in DOMAIN list : list[i].id \in Nat
    BY DEF GoodComments, GoodComment, CommentRecord
  <2>. QED
    BY <1>2, <1>3, <2>1 DEF Plan!_find_planning_comment_id
<1>. QED
  BY <1>5, <1>6, <1>7, <1>8

\* A page of the comments.
LEMMA PageOfComments ==
    ASSUME NEW n \in Nat, NEW k \in Nat, NEW list, GoodComments(list, n)
    PROVE  /\ GoodComments(Plan!Page(k, list), n)
           /\ Plan!Marked(Plan!Page(k, list)) \subseteq Plan!Marked(list)
<1>1. list \in Seq(CommentRecord) /\ DOMAIN list = 1 .. Len(list) /\ Len(list) \in Nat
  BY DEF GoodComments
<1>. DEFINE upTo == IF Len(list) < k THEN Len(list) ELSE k
            page == SubSeq(list, 1, upTo)
<1>2. upTo \in Nat /\ upTo <= Len(list)
  BY <1>1
<1>. HIDE DEF upTo
<1>3. /\ page \in Seq(CommentRecord) /\ DOMAIN page = 1 .. upTo
      /\ \A i \in 1 .. upTo : page[i] = list[i] /\ i \in DOMAIN list
  BY <1>1, <1>2
<1>4. Plan!Page(k, list) = page
  BY DEF Plan!Page, upTo
<1>. HIDE DEF page
<1>5. GoodComments(page, n)
  BY <1>3 DEF GoodComments
<1>6. Plan!Marked(page) \subseteq Plan!Marked(list)
  BY <1>3 DEF Plan!Marked
<1>. QED
  BY <1>4, <1>5, <1>6

\* What the planning agents make is one plan, and complete.
LEMMA MadeIsWhole ==
    ASSUME NEW n \in Nat, NEW all
    PROVE  /\ PlanOf(n + 1, Plan!Sanitized(Plan!Made(n + 1), all))
           /\ Plan!_plan_bundle_is_complete(Plan!Sanitized(Plan!Made(n + 1), all))
<1>. DEFINE m == n + 1
            plan == Plan!Sanitized(Plan!Made(m), all)
<1>1. m \in Nat /\ m # 0
  OBVIOUS
<1>2. /\ Plan!Made(m) \in [Plan!Parts -> PartRecord]
      /\ \A p \in Plan!Parts : Plan!Made(m)[p] = Plan!Part(m, "full")
  <2>1. DOMAIN Plan!Made(m) = Plan!Parts
    BY DEF Plan!Made, Plan!Parts
  <2>2. \A p \in Plan!Parts : Plan!Made(m)[p] = Plan!Part(m, "full")
    BY DEF Plan!Made, Plan!Parts, Plan!DodExtractor, Plan!SpecificationWriter,
       Plan!TaskDecomposer, Plan!BDDGenerator,
       Plan!TestGenerator
  <2>3. Plan!Part(m, "full") \in PartRecord
    BY <1>1 DEF Plan!Part, PartRecord, PlanForms
  <2>4. Plan!Made(m) = [p \in Plan!Parts |-> Plan!Made(m)[p]]
    BY <2>1 DEF Plan!Made
  <2>. QED
    BY <2>2, <2>3, <2>4
<1>3. Plan!Part(m, "full").plan = m /\ Plan!Part(m, "full").form = "full"
  BY DEF Plan!Part
<1>. DEFINE less == [Plan!Made(m) EXCEPT !["tests"].form = "bare"]
<1>4. /\ less \in [Plan!Parts -> PartRecord]
      /\ \A p \in Plan!Parts : less[p].plan = m /\ less[p].form \in {"full", "bare"}
      /\ \A p \in Plan!Parts \ {"tests"} : less[p].form = "full"
  <2>1. less = [p \in Plan!Parts |->
                   IF p = "tests" THEN [Plan!Made(m)[p] EXCEPT !.form = "bare"]
                   ELSE Plan!Made(m)[p]]
    BY <1>2
  <2>. HIDE DEF less
  <2>2. \A p \in Plan!Parts \ {"tests"} : less[p] = Plan!Part(m, "full")
    BY <1>2, <2>1
  <2>3. less["tests"] = [Plan!Part(m, "full") EXCEPT !.form = "bare"]
    BY <1>2, <2>1 DEF Plan!Parts
  <2>4. less["tests"].plan = m /\ less["tests"].form = "bare" /\ less["tests"] \in PartRecord
    BY <1>1, <2>3 DEF Plan!Part, PartRecord, PlanForms
  <2>5. Plan!Part(m, "full") \in PartRecord
    BY <1>1 DEF Plan!Part, PartRecord, PlanForms
  <2>6. less \in [Plan!Parts -> PartRecord]
    <3>1. \A p \in Plan!Parts : less[p] \in PartRecord
      BY <2>2, <2>4, <2>5
    <3>2. less = [p \in Plan!Parts |-> less[p]]
      BY <2>1
    <3>. QED
      BY <3>1, <3>2
  <2>. QED
    BY <1>3, <2>2, <2>4, <2>6
<1>. HIDE DEF less
<1>5. /\ plan \in [Plan!Parts -> PartRecord]
      /\ \A p \in Plan!Parts : plan[p].plan = m /\ plan[p].form \in {"full", "bare"}
      /\ \A p \in Plan!Parts \ {"tests"} : plan[p].form = "full"
  <2>1. plan = Plan!Made(m) \/ plan = less
    BY DEF Plan!Sanitized, less
  <2>2. CASE plan = Plan!Made(m)
    BY <1>2, <1>3, <2>2
  <2>3. CASE plan = less
    BY <1>4, <2>3
  <2>. QED
    BY <2>1, <2>2, <2>3
<1>. HIDE DEF plan
<1>6. PlanOf(m, plan)
  BY <1>1, <1>5 DEF PlanOf
<1>7. Plan!_plan_bundle_is_complete(plan)
  BY <1>5 DEF Plan!_plan_bundle_is_complete, Plan!REQUIRED_PLAN_KEYS, Plan!Filled, Plan!Parts
<1>. QED
  BY <1>6, <1>7 DEF plan

\* A scan moves: it and the others stand as they should.
LEMMA ScanMoves ==
    ASSUME PlanInv, NEW s \in Scans, NEW w, scan' = [scan EXCEPT ![s] = w],
           plans' \in Nat, plans <= plans', GoodScan(w, plans')
    PROVE  /\ scan' \in [Scans -> ScanRecord]
           /\ \A u \in Scans : GoodScan(scan'[u], plans')
           /\ scan'[s] = w /\ \A u \in Scans \ {s} : scan'[u] = scan[u]
<1>1. plans \in Nat /\ scan \in [Scans -> ScanRecord]
      /\ \A u \in Scans : GoodScan(scan[u], plans)
  BY DEF PlanInv
<1>2. w \in ScanRecord
  BY DEF GoodScan
<1>3. scan'[s] = w /\ \A u \in Scans \ {s} : scan'[u] = scan[u]
  BY <1>1
<1>4. scan' \in [Scans -> ScanRecord]
  BY <1>1, <1>2
<1>5. \A u \in Scans : GoodScan(scan[u], plans')
  BY <1>1, PlansGrow
<1>. QED
  BY <1>3, <1>4, <1>5

\* A step of a scan that leaves the comments alone: it goes on from where the plan was
\* posted, or had been read, or it fails to post.
LEMMA ScanKeeps ==
    ASSUME PlanInv, NEW s \in Scans, NEW w, scan' = [scan EXCEPT ![s] = w],
           plans' \in Nat, plans <= plans', GoodScan(w, plans'), posted' \in Nat,
           stage' \in {"opened", "planning", "ready"}, GoodRun(run', plans'),
           comments' = comments, planEvents \subseteq planEvents',
           Calm' /\ (Posted(w) \/ stage' = "ready") =>
               Posted(scan[s]) \/ stage = "ready" \/ Plan!Marked(comments) # {}
    PROVE  PlanInv'
<1>1. /\ scan' \in [Scans -> ScanRecord]
      /\ \A u \in Scans : GoodScan(scan'[u], plans')
      /\ scan'[s] = w /\ \A u \in Scans \ {s} : scan'[u] = scan[u]
  BY ScanMoves
<1>2. GoodComments(comments', plans')
  <2>1. GoodComments(comments, plans) /\ plans \in Nat
    BY DEF PlanInv
  <2>. QED
    BY <2>1, PlansGrow
<1>3. CommentsKept'
  <2>1. CommentsKept
    BY DEF PlanInv
  <2>2. Calm' => Calm
    BY DEF Calm
  <2>3. planEvents' \cap {"page", "overlap"} = {} => planEvents \cap {"page", "overlap"} = {}
    OBVIOUS
  <2>4. Calm' /\ (stage' = "ready" \/ \E u \in Scans : Posted(scan'[u]))
        => Plan!Marked(comments) # {}
    <3>. SUFFICES ASSUME Calm', stage' = "ready" \/ \E u \in Scans : Posted(scan'[u])
                  PROVE  Plan!Marked(comments) # {}
      OBVIOUS
    <3>1. Calm /\ (stage = "ready" \/ (\E u \in Scans : Posted(scan[u]))
          => Plan!Marked(comments) # {})
      BY <2>1, <2>2 DEF CommentsKept
    <3>2. CASE stage' = "ready"
      BY <3>1, <3>2
    <3>3. CASE \E u \in Scans : Posted(scan'[u])
      <4>1. PICK u \in Scans : Posted(scan'[u])
        BY <3>3
      <4>2. CASE u = s
        BY <1>1, <3>1, <4>1, <4>2
      <4>3. CASE u # s
        BY <1>1, <3>1, <4>1, <4>3
      <4>. QED
        BY <4>2, <4>3
    <3>. QED
      BY <3>2, <3>3
  <2>5. Plan!Marked(comments)' = Plan!Marked(comments)
    BY DEF Plan!Marked
  <2>6. (\E u \in Scans : Posted(scan[u]))' <=> \E u \in Scans : Posted(scan'[u])
    BY DEF Posted, Plan!Marked
  <2>. QED
    BY <2>1, <2>2, <2>3, <2>4, <2>5, <2>6 DEF CommentsKept
<1>. QED
  BY <1>1, <1>2, <1>3 DEF PlanInv

\* The same, where it makes no plan.
LEMMA ScanGoesOn ==
    ASSUME PlanInv, NEW s \in Scans, NEW w, scan' = [scan EXCEPT ![s] = w], GoodScan(w, plans),
           plans' = plans, posted' = posted, run' = run, comments' = comments,
           planEvents \subseteq planEvents',
           stage' \in {"opened", "planning", "ready"},
           Calm' /\ (Posted(w) \/ stage' = "ready") =>
               Posted(scan[s]) \/ stage = "ready" \/ Plan!Marked(comments) # {}
    PROVE  PlanInv'
<1>1. plans \in Nat /\ posted \in Nat /\ GoodRun(run, plans)
  BY DEF PlanInv
<1>2. plans' \in Nat /\ plans <= plans' /\ posted' \in Nat
  BY <1>1
<1>3. GoodScan(w, plans') /\ GoodRun(run', plans')
  BY <1>1
<1>. QED
  BY <1>2, <1>3, ScanKeeps

\* What a scan knows as it begins.
LEMMA FreshScan ==
    ASSUME NEW n \in Nat
    PROVE  /\ GoodScan(Plan!Idle, n) /\ ~Posted(Plan!Idle)
           /\ \A b \in {"opened", "planning", "ready"} :
                 LET w == [Plan!Idle EXCEPT !.pc = "enrich", !.before = b]
                 IN GoodScan(w, n) /\ ~Posted(w)
<1>1. /\ Plan!Idle.pc = "idle" /\ Plan!Idle.read = <<>> /\ Plan!Idle.plan = Plan!NoPlan
      /\ Plan!Idle \in ScanRecord
  <2>1. <<>> \in Seq(CommentRecord)
    OBVIOUS
  <2>. QED
    BY <2>1, NoPlanIsOne DEF Plan!Idle, ScanRecord
<1>2. GoodComments(<<>>, n) /\ Plan!Marked(<<>>) = {}
  BY DEF GoodComments, Plan!Marked
<1>3. GoodScan(Plan!Idle, n) /\ ~Posted(Plan!Idle)
  BY <1>1, <1>2, NoPlanIsOne DEF GoodScan, Planned, Posted
<1>4. ASSUME NEW b \in {"opened", "planning", "ready"}
      PROVE  LET w == [Plan!Idle EXCEPT !.pc = "enrich", !.before = b]
             IN GoodScan(w, n) /\ ~Posted(w)
  <2>. DEFINE w == [Plan!Idle EXCEPT !.pc = "enrich", !.before = b]
  <2>1. w \in ScanRecord /\ w.pc = "enrich" /\ w.read = <<>> /\ w.plan = Plan!NoPlan
    BY <1>1 DEF ScanRecord
  <2>. HIDE DEF w
  <2>2. GoodScan(w, n) /\ ~Posted(w)
    BY <1>2, <2>1, NoPlanIsOne DEF GoodScan, Planned, Posted
  <2>. QED
    BY <2>2 DEF w
<1>. QED
  BY <1>3, <1>4

\* A scan begins.
LEMMA BeginKeeps ==
    ASSUME PlanInv, NEW s \in Scans, Plan!Begin(s)
    PROVE  PlanInv'
<1>. DEFINE w == [Plan!Idle EXCEPT !.pc = "enrich", !.before = stage]
<1>1. /\ scan' = [scan EXCEPT ![s] = w]
      /\ UNCHANGED <<incident, stage, comments, run, upsets, plans, posted, planEvents>>
  BY DEF Plan!Begin, Plan!Rest
<1>2. plans \in Nat /\ posted \in Nat /\ stage \in {"opened", "planning", "ready"}
      /\ GoodRun(run, plans)
  BY DEF PlanInv
<1>3. GoodScan(w, plans) /\ ~Posted(w)
  BY <1>2, FreshScan
<1>. HIDE DEF w
<1>4. planEvents \subseteq planEvents' /\ stage' = stage
  BY <1>1
<1>. QED
  BY <1>1, <1>2, <1>3, <1>4, ScanGoesOn

\* The record of a scan that goes on.
LEMMA ScanRests ==
    ASSUME PlanInv, NEW s \in Scans,
           NEW place \in {"enrich", "plan", "find", "post", "dispatch"},
           place \in {"find", "post", "dispatch"} => scan[s].pc \in {"find", "post", "dispatch"}
    PROVE  LET w == [scan[s] EXCEPT !.pc = place]
           IN /\ GoodScan(w, plans) /\ w.pc = place
              /\ w.read = scan[s].read /\ w.plan = scan[s].plan /\ w.source = scan[s].source
<1>. DEFINE w == [scan[s] EXCEPT !.pc = place]
<1>1. GoodScan(scan[s], plans)
  BY DEF PlanInv
<1>2. /\ w \in ScanRecord /\ w.pc = place
      /\ w.read = scan[s].read /\ w.plan = scan[s].plan /\ w.source = scan[s].source
  BY <1>1 DEF GoodScan, ScanRecord
<1>. HIDE DEF w
<1>3. GoodScan(w, plans)
  BY <1>1, <1>2 DEF GoodScan, Planned
<1>. QED
  BY <1>2, <1>3 DEF w

\* It reads the comments, or does without.
LEMMA EnrichKeeps ==
    ASSUME PlanInv, Plan!PlanAssumption, NEW s \in Scans,
           Plan!_enrich_issue_payload_with_comments(s)
    PROVE  PlanInv'
<1>1. UNCHANGED <<incident, stage, comments, run, plans, posted, planEvents>>
      /\ scan[s].pc = "enrich"
  BY DEF Plan!_enrich_issue_payload_with_comments, Plan!Rest
<1>2. /\ plans \in Nat /\ posted \in Nat /\ stage \in {"opened", "planning", "ready"}
      /\ GoodRun(run, plans) /\ GoodComments(comments, plans) /\ GoodScan(scan[s], plans)
      /\ scan \in [Scans -> ScanRecord]
  BY DEF PlanInv
<1>2a. planEvents \subseteq planEvents' /\ stage' = stage
  BY <1>1
<1>3. CASE scan' = [scan EXCEPT ![s].pc = "plan", ![s].read = Plan!Page(EnrichPage, comments)]
  <2>. DEFINE page == Plan!Page(EnrichPage, comments)
              w == [scan[s] EXCEPT !.pc = "plan", !.read = page]
  <2>1. GoodComments(page, plans) /\ Plan!Marked(page) \subseteq Plan!Marked(comments)
    BY <1>2, PageOfComments DEF Plan!PlanAssumption
  <2>2. scan' = [scan EXCEPT ![s] = w]
    BY <1>2, <1>3
  <2>. HIDE DEF page
  <2>3. /\ w \in ScanRecord /\ w.pc = "plan" /\ w.read = page /\ w.plan = scan[s].plan
    BY <1>2, <2>1 DEF ScanRecord, GoodComments
  <2>. HIDE DEF w
  <2>4. GoodScan(w, plans)
    BY <1>2, <2>1, <2>3 DEF GoodScan, Planned
  <2>5. Posted(w) => Plan!Marked(comments) # {}
    BY <2>1, <2>3 DEF Posted
  <2>. QED
    BY <1>1, <1>2, <1>2a, <2>2, <2>4, <2>5, ScanGoesOn
<1>4. CASE Plan!Goes(s, "plan")
  <2>. DEFINE w == [scan[s] EXCEPT !.pc = "plan"]
  <2>1. scan' = [scan EXCEPT ![s] = w]
    BY <1>2, <1>4 DEF Plan!Goes
  <2>2. GoodScan(w, plans) /\ w.pc = "plan" /\ w.read = scan[s].read
    BY ScanRests
  <2>. HIDE DEF w
  <2>3. Posted(w) => Posted(scan[s])
    BY <2>2 DEF Posted
  <2>. QED
    BY <1>1, <1>2, <1>2a, <2>1, <2>2, <2>3, ScanGoesOn
<1>. QED
  BY <1>3, <1>4 DEF Plan!_enrich_issue_payload_with_comments

\* It makes a plan, later than every one it read, or none.
LEMMA BuildKeeps ==
    ASSUME PlanInv, NEW s \in Scans, NEW from \in {"generated", "regenerated"}, NEW model,
           Plan!_build_issue_plan(s, from, model), stage' \in {stage, "planning"},
           UNCHANGED <<incident, comments, run, posted, planEvents>>
    PROVE  PlanInv'
<1>2. /\ plans \in Nat /\ posted \in Nat /\ stage \in {"opened", "planning", "ready"}
      /\ GoodRun(run, plans) /\ GoodScan(scan[s], plans)
      /\ scan \in [Scans -> ScanRecord]
  BY DEF PlanInv
<1>3. ASSUME NEW all, plans' = plans + 1,
             scan' = [scan EXCEPT ![s].plan = Plan!Sanitized(Plan!Made(plans + 1), all),
                                  ![s].source = from, ![s].pc = "find"]
      PROVE  PlanInv'
  <2>. DEFINE plan == Plan!Sanitized(Plan!Made(plans + 1), all)
              w == [scan[s] EXCEPT !.plan = plan, !.source = from, !.pc = "find"]
  <2>1. PlanOf(plans + 1, plan) /\ Plan!_plan_bundle_is_complete(plan)
    BY <1>2, MadeIsWhole
  <2>2. scan' = [scan EXCEPT ![s] = w]
    BY <1>2, <1>3
  <2>. HIDE DEF plan
  <2>3. /\ w \in ScanRecord /\ w.pc = "find" /\ w.read = scan[s].read /\ w.plan = plan
        /\ w.source = from
    BY <1>2, <2>1 DEF ScanRecord, PlanOf
  <2>. HIDE DEF w
  <2>4. plans + 1 \in Nat /\ plans <= plans + 1 /\ plans + 1 \in 0 .. plans + 1
    BY <1>2
  <2>5. OnePlan(Plan!_extract_plan_payload(scan[s].read), plans)
    BY <1>2, PlansRead DEF GoodScan
  <2>6. \A p \in Plan!Parts : Plan!_extract_plan_payload(scan[s].read)[p].plan < plan[p].plan
    BY <1>2, <2>1, <2>5 DEF OnePlan, PlanOf
  <2>7. GoodComments(scan[s].read, plans + 1) /\ GoodRun(run, plans + 1)
    BY <1>2, <2>4, PlansGrow DEF GoodScan
  <2>8. Planned(w)
    BY <2>1, <2>3, <2>6 DEF Planned
  <2>9. GoodScan(w, plans + 1)
    BY <2>1, <2>3, <2>4, <2>7, <2>8 DEF GoodScan, OnePlan
  <2>10. Posted(w) => Posted(scan[s])
    BY <2>3 DEF Posted
  <2>11. stage' \in {"opened", "planning", "ready"} /\ (stage' = "ready" => stage = "ready")
    BY <1>2
  <2>. QED
    BY <1>2, <1>3, <2>2, <2>4, <2>7, <2>9, <2>10, <2>11, ScanKeeps
<1>4. CASE Plan!Ends(s) /\ plans' = plans
  <2>1. GoodScan(Plan!Idle, plans) /\ ~Posted(Plan!Idle)
    BY <1>2, FreshScan
  <2>2. stage' \in {"opened", "planning", "ready"} /\ (stage' = "ready" => stage = "ready")
    BY <1>2
  <2>3. planEvents \subseteq planEvents'
    OBVIOUS
  <2>. QED
    BY <1>2, <1>4, <2>1, <2>2, <2>3, ScanGoesOn DEF Plan!Ends
<1>. QED
  BY <1>3, <1>4 DEF Plan!_build_issue_plan

\* It takes the plan it read.
LEMMA TakePlanKeeps ==
    ASSUME PlanInv, NEW s \in Scans, Plan!TakePlan(s)
    PROVE  PlanInv'
<1>1. /\ Plan!_plan_bundle_is_complete(Plan!_load_plan_from_issue(scan[s].read))
      /\ scan[s].pc = "plan"
      /\ UNCHANGED <<incident, stage, comments, run, plans, posted, planEvents>>
  BY DEF Plan!TakePlan, Plan!Rest
<1>2. /\ plans \in Nat /\ posted \in Nat /\ stage \in {"opened", "planning", "ready"}
      /\ GoodRun(run, plans) /\ GoodScan(scan[s], plans)
      /\ scan \in [Scans -> ScanRecord]
  BY DEF PlanInv
<1>. DEFINE plan == Plan!_load_plan_from_issue(scan[s].read)
            w == [scan[s] EXCEPT !.plan = plan, !.source = "issue", !.pc = "dispatch"]
<1>3. scan' = [scan EXCEPT ![s] = w]
  BY <1>2 DEF Plan!TakePlan
<1>4. /\ OnePlan(plan, plans) /\ Plan!Marked(scan[s].read) # {}
      /\ Plan!_extract_plan_payload(scan[s].read) = plan
  BY <1>1, <1>2, PlansRead DEF GoodScan
<1>5. Plan!_plan_bundle_is_complete(plan)
  BY <1>1
<1>. HIDE DEF plan
<1>6. /\ w \in ScanRecord /\ w.pc = "dispatch" /\ w.read = scan[s].read /\ w.plan = plan
      /\ w.source = "issue"
  BY <1>2, <1>4 DEF ScanRecord, OnePlan, PlanOf
<1>. HIDE DEF w
<1>7. GoodScan(w, plans)
  BY <1>2, <1>4, <1>5, <1>6 DEF GoodScan, Planned
<1>8. Posted(scan[s])
  BY <1>4 DEF Posted
<1>9. planEvents \subseteq planEvents' /\ stage' = stage
  BY <1>1
<1>. QED
  BY <1>1, <1>2, <1>3, <1>7, <1>8, <1>9, ScanGoesOn

\* A scan writes the planning comment.
LEMMA PostKeeps ==
    ASSUME PlanInv, NEW s \in Scans, NEW w, scan' = [scan EXCEPT ![s] = w], GoodScan(w, plans),
           plans' = plans, posted' \in Nat, run' = run, stage' = stage,
           planEvents \subseteq planEvents',
           GoodComments(comments', plans), Plan!Marked(comments') # {},
           planEvents' \cap {"page", "overlap"} = {} => \A i,
           j \in Plan!Marked(comments') : i = j,
           Calm => \A i \in Plan!Marked(comments') :
                      comments'[i].readable /\ Plan!_plan_bundle_is_complete(comments'[i].plan)
    PROVE  PlanInv'
<1>1. plans \in Nat /\ GoodRun(run, plans) /\ stage \in {"opened", "planning", "ready"}
  BY DEF PlanInv
<1>2. plans' \in Nat /\ plans <= plans' /\ GoodScan(w, plans')
  BY <1>1
<1>3. scan' \in [Scans -> ScanRecord] /\ \A u \in Scans : GoodScan(scan'[u], plans')
  BY <1>2, ScanMoves
<1>4. GoodComments(comments', plans') /\ GoodRun(run', plans')
  BY <1>1
<1>5. CommentsKept'
  <2>1. Calm' => Calm
    BY DEF Calm
  <2>2. Plan!Marked(comments)' = Plan!Marked(comments')
    BY DEF Plan!Marked
  <2>. QED
    BY <2>1, <2>2 DEF CommentsKept
<1>. QED
  BY <1>1, <1>2, <1>3, <1>4, <1>5 DEF PlanInv

\* The planning comment is looked for.
LEMMA FindCommentKeeps ==
    ASSUME PlanInv, Plan!PlanAssumption, NEW s \in Scans, Plan!FindComment(s)
    PROVE  PlanInv'
<1>1. UNCHANGED <<incident, stage, comments, run, plans, posted>> /\ scan[s].pc = "find"
  BY DEF Plan!FindComment
<1>2. /\ plans \in Nat /\ stage \in {"opened", "planning", "ready"}
      /\ GoodComments(comments, plans) /\ GoodScan(scan[s], plans)
      /\ scan \in [Scans -> ScanRecord]
  BY DEF PlanInv
<1>3. CASE /\ scan' = [scan EXCEPT ![s].pc = "post",
                         ![s].found = Plan!_find_planning_comment_id(Plan!Page(FindPage,
                         comments)),
                         ![s].seen = {comments[i].id : i \in Plan!Marked(comments)}]
           /\ UNCHANGED planEvents
  <2>. DEFINE spot == Plan!_find_planning_comment_id(Plan!Page(FindPage, comments))
              ids == {comments[i].id : i \in Plan!Marked(comments)}
              w == [scan[s] EXCEPT !.pc = "post", !.found = spot, !.seen = ids]
  <2>1. spot \in Nat
    BY <1>2, PageOfComments, PlansRead DEF Plan!PlanAssumption
  <2>2. ids \subseteq Nat
    BY <1>2 DEF Plan!Marked, GoodComments, GoodComment, CommentRecord
  <2>3. scan' = [scan EXCEPT ![s] = w]
    BY <1>2, <1>3
  <2>. HIDE DEF spot, ids
  <2>4. /\ w \in ScanRecord /\ w.pc = "post" /\ w.read = scan[s].read /\ w.plan = scan[s].plan
        /\ w.source = scan[s].source
    BY <1>2, <2>1, <2>2 DEF GoodScan, ScanRecord
  <2>. HIDE DEF w
  <2>5. GoodScan(w, plans)
    BY <1>1, <1>2, <2>4 DEF GoodScan, Planned
  <2>6. Posted(w) => Posted(scan[s])
    BY <2>4 DEF Posted
  <2>7. planEvents \subseteq planEvents' /\ stage' = stage
    BY <1>1, <1>3
  <2>. QED
    BY <1>1, <1>2, <2>3, <2>5, <2>6, <2>7, ScanGoesOn
<1>4. CASE Plan!Goes(s, "dispatch") /\ Plan!Happened({"unposted"})
  <2>. DEFINE w == [scan[s] EXCEPT !.pc = "dispatch"]
  <2>1. scan' = [scan EXCEPT ![s] = w]
    BY <1>2, <1>4 DEF Plan!Goes
  <2>2. GoodScan(w, plans)
    BY <1>1, ScanRests
  <2>. HIDE DEF w
  <2>3. ~Calm' /\ planEvents \subseteq planEvents'
    BY <1>4 DEF Plan!Happened, Calm
  <2>. QED
    BY <1>1, <1>2, <2>1, <2>2, <2>3, ScanGoesOn
<1>. QED
  BY <1>3, <1>4 DEF Plan!FindComment

\* It is not written.
LEMMA UnpostedKeeps ==
    ASSUME PlanInv, NEW s \in Scans, scan[s].pc = "post", Plan!Goes(s, "dispatch"),
           Plan!Happened({"unposted"}), UNCHANGED <<stage, comments, run, plans, posted>>
    PROVE  PlanInv'
<1>1. scan \in [Scans -> ScanRecord] /\ stage \in {"opened", "planning", "ready"}
  BY DEF PlanInv
<1>. DEFINE w == [scan[s] EXCEPT !.pc = "dispatch"]
<1>2. scan' = [scan EXCEPT ![s] = w]
  BY <1>1 DEF Plan!Goes
<1>3. GoodScan(w, plans)
  BY ScanRests
<1>. HIDE DEF w
<1>4. ~Calm' /\ planEvents \subseteq planEvents'
  BY DEF Plan!Happened, Calm
<1>. QED
  BY <1>1, <1>2, <1>3, <1>4, ScanGoesOn

\* What a scan writes is a complete plan.
LEMMA WrittenIsGood ==
    ASSUME PlanInv, NEW s \in Scans, scan[s].pc = "post", NEW n \in Nat
    PROVE  /\ GoodComment(Plan!Written(s, n), plans) /\ Plan!Written(s, n).marked
           /\ Plan!Written(s, n).readable
              /\ Plan!_plan_bundle_is_complete(Plan!Written(s, n).plan)
           /\ Plan!Written(s, n).id = n
<1>1. /\ scan[s].plan \in [Plan!Parts -> PartRecord] /\ OnePlan(scan[s].plan, plans)
      /\ Plan!_plan_bundle_is_complete(scan[s].plan)
  BY DEF PlanInv, GoodScan, Planned, ScanRecord
<1>2. /\ Plan!Written(s, n) \in CommentRecord /\ Plan!Written(s, n).marked
         /\ Plan!Written(s, n).readable
      /\ Plan!Written(s, n).plan = scan[s].plan /\ Plan!Written(s, n).id = n
  BY <1>1 DEF Plan!Written, CommentRecord
<1>. QED
  BY <1>1, <1>2 DEF GoodComment

\* The planning comment is written over.
LEMMA UpdateCommentKeeps ==
    ASSUME PlanInv, NEW s \in Scans, Plan!UpdateComment(s)
    PROVE  PlanInv'
<1>1. /\ UNCHANGED <<incident, stage, run, plans, posted>> /\ scan[s].pc = "post"
      /\ scan[s].found # 0 /\ Plan!Goes(s, "dispatch")
  BY DEF Plan!UpdateComment
<1>2. /\ plans \in Nat /\ posted \in Nat /\ CommentsKept
      /\ GoodComments(comments, plans) /\ scan[s] \in ScanRecord
      /\ scan \in [Scans -> ScanRecord]
  BY DEF PlanInv
<1>. DEFINE spots == {i \in DOMAIN comments : comments[i].id = scan[s].found}
            text == Plan!Written(s, scan[s].found)
<1>3. CASE /\ spots # {}
           /\ comments' = [i \in DOMAIN comments |-> IF i \in spots THEN text ELSE comments[i]]
           /\ UNCHANGED planEvents
  <2>1. /\ GoodComment(text, plans) /\ text.marked /\ text.readable
        /\ Plan!_plan_bundle_is_complete(text.plan)
    <3>1. scan[s].found \in Nat
      BY <1>2 DEF ScanRecord
    <3>. QED
      BY <1>1, <3>1, WrittenIsGood
  <2>. HIDE DEF text
  <2>2. comments \in Seq(CommentRecord)
        /\ \A i \in DOMAIN comments : GoodComment(comments[i], plans)
    BY <1>2 DEF GoodComments
  <2>3. /\ DOMAIN comments' = DOMAIN comments
        /\ \A i \in DOMAIN comments : comments'[i] = IF i \in spots THEN text ELSE comments[i]
    BY <1>3
  <2>4. spots \subseteq Plan!Marked(comments)
    BY <1>1, <2>2 DEF GoodComment, Plan!Marked
  <2>. HIDE DEF spots
  <2>5. GoodComments(comments', plans)
    <3>1. \A i \in DOMAIN comments : comments'[i] \in CommentRecord
      BY <2>1, <2>2, <2>3 DEF GoodComment
    <3>2. comments' \in Seq(CommentRecord)
      BY <1>3, <2>2, <3>1
    <3>. QED
      BY <2>1, <2>2, <2>3, <3>2 DEF GoodComments
  <2>6. Plan!Marked(comments') = Plan!Marked(comments)
    BY <2>1, <2>3, <2>4 DEF Plan!Marked
  <2>. DEFINE w == [scan[s] EXCEPT !.pc = "dispatch"]
  <2>7. scan' = [scan EXCEPT ![s] = w]
    BY <1>1, <1>2 DEF Plan!Goes
  <2>8. GoodScan(w, plans)
    BY <1>1, ScanRests
  <2>. HIDE DEF w
  <2>9. planEvents' = planEvents /\ planEvents \subseteq planEvents' /\ posted' \in Nat
        /\ Plan!Marked(comments') # {}
    BY <1>1, <1>2, <1>3, <2>4, <2>6
  <2>10. planEvents' \cap {"page", "overlap"} = {} => \A i, j \in Plan!Marked(comments') : i = j
    BY <1>2, <2>6, <2>9 DEF CommentsKept
  <2>11. Calm => \A i \in Plan!Marked(comments') :
                    comments'[i].readable /\ Plan!_plan_bundle_is_complete(comments'[i].plan)
    <3>. SUFFICES ASSUME Calm, NEW i \in Plan!Marked(comments)
                  PROVE  comments'[i].readable
                         /\ Plan!_plan_bundle_is_complete(comments'[i].plan)
      BY <2>6
    <3>1. i \in DOMAIN comments
      BY DEF Plan!Marked
    <3>2. comments[i].readable /\ Plan!_plan_bundle_is_complete(comments[i].plan)
      BY <1>2 DEF CommentsKept
    <3>. QED
      BY <2>1, <2>3, <3>1, <3>2
  <2>. QED
    BY <1>1, <2>5, <2>7, <2>8, <2>9, <2>10, <2>11, PostKeeps
<1>4. CASE Plan!Happened({"unposted"}) /\ UNCHANGED comments
  BY <1>1, <1>4, UnpostedKeeps
<1>. QED
  BY <1>3, <1>4 DEF Plan!UpdateComment

\* A comment at the end of the others.
WithComment(list, c) == Append(list, c)

\* The others stay where they are.
LEMMA OneMoreComment ==
    ASSUME NEW n \in Nat, NEW list, GoodComments(list, n), NEW c, GoodComment(c, n)
    PROVE  /\ GoodComments(WithComment(list, c), n)
           /\ WithComment(list, c)[Len(list) + 1] = c
           /\ \A i \in Plan!Marked(list) : WithComment(list, c)[i] = list[i]
           /\ Plan!Marked(WithComment(list, c)) =
                 Plan!Marked(list) \cup (IF c.marked THEN {Len(list) + 1} ELSE {})
<1>1. list \in Seq(CommentRecord) /\ c \in CommentRecord /\ Len(list) \in Nat
      /\ DOMAIN list = 1 .. Len(list)
  BY DEF GoodComments, GoodComment
<1>. DEFINE longer == WithComment(list, c)
<1>2. /\ longer \in Seq(CommentRecord) /\ DOMAIN longer = 1 .. Len(list) + 1
      /\ \A i \in 1 .. Len(list) : longer[i] = list[i]
      /\ longer[Len(list) + 1] = c
  BY <1>1 DEF WithComment
<1>. HIDE DEF longer
<1>3. \A i \in 1 .. Len(list) + 1 : i \in 1 .. Len(list) \/ i = Len(list) + 1
  BY <1>1
<1>4. 1 .. Len(list) \subseteq 1 .. Len(list) + 1 /\ Len(list) + 1 \in 1 .. Len(list) + 1
  BY <1>1
<1>5. GoodComments(longer, n)
  BY <1>1, <1>2, <1>3 DEF GoodComments
<1>6. Plan!Marked(longer) = Plan!Marked(list) \cup (IF c.marked THEN {Len(list) + 1} ELSE {})
  <2>1. CASE c.marked
    BY <1>1, <1>2, <1>3, <1>4, <2>1 DEF Plan!Marked
  <2>2. CASE ~c.marked
    BY <1>1, <1>2, <1>3, <1>4, <2>2 DEF Plan!Marked
  <2>. QED
    BY <2>1, <2>2
<1>7. \A i \in Plan!Marked(list) : longer[i] = list[i]
  BY <1>1, <1>2 DEF Plan!Marked
<1>. QED
  BY <1>2, <1>5, <1>6, <1>7 DEF longer

\* The planning comment is opened, where none was found.
LEMMA OpenCommentKeeps ==
    ASSUME PlanInv, NEW s \in Scans, Plan!OpenComment(s)
    PROVE  PlanInv'
<1>1. UNCHANGED <<incident, stage, run, plans>> /\ scan[s].pc = "post"
      /\ Plan!Goes(s, "dispatch")
  BY DEF Plan!OpenComment
<1>2. /\ plans \in Nat /\ posted \in Nat /\ CommentsKept
      /\ GoodComments(comments, plans) /\ scan \in [Scans -> ScanRecord]
  BY DEF PlanInv
<1>. DEFINE text == Plan!Written(s, posted + 1)
<1>3. CASE posted' = posted + 1 /\ comments' = Append(comments, text)
           /\ Plan!Happened(Plan!Missed(s))
  <2>1. /\ GoodComment(text, plans) /\ text.marked /\ text.readable
        /\ Plan!_plan_bundle_is_complete(text.plan)
    <3>1. posted + 1 \in Nat
      BY <1>2
    <3>. QED
      BY <1>1, <3>1, WrittenIsGood
  <2>. HIDE DEF text
  <2>. DEFINE spot == Len(comments) + 1
  <2>2. /\ GoodComments(comments', plans) /\ comments'[spot] = text
        /\ \A i \in Plan!Marked(comments) : comments'[i] = comments[i]
        /\ Plan!Marked(comments') = Plan!Marked(comments) \cup {spot}
    <3>. DEFINE longer == WithComment(comments, text)
    <3>1. /\ GoodComments(longer, plans) /\ longer[spot] = text
          /\ \A i \in Plan!Marked(comments) : longer[i] = comments[i]
          /\ Plan!Marked(longer) =
                Plan!Marked(comments) \cup (IF text.marked THEN {spot} ELSE {})
      <4>1. plans \in Nat /\ GoodComments(comments, plans) /\ GoodComment(text, plans)
        BY <1>2, <2>1
      <4>. QED
        BY ONLY <4>1, OneMoreComment
    <3>2. comments' = longer
      BY <1>3 DEF WithComment
    <3>. HIDE DEF longer, spot
    <3>. QED
      BY <2>1, <3>1, <3>2
  <2>. HIDE DEF spot
  <2>3. planEvents' = planEvents \cup Plan!Missed(s) /\ planEvents \subseteq planEvents'
        /\ posted' \in Nat
    BY <1>2, <1>3 DEF Plan!Happened
  <2>4. planEvents' \cap {"page", "overlap"} = {} => \A i, j \in Plan!Marked(comments') : i = j
    <3>1. Plan!Marked(comments) # {} => Plan!Missed(s) \cap {"page", "overlap"} # {}
      BY DEF Plan!Missed
    <3>. QED
      BY <2>2, <2>3, <3>1
  <2>5. Calm => \A i \in Plan!Marked(comments') :
                   comments'[i].readable /\ Plan!_plan_bundle_is_complete(comments'[i].plan)
    BY <1>2, <2>1, <2>2 DEF CommentsKept
  <2>. DEFINE w == [scan[s] EXCEPT !.pc = "dispatch"]
  <2>6. scan' = [scan EXCEPT ![s] = w]
    BY <1>1, <1>2 DEF Plan!Goes
  <2>7. GoodScan(w, plans)
    BY <1>1, ScanRests
  <2>. HIDE DEF w
  <2>8. Plan!Marked(comments') # {}
    BY <2>2
  <2>. QED
    BY <1>1, <2>2, <2>3, <2>4, <2>5, <2>6, <2>7, <2>8, PostKeeps
<1>4. CASE Plan!Happened({"unposted"}) /\ UNCHANGED <<comments, posted>>
  BY <1>1, <1>4, UnpostedKeeps
<1>. QED
  BY <1>3, <1>4 DEF Plan!OpenComment

\* A run of one plan, not yet at its end.
LEMMA RunStarts ==
    ASSUME NEW n \in Nat, NEW plan, OnePlan(plan, n), NEW show, NEW from,
           from = "issue" => show = plan,
           from \in {"generated", "regenerated"}
           => \A p \in Plan!Parts : show[p].plan < plan[p].plan
    PROVE  GoodRun(Plan!Started(plan, show, from), n)
<1>. DEFINE r == Plan!Started(plan, show, from)
<1>1. r = [at |-> "started", given |-> plan, shown |-> show, source |-> from,
      got |-> Plan!NoPlan]
  BY DEF Plan!Started
<1>. HIDE DEF r
<1>2. r.at = "started" /\ r.given = plan /\ r.shown = show /\ r.source = from
      /\ r.got = Plan!NoPlan
  BY <1>1
<1>3. GoodRun(r, n)
  BY <1>1, <1>2 DEF GoodRun
<1>. QED
  BY <1>3 DEF r

\* The plan is dispatched.
LEMMA DispatchKeeps ==
    ASSUME PlanInv, NEW s \in Scans, Plan!Dispatch(s)
    PROVE  PlanInv'
<1>1. /\ UNCHANGED <<incident, comments, plans, posted, planEvents>> /\ scan[s].pc = "dispatch"
      /\ scan' = [scan EXCEPT ![s] = Plan!Idle]
  BY DEF Plan!Dispatch, Plan!Rest, Plan!Ends
<1>2. /\ plans \in Nat /\ posted \in Nat /\ stage \in {"opened", "planning", "ready"}
      /\ GoodRun(run, plans) /\ GoodScan(scan[s], plans)
  BY DEF PlanInv
<1>3. GoodScan(Plan!Idle, plans)
  BY <1>2, FreshScan
<1>4. Posted(scan[s])
  BY <1>1 DEF Posted
<1>5. stage' \in {"opened", "planning", "ready"}
  BY <1>2 DEF Plan!Dispatch, Plan!Label
<1>6. GoodRun(run', plans)
  <2>1. CASE run' = Plan!Started(scan[s].plan, Plan!_extract_plan_payload(scan[s].read),
             scan[s].source)
    BY <1>1, <1>2, <2>1, RunStarts DEF GoodScan, Planned
  <2>2. CASE run' = run
    BY <1>2, <2>2
  <2>. QED
    BY <2>1, <2>2 DEF Plan!Dispatch
<1>7. plans' \in Nat /\ plans <= plans' /\ posted' \in Nat /\ GoodScan(Plan!Idle, plans')
      /\ GoodRun(run', plans') /\ planEvents \subseteq planEvents'
  BY <1>1, <1>2, <1>3, <1>6
<1>. QED
  BY <1>1, <1>4, <1>5, <1>7, ScanKeeps

\* A step of the run alone.
LEMMA RunChanges ==
    ASSUME PlanInv, GoodRun(run', plans),
           UNCHANGED <<stage, comments, scan, plans, posted, planEvents>>
    PROVE  PlanInv'
<1>1. CommentsKept'
  BY DEF PlanInv, CommentsKept, Calm, Posted, Plan!Marked
<1>. QED
  BY <1>1 DEF PlanInv

\* A person starts a run.
LEMMA RunByHandKeeps == ASSUME PlanInv, Plan!RunByHand PROVE PlanInv'
<1>1. run' = Plan!Started(Plan!NoPlan, Plan!NoPlan, "hand")
      /\ UNCHANGED <<stage, comments, scan, plans, posted, planEvents>>
  BY DEF Plan!RunByHand, Plan!Rest
<1>2. GoodRun(run', plans)
  BY <1>1, NoPlanIsOne, RunStarts DEF PlanInv
<1>. QED
  BY <1>1, <1>2, RunChanges

\* What the executor puts in the place of an artifact is of the same planning.
LEMMA SanitizedParts ==
    ASSUME NEW p, NEW part, part = [plan |-> part.plan, form |-> part.form]
    PROVE  /\ Plan!_sanitize_output_for_validation(p, part).plan = part.plan
           /\ part.form # "absent"
              => Plan!_sanitize_output_for_validation(p, part).form # "absent"
<1>. DEFINE thin == [part EXCEPT !.form = "thin"]
            held == [part EXCEPT !.form = "placeholder"]
<1>1. thin.plan = part.plan /\ thin.form = "thin" /\ held.plan = part.plan
      /\ held.form = "placeholder"
  <2>1. \A f : [part EXCEPT !.form = f] = [plan |-> part.plan, form |-> f]
    OBVIOUS
  <2>. QED
    BY <2>1
<1>2. Plan!_coerce_spec_content_for_validation(part) \in {thin, held}
  BY DEF Plan!_coerce_spec_content_for_validation
<1>3. Plan!_coerce_tests_content_for_validation(part) \in {thin, held}
  BY DEF Plan!_coerce_tests_content_for_validation
<1>. HIDE DEF thin, held
<1>4. Plan!_sanitize_output_for_validation(p, part) \in {thin, held, part}
  BY <1>2, <1>3 DEF Plan!_sanitize_output_for_validation
<1>. QED
  BY <1>1, <1>4

\* A step passes a part that is usable through; of one that is not it leaves the part, or
\* puts a new one in its place.
LEMMA PartPasses ==
    ASSUME NEW p \in Plan!Parts, NEW part \in PartRecord, part.form = "absent" => part.plan = 0,
           NEW filled \in BOOLEAN
    PROVE  LET found == Plan!get_artifact_from_context(Plan!Passthrough(p, part, filled))
           IN  IF Plan!Usable(p, part) THEN found.plan = part.plan
               ELSE found.plan = 0 \/ found = part
<1>. DEFINE found == Plan!get_artifact_from_context(Plan!Passthrough(p, part, filled))
            San(out) == Plan!_sanitize_output_for_validation(p, out)
<1>1. part = [plan |-> part.plan, form |-> part.form]
  BY DEF PartRecord
<1>2. \A form \in {"full", "empty", "bare"} : San(Plan!Part(0, form)).plan = 0
  BY SanitizedParts DEF Plan!Part
<1>3. San(part).plan = part.plan /\ (part.form # "absent" => San(part).form # "absent")
  BY <1>1, SanitizedParts
<1>4. \A form \in {"full", "empty", "bare"} : San(Plan!Part(0, form)).form # "absent"
  BY SanitizedParts DEF Plan!Part
<1>5. Plan!Absent.plan = 0
  BY DEF Plan!Absent, Plan!Part
<1>. DEFINE Left(success, out) ==
                Plan!get_artifact_from_context(Plan!_apply_output_mapping(p, part, success,
                out))
<1>6. /\ \A out : Left(TRUE, out) = San(out)
      /\ \A out : Left(FALSE, out) = IF part.form # "absent" THEN part ELSE San(out)
  BY DEF Plan!get_artifact_from_context, Plan!_apply_output_mapping
<1>7. \/ found = part /\ part.form # "absent"
      \/ part.form = "absent" /\ found.plan = 0
      \/ Plan!Usable(p, part) /\ found = San(part)
      \/ ~Plan!Usable(p, part) /\ found.plan = 0
  <2>. HIDE DEF San
  <2>1. CASE p = "spec"
    <3>1. found = Plan!get_artifact_from_context(Plan!SpecificationPassthrough(part, filled))
      BY <2>1 DEF Plan!Passthrough
    <3>2. CASE part.form = "full"
      BY <1>6, <2>1, <3>1, <3>2 DEF Plan!SpecificationPassthrough, Plan!Usable
    <3>3. CASE part.form # "full"
      <4>1. ~Plan!Usable(p, part) /\ part.form \notin {"full", "thin"}
        BY <2>1, <3>3 DEF Plan!Usable, PartRecord, PlanForms
      <4>2. CASE filled
        BY <1>2, <1>6, <2>1, <3>1, <4>1, <4>2 DEF Plan!SpecificationPassthrough,
           Plan!SpecificationWriter
      <4>3. CASE ~filled
        BY <1>2, <1>6, <2>1, <3>1, <4>1, <4>3 DEF Plan!SpecificationPassthrough
      <4>. QED
        BY <4>2, <4>3
    <3>. QED
      BY <3>2, <3>3
  <2>2. CASE p = "subtasks"
    <3>1. found = Plan!get_artifact_from_context(Plan!SubtasksPassthrough(part))
      BY <2>2 DEF Plan!Passthrough
    <3>2. Plan!Usable(p, part) <=> part.form = "full"
      BY <2>2 DEF Plan!Usable
    <3>. QED
      BY <1>2, <1>6, <2>2, <3>1, <3>2 DEF Plan!SubtasksPassthrough, Plan!TaskDecomposer
  <2>3. CASE p = "bdd"
    <3>1. found = Plan!get_artifact_from_context(Plan!BddPassthrough(part))
      BY <2>3 DEF Plan!Passthrough
    <3>2. Plan!Usable(p, part) <=> part.form = "full"
      BY <2>3 DEF Plan!Usable
    <3>. QED
      BY <1>2, <1>6, <2>3, <3>1, <3>2 DEF Plan!BddPassthrough, Plan!BDDGenerator
  <2>4. CASE p = "tests" /\ ~incident
    <3>1. found = Plan!get_artifact_from_context(Plan!TestsPassthrough(part, filled))
      BY <2>4 DEF Plan!Passthrough
    <3>2. Plan!Usable(p, part) <=> Plan!Filled(part)
      BY <2>4 DEF Plan!Usable
    <3>3. CASE part.form = "full"
      BY <1>6, <2>4, <3>1, <3>2, <3>3 DEF Plan!TestsPassthrough, Plan!Filled
    <3>4. CASE part.form # "full" /\ ~Plan!Filled(part) /\ filled
      BY <1>2, <1>6, <2>4, <3>1, <3>2, <3>4 DEF Plan!TestsPassthrough, Plan!TestGenerator
    <3>5. CASE part.form # "full" /\ ~(~Plan!Filled(part) /\ filled)
      BY <1>2, <1>6, <2>4, <3>1, <3>5 DEF Plan!TestsPassthrough
    <3>. QED
      BY <3>3, <3>4, <3>5
  <2>5. CASE p = "dod" \/ (p = "tests" /\ incident)
    <3>1. found = Plan!get_artifact_from_context([result |-> Plan!Absent, state |-> part])
      BY <2>5 DEF Plan!Passthrough
    <3>. QED
      BY <1>5, <3>1 DEF Plan!get_artifact_from_context
  <2>. QED
    BY <2>1, <2>2, <2>3, <2>4, <2>5 DEF Plan!Parts
<1>. QED
  BY <1>3, <1>7

\* The run comes to the code generator.
LEMMA GenerateCodeKeeps == ASSUME PlanInv, Plan!GenerateCode PROVE PlanInv'
<1>1. UNCHANGED <<stage, comments, scan, plans, posted, planEvents>> /\ run.at = "started"
  BY DEF Plan!GenerateCode, Plan!Rest
<1>2. PICK filled \in SUBSET {"spec", "tests"} :
         run' = [run EXCEPT !.at = "generated",
                   !.got = [p \in Plan!Parts |->
                              Plan!get_artifact_from_context(
                                 Plan!Passthrough(p, run.given[p], p \in filled))]]
  BY DEF Plan!GenerateCode
<1>. DEFINE found == [p \in Plan!Parts |-> Plan!get_artifact_from_context(
                                         Plan!Passthrough(p, run.given[p], p \in filled))]
<1>3. GoodRun(run, plans)
  BY DEF PlanInv
<1>4. run.given \in [Plan!Parts -> PartRecord]
      /\ \A p \in Plan!Parts : run.given[p].form = "absent" => run.given[p].plan = 0
  BY <1>3 DEF GoodRun, OnePlan, PlanOf
<1>5. \A p \in Plan!Parts : IF Plan!Usable(p,
      run.given[p]) THEN found[p].plan = run.given[p].plan
                       ELSE found[p].plan = 0 \/ found[p] = run.given[p]
  <2>. SUFFICES ASSUME NEW p \in Plan!Parts
                PROVE  IF Plan!Usable(p, run.given[p]) THEN found[p].plan = run.given[p].plan
                       ELSE found[p].plan = 0 \/ found[p] = run.given[p]
    OBVIOUS
  <2>1. found[p] = Plan!get_artifact_from_context(Plan!Passthrough(p, run.given[p],
        p \in filled))
    OBVIOUS
  <2>. HIDE DEF found
  <2>2. run.given[p] \in PartRecord /\ (run.given[p].form = "absent" => run.given[p].plan = 0)
        /\ (p \in filled) \in BOOLEAN
    BY <1>4
  <2>. QED
    BY <2>1, <2>2, PartPasses
<1>. HIDE DEF found
<1>6. run' = [run EXCEPT !.at = "generated", !.got = found]
  BY <1>2 DEF found
<1>7. run' = [at |-> "generated", given |-> run.given, shown |-> run.shown,
      source |-> run.source,
              got |-> found]
  <2>1. run = [at |-> run.at, given |-> run.given, shown |-> run.shown, source |-> run.source,
               got |-> run.got]
    BY <1>3 DEF GoodRun
  <2>. QED
    BY <1>6, <2>1
<1>8. /\ run'.at = "generated" /\ run'.given = run.given /\ run'.shown = run.shown
      /\ run'.source = run.source /\ run'.got = found
  BY ONLY <1>7
<1>9. GoodRun(run', plans)
  BY <1>3, <1>5, <1>7, <1>8 DEF GoodRun
<1>. QED
  BY <1>1, <1>9, RunChanges

\* People change the comments: what they write has no marker, and what they change of the others
\* nobody expects to stay.
LEMMA CommentsChange ==
    ASSUME PlanInv, UNCHANGED <<stage, scan, run, plans, posted>>,
           planEvents \subseteq planEvents',
           GoodComments(comments', plans), CommentsKept'
    PROVE  PlanInv'
  BY DEF PlanInv

\* A comment without the marker is written.
LEMMA CommentKeeps == ASSUME PlanInv, Plan!Comment PROVE PlanInv'
<1>1. UNCHANGED <<stage, scan, run, plans, posted, planEvents>>
      /\ comments' = WithComment(comments, Plan!Note)
  BY DEF Plan!Comment, Plan!Rest, WithComment
<1>2. plans \in Nat /\ GoodComments(comments, plans) /\ CommentsKept
  BY DEF PlanInv
<1>3. GoodComment(Plan!Note, plans) /\ ~Plan!Note.marked
  BY <1>2, NoPlanIsOne DEF GoodComment, Plan!Note, CommentRecord
<1>4. /\ GoodComments(comments', plans)
      /\ \A i \in Plan!Marked(comments) : comments'[i] = comments[i]
      /\ Plan!Marked(comments') = Plan!Marked(comments)
  <2>. DEFINE longer == WithComment(comments, Plan!Note)
  <2>1. /\ GoodComments(longer, plans)
        /\ \A i \in Plan!Marked(comments) : longer[i] = comments[i]
        /\ Plan!Marked(longer) =
              Plan!Marked(comments) \cup (IF Plan!Note.marked THEN {Len(comments) + 1} ELSE {})
    BY <1>2, <1>3, OneMoreComment
  <2>. HIDE DEF longer
  <2>2. Plan!Marked(longer) = Plan!Marked(comments)
    BY <1>3, <2>1
  <2>. QED
    BY <1>1, <2>1, <2>2 DEF longer
<1>5. CommentsKept'
  BY <1>1, <1>2, <1>4 DEF CommentsKept, Calm, Posted, Plan!Marked
<1>. QED
  BY <1>1, <1>4, <1>5, CommentsChange


\* Comments that were touched need not hold a plan any more.
LEMMA TouchedKeeps ==
    ASSUME PlanInv, UNCHANGED <<stage, scan, run, plans, posted>>, Plan!Happened({"touched"}),
           GoodComments(comments', plans),
           \A i, j \in Plan!Marked(comments') : (\A k, l \in Plan!Marked(comments) : k = l)
           => i = j
    PROVE  PlanInv'
<1>1. planEvents' = planEvents \cup {"touched"} /\ planEvents \subseteq planEvents'
  BY DEF Plan!Happened
<1>2. ~Calm'
  BY <1>1 DEF Calm
<1>3. planEvents' \cap {"page", "overlap"} = {} => planEvents \cap {"page", "overlap"} = {}
  BY <1>1
<1>4. planEvents' \cap {"page", "overlap"} = {} => \A i, j \in Plan!Marked(comments') : i = j
  BY <1>3 DEF PlanInv, CommentsKept
<1>5. Plan!Marked(comments)' = Plan!Marked(comments')
  BY DEF Plan!Marked
<1>6. CommentsKept'
  BY <1>2, <1>4, <1>5 DEF CommentsKept
<1>. QED
  BY <1>1, <1>6, CommentsChange

\* A part of the plan, or its JSON, is spoilt.
LEMMA EditPlanKeeps ==
    ASSUME PlanInv, Plan!PlanAssumption, NEW i \in DOMAIN comments, Plan!EditPlan(i)
    PROVE  PlanInv'
<1>1. UNCHANGED <<stage, scan, run, plans, posted>> /\ i \in Plan!Marked(comments)
      /\ Plan!Happened({"touched"})
  BY DEF Plan!EditPlan
<1>2. plans \in Nat /\ GoodComments(comments, plans)
  BY DEF PlanInv
<1>3. /\ comments \in Seq(CommentRecord)
      /\ \A j \in DOMAIN comments : GoodComment(comments[j], plans)
      /\ comments[i].marked /\ comments[i] \in CommentRecord /\ OnePlan(comments[i].plan, plans)
  <2>1. i \in DOMAIN comments /\ comments[i].marked
    BY <1>1 DEF Plan!Marked
  <2>. QED
    BY <1>2, <2>1 DEF GoodComments, GoodComment
<1>4. \E c : /\ GoodComment(c, plans) /\ c.marked = comments[i].marked
             /\ comments' = [comments EXCEPT ![i] = c]
  <2>1. CASE comments' = [comments EXCEPT ![i].readable = FALSE]
    <3>. DEFINE c == [comments[i] EXCEPT !.readable = FALSE]
    <3>1. /\ c \in CommentRecord /\ c.marked = comments[i].marked /\ ~c.readable
          /\ c.plan = comments[i].plan /\ c.id = comments[i].id
      BY <1>3 DEF CommentRecord
    <3>2. GoodComment(c, plans)
      BY <1>3, <3>1 DEF GoodComment
    <3>3. comments' = [comments EXCEPT ![i] = c]
      BY <2>1
    <3>. QED
      BY <3>1, <3>2, <3>3
  <2>2. CASE \E p \in Spoilt, form \in {"empty", "junk"} :
                comments' = [comments EXCEPT ![i].plan[p].form = form]
    <3>1. PICK p \in Spoilt, form \in {"empty", "junk"} :
                comments' = [comments EXCEPT ![i].plan[p].form = form]
      BY <2>2
    <3>2. p \in Plan!Parts
      BY DEF Plan!PlanAssumption
    <3>3. comments[i].plan \in [Plan!Parts -> PartRecord]
      BY <1>3 DEF CommentRecord
    <3>. DEFINE part == [comments[i].plan[p] EXCEPT !.form = form]
                plan == [comments[i].plan EXCEPT ![p] = part]
                c == [comments[i] EXCEPT !.plan = plan]
    <3>4. part \in PartRecord /\ part.plan = comments[i].plan[p].plan /\ part.form = form
      BY <3>2, <3>3 DEF PartRecord, PlanForms
    <3>5. comments' = [comments EXCEPT ![i] = c]
      BY <3>1
    <3>. HIDE DEF part
    <3>6. /\ plan \in [Plan!Parts -> PartRecord]
          /\ \A q \in Plan!Parts : plan[q] = IF q = p THEN part ELSE comments[i].plan[q]
      BY <3>2, <3>3, <3>4
    <3>. HIDE DEF plan
    <3>7. OnePlan(plan, plans)
      BY <1>3, <3>2, <3>4, <3>6 DEF OnePlan, PlanOf
    <3>8. /\ c \in CommentRecord /\ c.marked = comments[i].marked /\ c.plan = plan
          /\ c.id = comments[i].id /\ c.readable = comments[i].readable
      BY <1>3, <3>6 DEF CommentRecord
    <3>9. GoodComment(c, plans)
      BY <1>3, <3>7, <3>8 DEF GoodComment
    <3>. QED
      BY <3>5, <3>8, <3>9
  <2>. QED
    BY <2>1, <2>2 DEF Plan!EditPlan
<1>5. PICK c : /\ GoodComment(c, plans) /\ c.marked = comments[i].marked
               /\ comments' = [comments EXCEPT ![i] = c]
  BY <1>4
<1>6. /\ DOMAIN comments' = DOMAIN comments
      /\ \A j \in DOMAIN comments : comments'[j] = IF j = i THEN c ELSE comments[j]
  BY <1>3, <1>5
<1>7. comments' \in Seq(CommentRecord)
  BY <1>3, <1>5 DEF GoodComment
<1>8. GoodComments(comments', plans)
  BY <1>3, <1>5, <1>6, <1>7 DEF GoodComments
<1>9. Plan!Marked(comments') = Plan!Marked(comments)
  BY <1>5, <1>6 DEF Plan!Marked
<1>. QED
  BY <1>1, <1>8, <1>9, TouchedKeeps

\* A comment is deleted.
LEMMA DeleteCommentKeeps ==
    ASSUME PlanInv, NEW i \in DOMAIN comments, Plan!DeleteComment(i)
    PROVE  PlanInv'
<1>1. UNCHANGED <<stage, scan, run, plans, posted>> /\ Plan!Happened({"touched"})
      /\ comments' = SubSeq(comments, 1, i - 1) \o SubSeq(comments, i + 1, Len(comments))
  BY DEF Plan!DeleteComment
<1>2. /\ comments \in Seq(CommentRecord) /\ Len(comments) \in Nat
      /\ DOMAIN comments = 1 .. Len(comments) /\ i \in 1 .. Len(comments)
      /\ \A j \in DOMAIN comments : GoodComment(comments[j], plans)
  BY DEF PlanInv, GoodComments
<1>. DEFINE front == SubSeq(comments, 1, i - 1)
            back == SubSeq(comments, i + 1, Len(comments))
<1>3. /\ front \in Seq(CommentRecord) /\ Len(front) = i - 1
      /\ \A j \in 1 .. i - 1 : front[j] = comments[j]
  BY <1>2
<1>4. /\ back \in Seq(CommentRecord) /\ Len(back) = Len(comments) - i
      /\ \A j \in 1 .. Len(comments) - i : back[j] = comments[i + j]
  BY <1>2
<1>. HIDE DEF front, back
<1>5. comments' = front \o back
  BY <1>1 DEF front, back
<1>6. /\ comments' \in Seq(CommentRecord) /\ Len(comments') = Len(comments) - 1
      /\ DOMAIN comments' = 1 .. Len(comments) - 1
  <2>1. comments' \in Seq(CommentRecord) /\ Len(comments') = Len(front) + Len(back)
    BY <1>3, <1>4, <1>5
  <2>2. DOMAIN comments' = 1 .. Len(comments')
    BY <2>1
  <2>3. Len(front) + Len(back) = Len(comments) - 1
    BY <1>2, <1>3, <1>4
  <2>. QED
    BY <2>1, <2>2, <2>3
<1>7. \A j \in 1 .. Len(comments) - 1 :
         comments'[j] = IF j < i THEN comments[j] ELSE comments[j + 1]
  <2>. SUFFICES ASSUME NEW j \in 1 .. Len(comments) - 1
                PROVE  comments'[j] = IF j < i THEN comments[j] ELSE comments[j + 1]
    OBVIOUS
  <2>1. CASE j < i
    BY <1>2, <1>3, <1>4, <1>5, <2>1
  <2>2. CASE ~(j < i)
    <3>1. comments'[j] = back[j - (i - 1)]
      BY <1>2, <1>3, <1>4, <1>5, <2>2
    <3>2. j - (i - 1) \in 1 .. Len(comments) - i /\ i + (j - (i - 1)) = j + 1
      BY <1>2, <2>2
    <3>. QED
      BY <1>4, <2>2, <3>1, <3>2
  <2>. QED
    BY <2>1, <2>2
<1>. DEFINE was(j) == IF j < i THEN j ELSE j + 1
<1>8. \A j \in DOMAIN comments' : /\ was(j) \in DOMAIN comments
      /\ comments'[j] = comments[was(j)]
                                  /\ \A k \in DOMAIN comments' : was(j) = was(k) => j = k
  BY <1>2, <1>6, <1>7
<1>. HIDE DEF was
<1>9. GoodComments(comments', plans)
  BY <1>2, <1>6, <1>8 DEF GoodComments
<1>10. \A j, k \in Plan!Marked(comments') :
          /\ was(j) \in Plan!Marked(comments) /\ was(k) \in Plan!Marked(comments)
          /\ was(j) = was(k) => j = k
  BY <1>8 DEF Plan!Marked
<1>11. \A j, k \in Plan!Marked(comments') : (\A a, b \in Plan!Marked(comments) : a = b) => j = k
  BY <1>10
<1>. QED
  BY <1>1, <1>9, <1>11, TouchedKeeps

\* Nothing is planned yet.
LEMMA PlanInit == Plan!Init => PlanInv
<1>. SUFFICES ASSUME Plan!Init PROVE PlanInv
  OBVIOUS
<1>1. /\ stage = "opened" /\ comments \in {<<>>, <<Plan!Note>>}
         /\ scan = [s \in Scans |-> Plan!Idle]
      /\ run = Plan!NoRun /\ plans = 0 /\ posted = 0 /\ planEvents = {}
  BY DEF Plan!Init
<1>2. GoodComment(Plan!Note, 0) /\ ~Plan!Note.marked /\ Plan!Note \in CommentRecord
  BY NoPlanIsOne DEF GoodComment, Plan!Note, CommentRecord
<1>3. comments \in Seq(CommentRecord) /\ \A i \in DOMAIN comments : comments[i] = Plan!Note
  <2>. HIDE DEF Plan!Note
  <2>1. CASE comments = <<>>
    BY <2>1
  <2>2. CASE comments = <<Plan!Note>>
    BY <1>2, <2>2
  <2>. QED
    BY <1>1, <2>1, <2>2
<1>4. GoodComments(comments, 0) /\ Plan!Marked(comments) = {}
  BY <1>2, <1>3 DEF GoodComments, Plan!Marked
<1>5. GoodScan(Plan!Idle, 0) /\ ~Posted(Plan!Idle)
  BY FreshScan
<1>6. scan \in [Scans -> ScanRecord] /\ \A s \in Scans : GoodScan(scan[s], plans)
  BY <1>1, <1>5 DEF GoodScan
<1>7. CommentsKept
  BY <1>1, <1>4, <1>5 DEF CommentsKept
<1>8. GoodRun(run, plans)
  <2>1. run.at = "none" /\ run.given = Plan!NoPlan /\ run.source = "none"
    BY <1>1 DEF Plan!NoRun
  <2>. QED
    BY <1>1, <2>1, NoPlanIsOne DEF GoodRun, Plan!NoRun
<1>. QED
  BY <1>1, <1>4, <1>6, <1>7, <1>8 DEF PlanInv

\* Every step keeps what is known of a plan.
LEMMA PlanStep == ASSUME Plan!PlanAssumption PROVE PlanInv /\ [Plan!Next]_Plan!vars => PlanInv'
<1>. SUFFICES ASSUME PlanInv, [Plan!Next]_Plan!vars PROVE PlanInv'
  OBVIOUS
<1>1. ASSUME NEW s \in Scans, Plan!PlanOpened(s) PROVE PlanInv'
  <2>1. PICK model : Plan!_build_issue_plan(s, "generated", model)
    BY <1>1 DEF Plan!PlanOpened
  <2>2. stage' \in {stage, "planning"}
        /\ UNCHANGED <<incident, comments, run, posted, planEvents>>
    BY <1>1 DEF Plan!PlanOpened, Plan!Label
  <2>. QED
    BY <2>1, <2>2, BuildKeeps
<1>2. ASSUME NEW s \in Scans, Plan!PlanReady(s) PROVE PlanInv'
  <2>1. PICK model : Plan!_build_issue_plan(s, "regenerated", model)
    BY <1>2 DEF Plan!PlanReady
  <2>2. stage' \in {stage, "planning"}
        /\ UNCHANGED <<incident, comments, run, posted, planEvents>>
    BY <1>2 DEF Plan!PlanReady
  <2>. QED
    BY <2>1, <2>2, BuildKeeps
<1>3. CASE UNCHANGED Plan!vars
  <2>1. UNCHANGED <<run, stage, comments, scan, plans, posted, planEvents>>
    BY <1>3 DEF Plan!vars
  <2>2. GoodRun(run', plans)
    BY <2>1 DEF PlanInv
  <2>. QED
    BY <2>1, <2>2, RunChanges
<1>4. ASSUME NEW s \in Scans,
             \/ Plan!Begin(s) \/ Plan!_enrich_issue_payload_with_comments(s)
             \/ Plan!PlanOpened(s) \/ Plan!TakePlan(s) \/ Plan!PlanReady(s)
             \/ Plan!FindComment(s) \/ Plan!UpdateComment(s) \/ Plan!OpenComment(s)
             \/ Plan!Dispatch(s)
      PROVE  PlanInv'
  BY <1>1, <1>2, <1>4, BeginKeeps, EnrichKeeps, TakePlanKeeps, FindCommentKeeps,
     UpdateCommentKeeps, OpenCommentKeeps, DispatchKeeps
<1>5. ASSUME NEW i \in DOMAIN comments, Plan!EditPlan(i) \/ Plan!DeleteComment(i) PROVE PlanInv'
  BY <1>5, EditPlanKeeps, DeleteCommentKeeps
<1>. QED
  BY <1>3, <1>4, <1>5, RunByHandKeeps, GenerateCodeKeeps, CommentKeeps DEF Plan!Next

\* What is known of a plan says that it is kept.
LEMMA PlanImplied == PlanInv => Plan!PlanIsKept
<1>. SUFFICES ASSUME PlanInv PROVE Plan!PlanIsKept
  OBVIOUS
<1>1. GoodRun(run, plans) /\ CommentsKept
  BY DEF PlanInv
<1>2. Plan!RunFollowsPlan
  <2>1. PICK m : PlanOf(m, run.given)
    BY <1>1 DEF GoodRun, OnePlan
  <2>2. {run.given[p].plan : p \in Plan!Parts} = {m}
    BY <2>1 DEF PlanOf, Plan!Parts
  <2>3. Cardinality({run.given[p].plan : p \in Plan!Parts}) = 1
    BY <2>2, FS_Singleton
  <2>4. \A S : Plan!Cardinality(S) = Cardinality(S)
    BY DEF Plan!Cardinality, Cardinality
  <2>. QED
    BY <1>1, <2>3, <2>4 DEF Plan!RunFollowsPlan, GoodRun
<1>3. Plan!PromptShowsPlan
  BY <1>1 DEF GoodRun, Plan!PromptShowsPlan
<1>4. Plan!OnePlanningComment
  <2>1. ASSUME \A i, j \in Plan!Marked(comments) : i = j
               PROVE ~(Cardinality(Plan!Marked(comments)) > 1)
    <3>1. CASE Plan!Marked(comments) = {}
      BY <3>1, FS_EmptySet
    <3>2. CASE Plan!Marked(comments) # {}
      <4>1. PICK i : Plan!Marked(comments) = {i}
        BY <2>1, <3>2
      <4>2. Cardinality(Plan!Marked(comments)) = 1
        BY <4>1, FS_Singleton
      <4>. QED
        BY <4>2
    <3>. QED
      BY <3>1, <3>2
  <2>2. ASSUME stage = "ready", planEvents \cap {"unposted", "touched"} = {}
        PROVE  \E i \in Plan!Marked(comments) :
                  comments[i].readable /\ Plan!_plan_bundle_is_complete(comments[i].plan)
    BY <1>1, <2>2 DEF CommentsKept, Calm
  <2>3. \A S : Plan!Cardinality(S) = Cardinality(S)
    BY DEF Plan!Cardinality, Cardinality
  <2>. QED
    BY <1>1, <2>1, <2>2, <2>3 DEF Plan!OnePlanningComment, CommentsKept
<1>. QED
  BY <1>2, <1>3, <1>4 DEF Plan!PlanIsKept

-----------------------------------------------------------------------------
(* Deliveries: one is made whole or leaves nothing behind.  A step is an effect on the
   repository and then a step of the delivery itself, so the invariant takes the
   variables as parameters: it holds between the two as well. *)

DeliveryPcs == Delivery!Asking \cup {"idle", "rollback", "delivered", "failed"}
PatchFile == [file : 1..PatchFiles, by : Deliveries]
PullRecord == [name : Delivery!BranchNames, by : Deliveries,
               state : {"open", "closed", "merged"}, files : SUBSET PatchFile]
JobRecord == [pc : DeliveryPcs, name : Delivery!BranchNames, file : 1..PatchFiles,
              tries : Nat, exists : BOOLEAN]

DeliveryTyped(j, b, p) ==
    /\ j \in [Deliveries -> JobRecord]
    /\ b \in [Delivery!BranchNames -> [by : Deliveries \cup {0}, files : SUBSET PatchFile]]
    /\ p \subseteq PullRecord

\* A delivery works under the first name or its own, and its files in order.
OwnNames(j, p) ==
    /\ \A d \in Deliveries :
          /\ j[d].name \in {Delivery!Shared, d}
          /\ j[d].pc \in {"idle", "validate", "branch"} => j[d].file = 1
    /\ \A q \in p : q.name = Delivery!Shared \/ (q.name = q.by /\ j[q.by].name = q.by)

\* A branch is that of the delivery at work on it, an open pull request one that was
\* asked for; only those cut off leave others.
OfItsDelivery(j, b, p, c) ==
    /\ \A d \in Deliveries \ c : \A n \in Delivery!BranchNames : b[n].by = d =>
          /\ n = j[d].name
          /\ j[d].pc \in {"branch", "file", "pull", "rollback", "delivered"}
    /\ \A q \in p : q.state = "open" =>
          /\ b[q.name] # Delivery!Absent
          /\ q.by \in c \/ (q.name = j[q.by].name
             /\ j[q.by].pc \in {"pull", "rollback", "delivered"})

FilesOnce(b) ==
    \A n \in Delivery!BranchNames : \A f, g \in b[n].files : f.file = g.file => f = g

\* A delivery that nobody robbed has its branch, with the files it has put.
HasPut(d, j, b) ==
    /\ b[j[d].name].by = d
    /\ \A n \in 1..PatchFiles :
          n < j[d].file \/ j[d].pc = "pull" => [file |-> n, by |-> d] \in b[j[d].name].files

InHand(j, b, r) ==
    \A d \in Deliveries \ r : j[d].pc \in {"file", "pull"} => HasPut(d, j, b)

\* And what it asked for to be merged is its patch.
WholePulls(j, b, p, r) ==
    \A q \in p : q.by \notin r /\ q.name = j[q.by].name =>
        /\ q.state = "open" => b[q.name].by = q.by /\ b[q.name].files = Delivery!PatchOf(q.by)
        /\ q.state = "merged" => q.files = Delivery!PatchOf(q.by)

DeliveriesKept(j, b, p, r, c) ==
    /\ DeliveryTyped(j, b, p) /\ OwnNames(j, p) /\ OfItsDelivery(j, b, p, c)
    /\ FilesOnce(b) /\ InHand(j, b, r) /\ WholePulls(j, b, p, r)

DeliveryInv == DeliveriesKept(job, branch, pulls, robbed, cutOff)

(* The effect of a request on the repository *)

\* A branch with the files 1 to Files of one delivery has its patch, and no more.
LEMMA WholeBranch ==
    ASSUME NEW j, NEW b, NEW p, DeliveryTyped(j, b, p), FilesOnce(b), NEW d \in Deliveries,
           NEW n \in Delivery!BranchNames, Delivery!PatchOf(d) \subseteq b[n].files
    PROVE  b[n].files = Delivery!PatchOf(d)
<1>1. ASSUME NEW f \in b[n].files PROVE f \in Delivery!PatchOf(d)
  <2>1. f \in PatchFile /\ f.file \in 1..PatchFiles
    BY DEF DeliveryTyped, PatchFile
  <2>2. [file |-> f.file, by |-> d] \in b[n].files
    BY <2>1 DEF Delivery!PatchOf
  <2>3. f = [file |-> f.file, by |-> d]
    BY <2>2 DEF FilesOnce
  <2>. QED
    BY <2>1, <2>3 DEF Delivery!PatchOf
<1>. QED
  BY <1>1

\* create_branch: the branch was not there.
LEMMA BranchCreated ==
    ASSUME Delivery!DeliveryAssumption, NEW j, NEW b, NEW p, NEW r, NEW c,
           DeliveriesKept(j, b, p, r, c),
           NEW d \in Deliveries, j[d].pc = "branch", b[j[d].name] = Delivery!Absent,
           NEW b2, b2 = [b EXCEPT ![j[d].name] = [by |-> d, files |-> {}]]
    PROVE  DeliveriesKept(j, b2, p, r, c)
<1>. DEFINE m == j[d].name
<1>1. /\ DeliveryTyped(j, b, p) /\ OwnNames(j, p) /\ OfItsDelivery(j, b, p, c)
      /\ FilesOnce(b) /\ InHand(j, b, r) /\ WholePulls(j, b, p, r)
  BY DEF DeliveriesKept
<1>2. /\ m \in Delivery!BranchNames /\ b2[m] = [by |-> d, files |-> {}]
      /\ \A n \in Delivery!BranchNames : n # m => b2[n] = b[n]
      /\ 0 \notin Deliveries
  BY <1>1 DEF DeliveryTyped, JobRecord, Delivery!DeliveryAssumption
<1>3. /\ b[m].by = 0 /\ b2[m] # Delivery!Absent
      /\ \A q \in p : q \in PullRecord /\ q.name \in Delivery!BranchNames /\ q.by \in Deliveries
      /\ \A q \in p : q.state = "open" => q.name # m
  BY <1>1, <1>2 DEF Delivery!Absent, OfItsDelivery, DeliveryTyped, PullRecord
<1>4. DeliveryTyped(j, b2, p)
  BY <1>1, <1>2 DEF DeliveryTyped
<1>5. OfItsDelivery(j, b2, p, c)
  BY <1>1, <1>2, <1>3 DEF OfItsDelivery
<1>6. FilesOnce(b2)
  BY <1>1, <1>2 DEF FilesOnce
<1>7. InHand(j, b2, r)
  <2>. SUFFICES ASSUME NEW e \in Deliveries \ r, j[e].pc \in {"file", "pull"}
                PROVE  HasPut(e, j, b2)
    BY DEF InHand
  <2>1. HasPut(e, j, b) /\ j[e].name \in Delivery!BranchNames
    BY <1>1 DEF InHand, DeliveryTyped, JobRecord
  <2>2. b2[j[e].name] = b[j[e].name]
    BY <1>2, <1>3, <2>1 DEF HasPut
  <2>. QED
    BY <2>1, <2>2 DEF HasPut
<1>8. WholePulls(j, b2, p, r)
  BY <1>1, <1>2, <1>3 DEF WholePulls
<1>. QED
  BY <1>1, <1>4, <1>5, <1>6, <1>7, <1>8 DEF DeliveriesKept

\* _apply_file_change: the file was not there.
LEMMA FilePut ==
    ASSUME Delivery!DeliveryAssumption, NEW j, NEW b, NEW p, NEW r, NEW c,
           DeliveriesKept(j, b, p, r, c),
           NEW d \in Deliveries, j[d].pc = "file", b[j[d].name] # Delivery!Absent,
           \A f \in b[j[d].name].files : f.file # j[d].file,
           NEW b2, b2 = [b EXCEPT ![j[d].name].files = @ \cup {[file |-> j[d].file, by |-> d]}]
    PROVE  DeliveriesKept(j, b2, p, r, c)
<1>. DEFINE m == j[d].name
            new == [file |-> j[d].file, by |-> d]
<1>1. /\ DeliveryTyped(j, b, p) /\ OwnNames(j, p) /\ OfItsDelivery(j, b, p, c)
      /\ FilesOnce(b) /\ InHand(j, b, r) /\ WholePulls(j, b, p, r)
  BY DEF DeliveriesKept
<1>2. /\ m \in Delivery!BranchNames /\ new \in PatchFile /\ new.file = j[d].file
      /\ \A q \in p : q.name \in Delivery!BranchNames /\ q.by \in Deliveries
  BY <1>1 DEF DeliveryTyped, JobRecord, PatchFile, PullRecord
<1>3. /\ b[m] \in [by : Deliveries \cup {0}, files : SUBSET PatchFile]
      /\ b2[m].by = b[m].by /\ b2[m].files = b[m].files \cup {new}
      /\ \A n \in Delivery!BranchNames : n # m => b2[n] = b[n]
      /\ b2 \in [Delivery!BranchNames -> [by : Deliveries \cup {0}, files : SUBSET PatchFile]]
  BY <1>1, <1>2 DEF DeliveryTyped
<1>4. /\ \A n \in Delivery!BranchNames : b2[n].by = b[n].by /\ b[n].files \subseteq b2[n].files
      /\ \A n \in Delivery!BranchNames : b[n] # Delivery!Absent => b2[n] # Delivery!Absent
  <2>1. new \in b2[m].files /\ Delivery!Absent.files = {}
    BY <1>3 DEF Delivery!Absent
  <2>. QED
    BY <1>3, <2>1
<1>5. OfItsDelivery(j, b2, p, c)
  BY <1>1, <1>2, <1>4 DEF OfItsDelivery
<1>6. FilesOnce(b2)
  BY <1>1, <1>2, <1>3 DEF FilesOnce
<1>7. InHand(j, b2, r)
  <2>. SUFFICES ASSUME NEW e \in Deliveries \ r, j[e].pc \in {"file", "pull"}
                PROVE  HasPut(e, j, b2)
    BY DEF InHand
  <2>1. HasPut(e, j, b) /\ j[e].name \in Delivery!BranchNames
    BY <1>1 DEF InHand, DeliveryTyped, JobRecord
  <2>. QED
    BY <1>4, <2>1 DEF HasPut
<1>8. WholePulls(j, b2, p, r)
  <2>. SUFFICES ASSUME NEW q \in p, q.by \notin r, q.name = j[q.by].name, q.state = "open"
                PROVE  b2[q.name].by = q.by /\ b2[q.name].files = Delivery!PatchOf(q.by)
    BY <1>1 DEF WholePulls
  <2>1. b[q.name].by = q.by /\ b[q.name].files = Delivery!PatchOf(q.by)
    BY <1>1 DEF WholePulls
  <2>2. CASE q.name = m
    <3>1. new.file \in 1..PatchFiles /\ [file |-> new.file, by |-> q.by] \in b[m].files
      BY <1>1, <1>2, <2>1, <2>2 DEF Delivery!PatchOf, DeliveryTyped, JobRecord
    <3>2. [file |-> new.file, by |-> q.by].file = j[d].file
      BY <1>2
    <3>. QED
      BY <3>1, <3>2
  <2>3. CASE q.name # m
    BY <1>2, <1>3, <2>1, <2>3
  <2>. QED
    BY <2>2, <2>3
<1>9. DeliveryTyped(j, b2, p)
  BY <1>1, <1>3 DEF DeliveryTyped
<1>. QED
  BY <1>1, <1>5, <1>6, <1>7, <1>8, <1>9 DEF DeliveriesKept

\* create_pr: there was none that is open.
LEMMA PullOpened ==
    ASSUME Delivery!DeliveryAssumption, NEW j, NEW b, NEW p, NEW r, NEW c,
           DeliveriesKept(j, b, p, r, c),
           NEW d \in Deliveries, j[d].pc = "pull", b[j[d].name] # Delivery!Absent,
           NEW p2,
           p2 = p \cup {[name |-> j[d].name, by |-> d, state |-> "open", files |-> {}]}
    PROVE  DeliveriesKept(j, b, p2, r, c)
<1>. DEFINE new == [name |-> j[d].name, by |-> d, state |-> "open", files |-> {}]
<1>1. /\ DeliveryTyped(j, b, p) /\ OwnNames(j, p) /\ OfItsDelivery(j, b, p, c)
      /\ FilesOnce(b) /\ InHand(j, b, r) /\ WholePulls(j, b, p, r)
  BY DEF DeliveriesKept
<1>2. /\ new \in PullRecord /\ j[d].name \in Delivery!BranchNames
      /\ new.name = j[d].name /\ new.by = d /\ new.state = "open"
  BY <1>1 DEF DeliveryTyped, JobRecord, PullRecord
<1>3. OwnNames(j, p2)
  BY <1>1, <1>2 DEF OwnNames
<1>4. OfItsDelivery(j, b, p2, c)
  BY <1>1, <1>2 DEF OfItsDelivery
<1>5. WholePulls(j, b, p2, r)
  <2>1. ASSUME d \notin r
        PROVE  b[j[d].name].by = d /\ b[j[d].name].files = Delivery!PatchOf(d)
    <3>1. HasPut(d, j, b)
      BY <1>1, <2>1 DEF InHand
    <3>2. Delivery!PatchOf(d) \subseteq b[j[d].name].files
      BY <3>1 DEF HasPut, Delivery!PatchOf
    <3>. QED
      BY <1>1, <1>2, <3>1, <3>2, WholeBranch DEF HasPut
  <2>. QED
    BY <1>1, <1>2, <2>1 DEF WholePulls
<1>6. DeliveryTyped(j, b, p2)
  BY <1>1, <1>2 DEF DeliveryTyped
<1>. QED
  BY <1>1, <1>3, <1>4, <1>5, <1>6 DEF DeliveriesKept

(* The steps of a delivery, and of others on its branch *)

\* A pull request is one of p, or was one and is closed, now that its branch is gone.
ClosedFrom(q, p, name) ==
    \/ q \in p /\ ~(q.name = name /\ q.state = "open")
    \/ /\ q \in PullRecord /\ q.state = "closed"
       /\ \E o \in p : o.name = q.name /\ o.by = q.by /\ o.name = name

\* delete_branch, by a delivery that rolls back: its branch is gone, its pull request
\* closed, and who else is at work on the branch is robbed of it.
LEMMA BranchDeleted ==
    ASSUME Delivery!DeliveryAssumption, DeliveryInv, NEW d \in Deliveries,
           Delivery!At(d, "rollback"),
           branch' = [branch EXCEPT ![job[d].name] = Delivery!Absent],
           \A q \in pulls' : ClosedFrom(q, pulls, job[d].name),
           robbed \subseteq robbed',
           \A e \in Deliveries \ {d} :
              job[e].pc \in Delivery!Asking /\ job[e].name = job[d].name => e \in robbed'
    PROVE  /\ DeliveriesKept(job, branch', pulls', robbed', cutOff)
           /\ branch'[job[d].name] = Delivery!Absent
           /\ \A q \in pulls' : q.name = job[d].name => q.state # "open"
<1>. DEFINE m == job[d].name
<1>1. /\ DeliveryTyped(job, branch, pulls) /\ OwnNames(job, pulls)
      /\ OfItsDelivery(job, branch, pulls, cutOff)
      /\ FilesOnce(branch) /\ InHand(job, branch, robbed)
      /\ WholePulls(job, branch, pulls, robbed)
  BY DEF DeliveryInv, DeliveriesKept
<1>2. /\ m \in Delivery!BranchNames /\ branch'[m] = Delivery!Absent /\ Delivery!Absent.by = 0
         /\ Delivery!Absent.files = {}
      /\ \A n \in Delivery!BranchNames : n # m => branch'[n] = branch[n]
      /\ branch' \in [Delivery!BranchNames -> [by : Deliveries \cup {0},
         files : SUBSET PatchFile]]
      /\ 0 \notin Deliveries
  BY <1>1 DEF DeliveryTyped, JobRecord, Delivery!DeliveryAssumption, Delivery!Absent
<1>3. ASSUME NEW q \in pulls'
      PROVE  /\ q \in PullRecord /\ q.name \in Delivery!BranchNames /\ q.by \in Deliveries
             /\ q.state = "open" => q \in pulls /\ q.name # m
             /\ q.state = "merged" => q \in pulls
             /\ \E o \in pulls : o.name = q.name /\ o.by = q.by
  <2>1. ClosedFrom(q, pulls, m) /\ pulls \subseteq PullRecord
    BY <1>1 DEF DeliveryTyped
  <2>. QED
    BY <2>1 DEF ClosedFrom, PullRecord
<1>4. DeliveryTyped(job, branch', pulls')
  BY <1>1, <1>2, <1>3 DEF DeliveryTyped
<1>5. OwnNames(job, pulls')
  <2>1. ASSUME NEW q \in pulls'
        PROVE  q.name = Delivery!Shared \/ (q.name = q.by /\ job[q.by].name = q.by)
    <3>1. PICK o \in pulls : o.name = q.name /\ o.by = q.by
      BY <1>3
    <3>. QED
      BY <1>1, <3>1 DEF OwnNames
  <2>. QED
    BY <1>1, <2>1 DEF OwnNames
<1>6. OfItsDelivery(job, branch', pulls', cutOff)
  <2>1. \A e \in Deliveries \ cutOff : \A n \in Delivery!BranchNames : branch'[n].by = e =>
            /\ n = job[e].name
            /\ job[e].pc \in {"branch", "file", "pull", "rollback", "delivered"}
    BY <1>1, <1>2 DEF OfItsDelivery
  <2>2. \A q \in pulls' : q.state = "open" =>
            /\ branch'[q.name] # Delivery!Absent
            /\ \/ q.by \in cutOff
               \/ q.name = job[q.by].name /\ job[q.by].pc \in {"pull", "rollback", "delivered"}
    BY <1>1, <1>2, <1>3 DEF OfItsDelivery
  <2>. QED
    BY <2>1, <2>2 DEF OfItsDelivery
<1>7. FilesOnce(branch')
  BY <1>1, <1>2 DEF FilesOnce
<1>8. InHand(job, branch', robbed')
  <2>. SUFFICES ASSUME NEW e \in Deliveries \ robbed', job[e].pc \in {"file", "pull"}
                PROVE  HasPut(e, job, branch')
    BY DEF InHand
  <2>1. HasPut(e, job, branch) /\ job[e].name \in Delivery!BranchNames
    BY <1>1 DEF InHand, DeliveryTyped, JobRecord
  <2>2. job[e].name # m
    BY DEF Delivery!Asking, Delivery!At
  <2>3. branch'[job[e].name] = branch[job[e].name]
    BY <1>2, <2>1, <2>2
  <2>. QED
    BY <2>1, <2>3 DEF HasPut
<1>9. WholePulls(job, branch', pulls', robbed')
  <2>. SUFFICES ASSUME NEW q \in pulls', q.by \notin robbed', q.name = job[q.by].name
                PROVE  /\ q.state = "open" => branch'[q.name].by = q.by
                          /\ branch'[q.name].files = Delivery!PatchOf(q.by)
                       /\ q.state = "merged" => q.files = Delivery!PatchOf(q.by)
    BY DEF WholePulls
  <2>1. q.by \notin robbed
    OBVIOUS
  <2>2. ASSUME q.state = "open"
        PROVE  branch'[q.name].by = q.by /\ branch'[q.name].files = Delivery!PatchOf(q.by)
    BY <1>1, <1>2, <1>3, <2>1, <2>2 DEF WholePulls
  <2>3. ASSUME q.state = "merged" PROVE q.files = Delivery!PatchOf(q.by)
    BY <1>1, <1>3, <2>1, <2>3 DEF WholePulls
  <2>. QED
    BY <2>2, <2>3
<1>. QED
  BY <1>2, <1>3, <1>4, <1>5, <1>6, <1>7, <1>8, <1>9 DEF DeliveriesKept

\* A delivery goes on under its name: what it leaves behind is accounted for, and what
\* it has in hand is there.
LEMMA GoesOn ==
    ASSUME Delivery!DeliveryAssumption, NEW j, NEW b, NEW p, NEW r, NEW c,
           DeliveriesKept(j, b, p, r, c),
           NEW d \in Deliveries, NEW t \in JobRecord, t.name = j[d].name,
           t.pc \in {"idle", "validate", "branch"} => t.file = 1,
           NEW c2, c \subseteq c2,
           \/ d \in c2
           \/ t.pc \in {"pull", "rollback", "delivered"}
           \/ /\ t.pc \in {"branch", "file"} \/ \A n \in Delivery!BranchNames : b[n].by # d
              /\ \A q \in p : q.by = d => q.state # "open",
           NEW j2, j2 = [j EXCEPT ![d] = t],
           d \notin r /\ t.pc \in {"file", "pull"} => HasPut(d, j2, b)
    PROVE  DeliveriesKept(j2, b, p, r, c2)
<1>1. /\ DeliveryTyped(j, b, p) /\ OwnNames(j, p) /\ OfItsDelivery(j, b, p, c)
      /\ FilesOnce(b) /\ InHand(j, b, r) /\ WholePulls(j, b, p, r)
  BY DEF DeliveriesKept
<1>2. /\ j2[d] = t /\ j2 \in [Deliveries -> JobRecord]
      /\ \A e \in Deliveries : e # d => j2[e] = j[e]
      /\ \A e \in Deliveries : j2[e].name = j[e].name /\ j[e].name \in Delivery!BranchNames
  BY <1>1 DEF DeliveryTyped, JobRecord
<1>3. ASSUME NEW q \in p PROVE q.name \in Delivery!BranchNames /\ q.by \in Deliveries
  BY <1>1 DEF DeliveryTyped, PullRecord
<1>4. DeliveryTyped(j2, b, p)
  BY <1>1, <1>2 DEF DeliveryTyped
<1>5. OwnNames(j2, p)
  BY <1>1, <1>2, <1>3 DEF OwnNames
<1>6. OfItsDelivery(j2, b, p, c2)
  <2>1. ASSUME NEW e \in Deliveries \ c2, NEW n \in Delivery!BranchNames, b[n].by = e
        PROVE  /\ n = j2[e].name
               /\ j2[e].pc \in {"branch", "file", "pull", "rollback", "delivered"}
    BY <1>1, <1>2, <2>1 DEF OfItsDelivery
  <2>2. ASSUME NEW q \in p, q.state = "open"
        PROVE  /\ b[q.name] # Delivery!Absent
               /\ \/ q.by \in c2
                  \/ q.name = j2[q.by].name /\ j2[q.by].pc \in {"pull", "rollback", "delivered"}
    BY <1>1, <1>2, <1>3, <2>2 DEF OfItsDelivery
  <2>. QED
    BY <2>1, <2>2 DEF OfItsDelivery
<1>7. InHand(j2, b, r)
  <2>. SUFFICES ASSUME NEW e \in Deliveries \ r, j2[e].pc \in {"file", "pull"}
                PROVE  HasPut(e, j2, b)
    BY DEF InHand
  <2>1. CASE e # d
    BY <1>1, <1>2, <2>1 DEF InHand, HasPut
  <2>2. CASE e = d
    BY <1>2, <2>2
  <2>. QED
    BY <2>1, <2>2
<1>8. WholePulls(j2, b, p, r)
  BY <1>1, <1>2, <1>3 DEF WholePulls
<1>. QED
  BY <1>1, <1>4, <1>5, <1>6, <1>7, <1>8 DEF DeliveriesKept

\* And under a new name, once what it had under the first is accounted for.
LEMMA StartsAgain ==
    ASSUME Delivery!DeliveryAssumption, NEW j, NEW b, NEW p, NEW r, NEW c,
           DeliveriesKept(j, b, p, r, c),
           NEW d \in Deliveries, j[d].name = Delivery!Shared,
           NEW t \in JobRecord, t.name = d, t.pc = "validate", t.file = 1,
           NEW c2, c \subseteq c2,
           \/ d \in c2
           \/ /\ \A n \in Delivery!BranchNames : b[n].by # d
              /\ \A q \in p : q.by = d => q.state # "open",
           NEW j2, j2 = [j EXCEPT ![d] = t]
    PROVE  DeliveriesKept(j2, b, p, r, c2)
<1>1. /\ DeliveryTyped(j, b, p) /\ OwnNames(j, p) /\ OfItsDelivery(j, b, p, c)
      /\ FilesOnce(b) /\ InHand(j, b, r) /\ WholePulls(j, b, p, r)
  BY DEF DeliveriesKept
<1>2. /\ j2[d] = t /\ j2 \in [Deliveries -> JobRecord] /\ d # Delivery!Shared
      /\ \A e \in Deliveries : e # d => j2[e] = j[e]
  BY <1>1 DEF DeliveryTyped, Delivery!DeliveryAssumption, Delivery!Shared
<1>3. ASSUME NEW q \in p
      PROVE  /\ q.name \in Delivery!BranchNames /\ q.by \in Deliveries
             /\ q.by = d => q.name = Delivery!Shared
  BY <1>1, <1>2 DEF DeliveryTyped, PullRecord, OwnNames
<1>4. DeliveryTyped(j2, b, p)
  BY <1>1, <1>2 DEF DeliveryTyped
<1>5. OwnNames(j2, p)
  BY <1>1, <1>2, <1>3 DEF OwnNames
<1>6. OfItsDelivery(j2, b, p, c2)
  <2>1. ASSUME NEW e \in Deliveries \ c2, NEW n \in Delivery!BranchNames, b[n].by = e
        PROVE  /\ n = j2[e].name
               /\ j2[e].pc \in {"branch", "file", "pull", "rollback", "delivered"}
    BY <1>1, <1>2, <2>1 DEF OfItsDelivery
  <2>2. ASSUME NEW q \in p, q.state = "open"
        PROVE  /\ b[q.name] # Delivery!Absent
               /\ \/ q.by \in c2
                  \/ q.name = j2[q.by].name /\ j2[q.by].pc \in {"pull", "rollback", "delivered"}
    BY <1>1, <1>2, <1>3, <2>2 DEF OfItsDelivery
  <2>. QED
    BY <2>1, <2>2 DEF OfItsDelivery
<1>7. InHand(j2, b, r)
  <2>. SUFFICES ASSUME NEW e \in Deliveries \ r, j2[e].pc \in {"file", "pull"}
                PROVE  HasPut(e, j2, b)
    BY DEF InHand
  <2>1. e # d
    BY <1>2
  <2>. QED
    BY <1>1, <1>2, <2>1 DEF InHand, HasPut
<1>8. WholePulls(j2, b, p, r)
  BY <1>1, <1>2, <1>3 DEF WholePulls
<1>. QED
  BY <1>1, <1>4, <1>5, <1>6, <1>7, <1>8 DEF DeliveriesKept

\* A pull request is merged with what is on its branch.
LEMMA PullMerged ==
    ASSUME NEW q \in pulls, Delivery!Merge(q), DeliveryInv
    PROVE  DeliveryInv'
<1>. DEFINE new == [q EXCEPT !.state = "merged", !.files = branch[q.name].files]
<1>1. /\ DeliveryTyped(job, branch, pulls) /\ OwnNames(job, pulls)
      /\ OfItsDelivery(job, branch, pulls, cutOff)
      /\ FilesOnce(branch) /\ InHand(job, branch, robbed)
      /\ WholePulls(job, branch, pulls, robbed)
  BY DEF DeliveryInv, DeliveriesKept
<1>2. /\ UNCHANGED <<job, branch, robbed, cutOff>> /\ q.state = "open"
      /\ pulls' = (pulls \ {q}) \cup {new}
  BY DEF Delivery!Merge
<1>3. /\ q \in PullRecord /\ new.name = q.name /\ new.by = q.by /\ new.state = "merged"
      /\ new.files = branch[q.name].files
  BY <1>1 DEF DeliveryTyped, PullRecord
<1>4. new \in PullRecord
  BY <1>1, <1>3 DEF DeliveryTyped, PullRecord
<1>. HIDE DEF new
<1>0. \A p \in pulls' : p \in pulls \/ p = new
  BY <1>2
<1>5. DeliveryTyped(job', branch', pulls')
  BY <1>1, <1>2, <1>4 DEF DeliveryTyped
<1>6. OwnNames(job', pulls')
  <2>1. \A p \in pulls' : p.name = Delivery!Shared \/ (p.name = p.by /\ job[p.by].name = p.by)
    BY <1>0, <1>1, <1>3 DEF OwnNames
  <2>. QED
    BY <1>1, <1>2, <2>1 DEF OwnNames
<1>7. OfItsDelivery(job', branch', pulls', cutOff')
  BY <1>1, <1>2, <1>3 DEF OfItsDelivery
<1>8. FilesOnce(branch') /\ InHand(job', branch', robbed')
  BY <1>1, <1>2
<1>9. WholePulls(job', branch', pulls', robbed')
  <2>1. ASSUME new.by \notin robbed, new.name = job[new.by].name
        PROVE  new.files = Delivery!PatchOf(new.by)
    <3>1. branch[q.name].files = Delivery!PatchOf(q.by)
      BY <1>1, <1>2, <1>3, <2>1 DEF WholePulls
    <3>. QED
      BY <1>3, <3>1
  <2>2. UNCHANGED <<job, branch, robbed>> /\ new.state # "open"
    BY <1>2, <1>3
  <2>. QED
    BY <1>0, <1>1, <2>1, <2>2 DEF WholePulls
<1>. QED
  BY <1>5, <1>6, <1>7, <1>8, <1>9 DEF DeliveryInv, DeliveriesKept

(* The actions *)

\* A request that is granted keeps the invariant before the delivery has moved on.
LEMMA RequestGranted ==
    ASSUME Delivery!DeliveryAssumption, DeliveryInv, NEW d \in Deliveries,
           job[d].pc \in Delivery!Asking,
           Delivery!Granted(d), Delivery!Effect(d)
    PROVE  /\ DeliveriesKept(job, branch', pulls', robbed, cutOff)
           /\ Delivery!At(d, "branch") => branch'[job[d].name] = [by |-> d, files |-> {}]
           /\ Delivery!At(d, "file") =>
                 /\ branch'[job[d].name].by = branch[job[d].name].by
                 /\ branch'[job[d].name].files =
                       branch[job[d].name].files \cup {[file |-> job[d].file, by |-> d]}
<1>1. /\ DeliveriesKept(job, branch, pulls, robbed, cutOff)
      /\ DeliveryTyped(job, branch, pulls) /\ job[d].name \in Delivery!BranchNames
  BY DEF DeliveryInv, DeliveriesKept, DeliveryTyped, JobRecord
<1>2. CASE Delivery!At(d, "validate")
  BY <1>1, <1>2 DEF Delivery!Effect, Delivery!At
<1>3. CASE Delivery!At(d, "branch")
  <2>1. /\ job[d].pc = "branch" /\ branch[job[d].name] = Delivery!Absent /\ pulls' = pulls
        /\ branch' = [branch EXCEPT ![job[d].name] = [by |-> d, files |-> {}]]
    BY <1>3 DEF Delivery!Effect, Delivery!Granted, Delivery!At, Delivery!Missing
  <2>2. branch'[job[d].name] = [by |-> d, files |-> {}]
    BY <1>1, <2>1 DEF DeliveryTyped
  <2>3. DeliveriesKept(job, branch', pulls, robbed, cutOff)
    BY <1>1, <2>1, BranchCreated
  <2>. QED
    BY <1>3, <2>1, <2>2, <2>3 DEF Delivery!At
<1>4. CASE Delivery!At(d, "file")
  <2>1. /\ job[d].pc = "file" /\ branch[job[d].name] # Delivery!Absent /\ pulls' = pulls
        /\ \A f \in branch[job[d].name].files : f.file # job[d].file
        /\ branch' = [branch EXCEPT ![job[d].name].files =
                                        @ \cup {[file |-> job[d].file, by |-> d]}]
    BY <1>4 DEF Delivery!Effect, Delivery!Granted, Delivery!At, Delivery!Missing
  <2>2. /\ branch'[job[d].name].by = branch[job[d].name].by
        /\ branch'[job[d].name].files =
              branch[job[d].name].files \cup {[file |-> job[d].file, by |-> d]}
    BY <1>1, <2>1 DEF DeliveryTyped
  <2>3. DeliveriesKept(job, branch', pulls, robbed, cutOff)
    BY <1>1, <2>1, FilePut
  <2>. QED
    BY <1>4, <2>1, <2>2, <2>3 DEF Delivery!At
<1>5. CASE Delivery!At(d, "pull")
  <2>1. /\ job[d].pc = "pull" /\ branch[job[d].name] # Delivery!Absent /\ branch' = branch
        /\ pulls' = pulls \cup
              {[name |-> job[d].name, by |-> d, state |-> "open", files |-> {}]}
    BY <1>5 DEF Delivery!Effect, Delivery!Granted, Delivery!At, Delivery!Missing
  <2>2. DeliveriesKept(job, branch, pulls', robbed, cutOff)
    BY <1>1, <2>1, PullOpened
  <2>. QED
    BY <1>5, <2>1, <2>2 DEF Delivery!At
<1>. QED
  BY <1>2, <1>3, <1>4, <1>5 DEF Delivery!Asking, Delivery!At

\* A delivery at work that gives up what it was asking for: it rolls back, or is cut off.
LEMMA GivesUp ==
    ASSUME Delivery!DeliveryAssumption, NEW b, NEW p, NEW r, NEW c,
           DeliveriesKept(job, b, p, r, c),
           NEW d \in Deliveries, NEW end \in {"rollback", "failed"},
           NEW c2, c \subseteq c2, end = "failed" => d \in c2,
           NEW j2, \/ \E e \in BOOLEAN :
                         j2 = [job EXCEPT ![d].pc = end, ![d].tries = 0, ![d].exists = e]
                   \/ j2 = [job EXCEPT ![d].pc = end, ![d].tries = 0]
    PROVE  DeliveriesKept(j2, b, p, r, c2)
<1>1. job \in [Deliveries -> JobRecord]
  BY DEF DeliveriesKept, DeliveryTyped
<1>2. PICK t \in JobRecord : t.pc = end /\ t.name = job[d].name /\ j2 = [job EXCEPT ![d] = t]
  <2>1. ASSUME NEW e \in BOOLEAN,
               j2 = [job EXCEPT ![d].pc = end, ![d].tries = 0, ![d].exists = e]
        PROVE  \E t \in JobRecord : t.pc = end /\ t.name = job[d].name
               /\ j2 = [job EXCEPT ![d] = t]
    <3>. DEFINE u == [job[d] EXCEPT !.pc = end, !.tries = 0]
                t == [u EXCEPT !.exists = e]
    <3>1. u \in JobRecord /\ u.pc = end /\ u.name = job[d].name
      BY <1>1 DEF JobRecord, DeliveryPcs
    <3>2. t \in JobRecord /\ t.pc = end /\ t.name = job[d].name
      <4>. HIDE DEF u
      <4>. QED
        BY <3>1 DEF JobRecord
    <3>3. j2 = [job EXCEPT ![d] = t]
      BY <1>1, <2>1
    <3>. QED
      BY <3>2, <3>3
  <2>2. CASE j2 = [job EXCEPT ![d].pc = end, ![d].tries = 0]
    <3>. DEFINE t == [job[d] EXCEPT !.pc = end, !.tries = 0]
    <3>1. t \in JobRecord /\ t.pc = end /\ t.name = job[d].name
      BY <1>1 DEF JobRecord, DeliveryPcs
    <3>2. j2 = [job EXCEPT ![d] = t]
      BY <1>1, <2>2
    <3>. QED
      BY <3>1, <3>2
  <2>. QED
    BY <2>1, <2>2
<1>3. d \in c2 \/ t.pc \in {"pull", "rollback", "delivered"}
  BY <1>2
<1>. HIDE DEF DeliveriesKept
<1>. QED
  BY <1>2, <1>3, GoesOn

\* A delivery that moves on, or repeats its request, keeps what it has in hand.
LEMMA MovesOn ==
    ASSUME Delivery!DeliveryAssumption, DeliveryInv, NEW d \in Deliveries,
           job[d].pc \in Delivery!Asking,
           Delivery!Granted(d), Delivery!Effect(d), Delivery!Continue(d),
           UNCHANGED <<robbed, cutOff>>
    PROVE  DeliveryInv'
<1>. DEFINE m == job[d].name
<1>1. /\ DeliveriesKept(job, branch', pulls', robbed, cutOff)
         /\ DeliveriesKept(job, branch, pulls, robbed, cutOff)
      /\ Delivery!At(d, "branch") => branch'[m] = [by |-> d, files |-> {}]
      /\ Delivery!At(d, "file") =>
            /\ branch'[m].by = branch[m].by
            /\ branch'[m].files = branch[m].files \cup {[file |-> job[d].file, by |-> d]}
  BY RequestGranted DEF DeliveryInv
<1>2. /\ job \in [Deliveries -> JobRecord] /\ InHand(job, branch, robbed)
      /\ OwnNames(job, pulls) /\ OfItsDelivery(job, branch, pulls, cutOff)
      /\ OfItsDelivery(job, branch', pulls', cutOff)
      /\ DeliveryTyped(job, branch', pulls') /\ DeliveryTyped(job, branch, pulls)
      /\ PatchFiles \in Nat \ {0}
  BY <1>1 DEF DeliveriesKept, DeliveryTyped, Delivery!DeliveryAssumption
<1>3. ASSUME NEW t \in JobRecord, t.name = m, job' = [job EXCEPT ![d] = t],
             t.pc \in {"idle", "validate", "branch"} => t.file = 1,
             \/ d \in cutOff
             \/ t.pc \in {"pull", "rollback", "delivered"}
             \/ /\ t.pc \in {"branch", "file"}
                   \/ \A n \in Delivery!BranchNames : branch'[n].by # d
                /\ \A q \in pulls' : q.by = d => q.state # "open",
             d \notin robbed /\ t.pc \in {"file", "pull"} => HasPut(d, job', branch')
      PROVE  DeliveryInv'
  <2>1. DeliveriesKept(job', branch', pulls', robbed, cutOff)
    BY <1>1, <1>3, GoesOn
  <2>. QED
    BY <2>1 DEF DeliveryInv
<1>4. ASSUME ~Delivery!At(d, "pull"), d \notin cutOff
             PROVE \A q \in pulls' : q.by = d => q.state # "open"
  <2>1. pulls' = pulls /\ job[d].pc \in {"validate", "branch", "file"}
    BY <1>4 DEF Delivery!Effect, Delivery!At, Delivery!Asking
  <2>. QED
    BY <1>2, <1>4, <2>1 DEF OfItsDelivery
<1>5. CASE Delivery!At(d, "validate")
  <2>. DEFINE t == [job[d] EXCEPT !.pc = "branch", !.tries = 0]
  <2>1. t \in JobRecord /\ t.pc = "branch" /\ t.name = m /\ t.file = job[d].file
    BY <1>2 DEF JobRecord, DeliveryPcs, Delivery!Asking
  <2>2. job' = [job EXCEPT ![d] = t]
    BY <1>2, <1>5 DEF Delivery!Continue, Delivery!Proceed, Delivery!At
  <2>3. t.file = 1
    BY <1>2, <1>5, <2>1 DEF OwnNames, Delivery!At
  <2>4. ~Delivery!At(d, "pull")
    BY <1>5 DEF Delivery!At
  <2>. HIDE DEF t
  <2>. QED
    BY <1>3, <1>4, <2>1, <2>2, <2>3, <2>4
<1>6. CASE Delivery!At(d, "branch")
  <2>. DEFINE t == [job[d] EXCEPT !.pc = "file", !.tries = 0]
  <2>1. t \in JobRecord /\ t.pc = "file" /\ t.name = m /\ t.file = job[d].file
    BY <1>2 DEF JobRecord, DeliveryPcs, Delivery!Asking
  <2>2. job' = [job EXCEPT ![d] = t] /\ job'[d] = t
    BY <1>2, <1>6 DEF Delivery!Continue, Delivery!Proceed, Delivery!At
  <2>3. t.file = 1
    BY <1>2, <1>6, <2>1 DEF OwnNames, Delivery!At
  <2>4. ~Delivery!At(d, "pull")
    BY <1>6 DEF Delivery!At
  <2>. HIDE DEF t
  <2>5. HasPut(d, job', branch')
    BY <1>1, <1>6, <2>1, <2>2, <2>3 DEF HasPut
  <2>. QED
    BY <1>3, <1>4, <2>1, <2>2, <2>3, <2>4, <2>5
<1>7. CASE Delivery!At(d, "file")
  <2>1. ~Delivery!At(d, "pull") /\ job[d].pc = "file"
    BY <1>7 DEF Delivery!At
  <2>2. ASSUME d \notin robbed
        PROVE  /\ branch'[m].by = d
               /\ \A n \in 1..PatchFiles : n <= job[d].file
                  => [file |-> n, by |-> d] \in branch'[m].files
    <3>1. HasPut(d, job, branch)
      BY <1>2, <2>1, <2>2 DEF InHand
    <3>2. PICK k \in 1..PatchFiles : k = job[d].file
      BY <1>2 DEF JobRecord
    <3>3. \A n \in 1..PatchFiles : n <= k => n < k \/ n = k
      BY <3>2
    <3>. QED
      BY <1>1, <1>7, <2>1, <3>1, <3>2, <3>3 DEF HasPut
  <2>3. CASE Delivery!LastFile(job[d].file)
    <3>. DEFINE t == [job[d] EXCEPT !.pc = "pull", !.tries = 0]
    <3>1. t \in JobRecord /\ t.pc = "pull" /\ t.name = m
      BY <1>2 DEF JobRecord, DeliveryPcs, Delivery!Asking
    <3>2. job' = [job EXCEPT ![d] = t] /\ job'[d] = t
      BY <1>2, <1>7, <2>1, <2>3 DEF Delivery!Continue, Delivery!Proceed, Delivery!At
    <3>. HIDE DEF t
    <3>3. d \notin robbed => HasPut(d, job', branch')
      BY <1>2, <2>2, <2>3, <3>1, <3>2 DEF HasPut, Delivery!LastFile
    <3>. QED
      BY <1>3, <3>1, <3>2, <3>3
  <2>4. CASE ~Delivery!LastFile(job[d].file)
    <3>. DEFINE t == [job[d] EXCEPT !.file = @ + 1, !.tries = 0]
    <3>1. job[d].file \in 1..PatchFiles /\ job[d].file # PatchFiles
      BY <1>2, <2>4 DEF Delivery!LastFile, JobRecord
    <3>2. job[d].file + 1 \in 1..PatchFiles
      BY <1>2, <3>1
    <3>3. t \in JobRecord /\ t.pc = "file" /\ t.name = m /\ t.file = job[d].file + 1
      BY <1>2, <2>1, <3>2 DEF JobRecord
    <3>4. job' = [job EXCEPT ![d] = t] /\ job'[d] = t
      BY <1>2, <1>7, <2>1, <2>4 DEF Delivery!Continue, Delivery!At
    <3>. HIDE DEF t
    <3>5. \A n \in 1..PatchFiles : n < job[d].file + 1 => n <= job[d].file
      BY <3>1
    <3>6. d \notin robbed => HasPut(d, job', branch')
      BY <2>2, <3>3, <3>4, <3>5 DEF HasPut
    <3>. QED
      BY <1>3, <1>4, <2>1, <3>3, <3>4, <3>6
  <2>. QED
    BY <2>3, <2>4
<1>8. CASE Delivery!At(d, "pull")
  <2>. DEFINE t == [job[d] EXCEPT !.pc = "delivered", !.tries = 0]
  <2>1. t \in JobRecord /\ t.pc = "delivered" /\ t.name = m
    BY <1>2 DEF JobRecord, DeliveryPcs, Delivery!Asking
  <2>2. job' = [job EXCEPT ![d] = t]
    BY <1>2, <1>8 DEF Delivery!Continue, Delivery!Proceed, Delivery!At
  <2>. HIDE DEF t
  <2>. QED
    BY <1>3, <2>1, <2>2
<1>. QED
  BY <1>5, <1>6, <1>7, <1>8 DEF Delivery!Asking, Delivery!At

\* apply_patch begins.
LEMMA DeliveryBegins ==
    ASSUME Delivery!DeliveryAssumption, DeliveryInv, NEW d \in Deliveries, Delivery!Begin(d)
    PROVE  DeliveryInv'
<1>1. /\ DeliveriesKept(job, branch, pulls, robbed, cutOff) /\ job[d].pc = "idle"
      /\ job' = [job EXCEPT ![d].pc = "validate", ![d].tries = 0]
      /\ UNCHANGED <<branch, pulls, robbed, cutOff>>
  BY DEF DeliveryInv, Delivery!Begin, Delivery!Proceed, Delivery!At
<1>2. /\ job \in [Deliveries -> JobRecord] /\ OwnNames(job, pulls)
      /\ OfItsDelivery(job, branch, pulls, cutOff) /\ pulls \subseteq PullRecord
  BY <1>1 DEF DeliveriesKept, DeliveryTyped
<1>3. PICK t \in JobRecord : /\ t.pc = "validate" /\ t.name = job[d].name
      /\ t.file = job[d].file
                      /\ job' = [job EXCEPT ![d] = t]
  <2>. DEFINE u == [job[d] EXCEPT !.pc = "validate", !.tries = 0]
  <2>1. u \in JobRecord /\ u.pc = "validate" /\ u.name = job[d].name /\ u.file = job[d].file
    BY <1>2 DEF JobRecord, DeliveryPcs, Delivery!Asking
  <2>2. job' = [job EXCEPT ![d] = u]
    BY <1>1, <1>2
  <2>. QED
    BY <2>1, <2>2
<1>4. t.file = 1 /\ t.pc \notin {"file", "pull"}
  BY <1>1, <1>2, <1>3 DEF OwnNames
<1>5. \/ d \in cutOff
      \/ /\ \A n \in Delivery!BranchNames : branch[n].by # d
         /\ \A q \in pulls : q.by = d => q.state # "open"
  BY <1>1, <1>2 DEF OfItsDelivery, PullRecord
<1>6. DeliveriesKept(job', branch, pulls, robbed, cutOff)
  <2>1. DeliveriesKept(job, branch, pulls, robbed, cutOff) /\ cutOff \subseteq cutOff
    BY <1>1
  <2>. QED
    BY <1>3, <1>4, <1>5, <2>1, GoesOn
<1>. QED
  BY <1>1, <1>6 DEF DeliveryInv

\* A request that fails in passing: its effect may be there, and it is repeated, or the
\* delivery gives up.
LEMMA RequestFailsInPassing ==
    ASSUME Delivery!DeliveryAssumption, DeliveryInv, NEW d \in Deliveries,
           Delivery!FailInPassing(d)
    PROVE  DeliveryInv'
<1>1. /\ job[d].pc \in Delivery!Asking /\ robbed' = robbed
      /\ (Delivery!Granted(d) /\ Delivery!Effect(d)) \/ UNCHANGED <<branch, pulls>>
  BY DEF Delivery!FailInPassing
<1>2. /\ DeliveriesKept(job, branch', pulls', robbed, cutOff)
      /\ DeliveriesKept(job, branch, pulls, robbed, cutOff)
  BY <1>1, RequestGranted DEF DeliveryInv
<1>3. /\ job \in [Deliveries -> JobRecord] /\ OwnNames(job, pulls')
      /\ InHand(job, branch', robbed) /\ OfItsDelivery(job, branch', pulls', cutOff)
      /\ pulls' \subseteq PullRecord
  BY <1>2 DEF DeliveriesKept, DeliveryTyped
<1>4. ASSUME job' = [job EXCEPT ![d].tries = @ + 1], cutOff' = cutOff
      PROVE  DeliveryInv'
  <2>. DEFINE t == [job[d] EXCEPT !.tries = @ + 1]
  <2>1. t \in JobRecord /\ t.pc = job[d].pc /\ t.name = job[d].name /\ t.file = job[d].file
    BY <1>3 DEF JobRecord
  <2>2. job' = [job EXCEPT ![d] = t] /\ job'[d] = t
    BY <1>3, <1>4
  <2>3. t.pc \in {"idle", "validate", "branch"} => t.file = 1
    BY <1>3, <2>1 DEF OwnNames
  <2>. HIDE DEF t
  <2>4. \/ d \in cutOff
        \/ t.pc \in {"pull", "rollback", "delivered"}
        \/ /\ t.pc \in {"branch", "file"} \/ \A n \in Delivery!BranchNames : branch'[n].by # d
           /\ \A q \in pulls' : q.by = d => q.state # "open"
    BY <1>3, <2>1 DEF OfItsDelivery, PullRecord
  <2>5. d \notin robbed /\ t.pc \in {"file", "pull"} => HasPut(d, job', branch')
    BY <1>3, <2>1, <2>2 DEF InHand, HasPut
  <2>6. DeliveriesKept(job', branch', pulls', robbed, cutOff)
    BY <1>2, <2>1, <2>2, <2>3, <2>4, <2>5, GoesOn
  <2>. QED
    BY <1>1, <1>4, <2>6 DEF DeliveryInv
<1>5. ASSUME Delivery!RollBack(d, FALSE), cutOff' = cutOff
      PROVE  DeliveryInv'
  <2>1. DeliveriesKept(job', branch', pulls', robbed, cutOff)
    BY <1>2, <1>5, GivesUp DEF Delivery!RollBack
  <2>. QED
    BY <1>1, <1>5, <2>1 DEF DeliveryInv
<1>6. ASSUME Delivery!Proceed(d, "failed"), cutOff' = cutOff \cup {d}
      PROVE  DeliveryInv'
  <2>1. job' = [job EXCEPT ![d].pc = "failed", ![d].tries = 0]
    BY <1>6 DEF Delivery!Proceed
  <2>2. DeliveriesKept(job', branch', pulls', robbed, cutOff')
    <3>1. cutOff \subseteq cutOff' /\ d \in cutOff'
      BY <1>6
    <3>. QED
      BY <1>2, <2>1, <3>1, GivesUp
  <2>. QED
    BY <1>1, <2>2 DEF DeliveryInv
<1>. QED
  BY <1>4, <1>5, <1>6 DEF Delivery!FailInPassing

\* A request that is refused, or fails for good, changes nothing: the delivery rolls back.
LEMMA RollsBack ==
    ASSUME Delivery!DeliveryAssumption, DeliveryInv, NEW d \in Deliveries, NEW e \in BOOLEAN,
           Delivery!RollBack(d, e), UNCHANGED <<branch, pulls, robbed, cutOff>>
    PROVE  DeliveryInv'
<1>1. DeliveriesKept(job, branch, pulls, robbed, cutOff)
  BY DEF DeliveryInv
<1>2. DeliveriesKept(job', branch, pulls, robbed, cutOff)
  BY <1>1, GivesUp DEF Delivery!RollBack
<1>. QED
  BY <1>2 DEF DeliveryInv

\* After the rollback a delivery ends, or starts again under its own name.
LEMMA RolledBack ==
    ASSUME Delivery!DeliveryAssumption, NEW b, NEW p, NEW r, NEW c,
           DeliveriesKept(job, b, p, r, c),
           NEW d \in Deliveries, Delivery!AfterRollback(d),
           NEW c2, c \subseteq c2,
           \/ d \in c2
           \/ /\ \A n \in Delivery!BranchNames : b[n].by # d
              /\ \A q \in p : q.by = d => q.state # "open"
    PROVE  DeliveriesKept(job', b, p, r, c2)
<1>1. job \in [Deliveries -> JobRecord] /\ PatchFiles \in Nat \ {0}
  BY DEF DeliveriesKept, DeliveryTyped, Delivery!DeliveryAssumption
<1>2. CASE job[d].exists /\ job[d].name = Delivery!Shared
  <2>. DEFINE u == [job[d] EXCEPT !.pc = "validate", !.name = d, !.file = 1]
              t == [u EXCEPT !.exists = FALSE]
  <2>1. u \in JobRecord /\ u.pc = "validate" /\ u.name = d /\ u.file = 1
    <3>1. job[d] \in JobRecord /\ 1 \in 1..PatchFiles /\ d \in Delivery!BranchNames
          /\ "validate" \in DeliveryPcs
      BY <1>1 DEF DeliveryPcs, Delivery!Asking, Delivery!BranchNames
    <3>. QED
      BY <3>1 DEF JobRecord
  <2>2. t \in JobRecord /\ t.pc = "validate" /\ t.name = d /\ t.file = 1
    <3>. HIDE DEF u
    <3>. QED
      BY <2>1 DEF JobRecord
  <2>3. job' = [job EXCEPT ![d] = t]
    BY <1>2 DEF Delivery!AfterRollback, Delivery!Renamed
  <2>. HIDE DEF t, DeliveriesKept
  <2>. QED
    BY <1>2, <2>2, <2>3, StartsAgain
<1>3. CASE ~(job[d].exists /\ job[d].name = Delivery!Shared)
  <2>. DEFINE t == [job[d] EXCEPT !.pc = "failed"]
  <2>1. t \in JobRecord /\ t.pc = "failed" /\ t.name = job[d].name
    BY <1>1 DEF JobRecord, DeliveryPcs
  <2>2. job' = [job EXCEPT ![d] = t]
    BY <1>3 DEF Delivery!AfterRollback
  <2>. HIDE DEF t, DeliveriesKept
  <2>. QED
    BY <2>1, <2>2, GoesOn
<1>. QED
  BY <1>2, <1>3

\* The rollback deletes the branch, if it is there, and with it what the delivery has.
LEMMA BranchRolledBack ==
    ASSUME Delivery!DeliveryAssumption, DeliveryInv, NEW d \in Deliveries, Delivery!Rollback(d)
    PROVE  DeliveryInv'
<1>. DEFINE m == job[d].name
<1>1. /\ DeliveriesKept(job, branch, pulls, robbed, cutOff) /\ job[d].pc = "rollback"
      /\ Delivery!AfterRollback(d) /\ cutOff' = cutOff
  BY DEF DeliveryInv, Delivery!Rollback, Delivery!At
<1>2. /\ OfItsDelivery(job, branch, pulls, cutOff) /\ m \in Delivery!BranchNames
      /\ 0 \notin Deliveries
  BY <1>1 DEF DeliveriesKept, DeliveryTyped, JobRecord, Delivery!DeliveryAssumption
<1>3. /\ DeliveriesKept(job, branch', pulls', robbed', cutOff) /\ branch'[m] = Delivery!Absent
      /\ \A q \in pulls' : q.name = m => q.state # "open"
  <2>1. CASE Delivery!Deletes(d)
    <3>1. pulls' = {IF q.name = m /\ q.state = "open"
                    THEN [q EXCEPT !.state = "closed"] ELSE q : q \in pulls}
      BY <2>1 DEF Delivery!Rollback
    <3>2. ASSUME NEW q \in pulls' PROVE ClosedFrom(q, pulls, m)
      <4>1. PICK o \in pulls : q = IF o.name = m /\ o.state = "open"
                                   THEN [o EXCEPT !.state = "closed"] ELSE o
        BY <3>1
      <4>2. o \in PullRecord
        BY <1>1 DEF DeliveriesKept, DeliveryTyped
      <4>3. CASE o.name = m /\ o.state = "open"
        <5>1. q = [o EXCEPT !.state = "closed"]
          BY <4>1, <4>3
        <5>2. q \in PullRecord /\ q.state = "closed" /\ q.name = o.name /\ q.by = o.by
          BY <4>2, <5>1 DEF PullRecord
        <5>. QED
          BY <4>3, <5>2 DEF ClosedFrom
      <4>4. CASE ~(o.name = m /\ o.state = "open")
        BY <4>1, <4>4 DEF ClosedFrom
      <4>. QED
        BY <4>3, <4>4
    <3>3. /\ branch' = [branch EXCEPT ![job[d].name] = Delivery!Absent]
          /\ robbed \subseteq robbed'
          /\ \A e \in Deliveries \ {d} :
                job[e].pc \in Delivery!Asking /\ job[e].name = job[d].name => e \in robbed'
      BY <2>1 DEF Delivery!Rollback, Delivery!Working
    <3>4. /\ DeliveriesKept(job, branch', pulls', robbed', cutOff)
          /\ branch'[job[d].name] = Delivery!Absent
          /\ \A q \in pulls' : q.name = job[d].name => q.state # "open"
      BY <3>2, <3>3, BranchDeleted DEF Delivery!Rollback
    <3>. QED
      BY <3>4
  <2>2. CASE ~Delivery!Deletes(d)
    <3>1. UNCHANGED <<branch, pulls, robbed>> /\ branch[m] = Delivery!Absent
      BY <2>2 DEF Delivery!Rollback, Delivery!Deletes, Delivery!Missing
    <3>2. \A q \in pulls : q.name = m => q.state # "open"
      BY <1>2, <3>1 DEF OfItsDelivery
    <3>. QED
      BY <1>1, <3>1, <3>2
  <2>. QED
    BY <2>1, <2>2
<1>4. \/ d \in cutOff
      \/ /\ \A n \in Delivery!BranchNames : branch'[n].by # d
         /\ \A q \in pulls' : q.by = d => q.state # "open"
  BY <1>1, <1>2, <1>3 DEF DeliveriesKept, OfItsDelivery, Delivery!Absent
<1>5. DeliveriesKept(job', branch', pulls', robbed', cutOff)
  BY <1>1, <1>3, <1>4, RolledBack
<1>. QED
  BY <1>1, <1>5 DEF DeliveryInv

\* Every step of the deliveries.
LEMMA DeliveryStep ==
    ASSUME Delivery!DeliveryAssumption, DeliveryInv, [Delivery!Next]_Delivery!vars
    PROVE  DeliveryInv'
<1>1. ASSUME NEW d \in Deliveries, Delivery!Begin(d) PROVE DeliveryInv'
  BY <1>1, DeliveryBegins
<1>2. ASSUME NEW d \in Deliveries, Delivery!Succeed(d) PROVE DeliveryInv'
  BY <1>2, MovesOn DEF Delivery!Succeed
<1>3. ASSUME NEW d \in Deliveries, Delivery!Refuse(d) PROVE DeliveryInv'
  BY <1>3, RollsBack DEF Delivery!Refuse
<1>4. ASSUME NEW d \in Deliveries, Delivery!FailForGood(d) PROVE DeliveryInv'
  BY <1>4, RollsBack DEF Delivery!FailForGood
<1>5. ASSUME NEW d \in Deliveries, Delivery!FailInPassing(d) PROVE DeliveryInv'
  BY <1>5, RequestFailsInPassing
<1>6. ASSUME NEW d \in Deliveries, Delivery!Rollback(d) PROVE DeliveryInv'
  BY <1>6, BranchRolledBack
<1>7. ASSUME NEW d \in Deliveries, Delivery!RollbackFails(d) PROVE DeliveryInv'
  <2>1. /\ DeliveriesKept(job, branch, pulls, robbed, cutOff) /\ Delivery!AfterRollback(d)
        /\ cutOff' = cutOff \cup {d} /\ UNCHANGED <<branch, pulls, robbed>>
    BY <1>7 DEF Delivery!RollbackFails, DeliveryInv
  <2>2. DeliveriesKept(job', branch, pulls, robbed, cutOff')
    BY <2>1, RolledBack
  <2>. QED
    BY <2>1, <2>2 DEF DeliveryInv
<1>8. ASSUME NEW q \in pulls, Delivery!Merge(q) PROVE DeliveryInv'
  BY <1>8, PullMerged
<1>9. CASE UNCHANGED Delivery!vars
  BY <1>9 DEF Delivery!vars, DeliveryInv
<1>. QED
  BY <1>1, <1>2, <1>3, <1>4, <1>5, <1>6, <1>7, <1>8, <1>9 DEF Delivery!Next

\* Nothing is delivered yet.
LEMMA DeliveryInit == Delivery!DeliveryAssumption /\ Delivery!Init => DeliveryInv
<1>. SUFFICES ASSUME Delivery!DeliveryAssumption, Delivery!Init PROVE DeliveryInv
  OBVIOUS
<1>. DEFINE t == [pc |-> "idle", name |-> Delivery!Shared, file |-> 1, tries |-> 0,
     exists |-> FALSE]
<1>1. t \in JobRecord
  BY DEF Delivery!DeliveryAssumption, JobRecord, DeliveryPcs, Delivery!BranchNames
<1>2. /\ Delivery!Absent \in [by : Deliveries \cup {0}, files : SUBSET PatchFile]
      /\ Delivery!Absent.by = 0 /\ Delivery!Absent.files = {} /\ 0 \notin Deliveries
  BY DEF Delivery!Absent, Delivery!DeliveryAssumption
<1>3. job \in [Deliveries -> JobRecord] /\ pulls = {} /\ \A d \in Deliveries : job[d] = t
  BY <1>1 DEF Delivery!Init
<1>4. branch \in [Delivery!BranchNames -> [by : Deliveries \cup {0}, files : SUBSET PatchFile]]
  BY <1>2 DEF Delivery!Init
<1>5. \A n \in Delivery!BranchNames : branch[n].by = 0 /\ branch[n].files = {}
  BY <1>2 DEF Delivery!Init
<1>. QED
  BY <1>2, <1>3, <1>4, <1>5
     DEF DeliveryInv, DeliveriesKept, DeliveryTyped, OwnNames, OfItsDelivery, FilesOnce,
     InHand, WholePulls

\* What is known of a delivery says that it is made whole or leaves nothing behind.
LEMMA DeliveryImplied == DeliveryInv => Delivery!AllOrNothing
  BY DEF DeliveryInv, DeliveriesKept, WholePulls, OfItsDelivery, DeliveryTyped, PullRecord,
     Delivery!At, Delivery!AllOrNothing,
     Delivery!DeliveredIsWhole, Delivery!NothingIsLeftBehind
=============================================================================
