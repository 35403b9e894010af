--------------------------- MODULE SchedulesProofs ---------------------------
(***************************************************************************)
(* What MCSchedules says of its three parts, for every value of the        *)
(* constants: the types, the overlapping runs of the observatory, the      *)
(* marts that a smooth bootstrap leaves.  The parts share no variable, so  *)
(* each has its own inductive invariant; fairness is not used.             *)
(***************************************************************************)
EXTENDS MCSchedules, FiniteSetTheorems, TLAPS

-----------------------------------------------------------------------------
(* The observatory *)

\* Runs that are live together are noted as such.
OverlapNoted ==
    \A r, s \in Runs : (r # s /\ Observatory!Live(r) /\ Observatory!Live(s)) => {r, s} \in together

\* The run has the answer of its search and has not filed yet.
PastSearch(r) == agent[r].pc \in {"corroborate", "file"}

\* What was filed about a run's problem since it searched is by a run it overlaps
\* with.
SearchHolds ==
    \A r \in Runs : PastSearch(r) =>
       \A f \in agent[r].on, i \in issues :
          (i.about = f /\ i.by # r) => {i.by, r} \in together

\* A run has found the ids of labels that exist.
IdsAreSeeded == \A r \in Runs : agent[r].ids \subseteq Seeded

\* Inductive invariant of the observatory.
ObservatoryInv ==
    /\ Observatory!ObservatoryTypeOK /\ IdsAreSeeded
    /\ OverlapNoted /\ SearchHolds /\ OneIssuePerFingerprint

\* Only run r goes on.
Moves(r) ==
    /\ agent' \in [Runs -> Observatory!RunRecord]
    /\ \A q \in Runs : /\ Observatory!Cardinality(agent'[q].on) <= 1
                       /\ agent'[q].ids \subseteq Seeded
    /\ \A q \in Runs \ {r} : agent'[q] = agent[q]

\* Cardinality is the same operator in all modules.
LEMMA SameCardinality ==
    /\ \A S : Observatory!Cardinality(S) = Cardinality(S)
    /\ \A S : Governance!Cardinality(S) = Cardinality(S)
    /\ \A S : Governance!IsFiniteSet(S) = IsFiniteSet(S)
  BY DEF Observatory!Cardinality, Governance!Cardinality, Governance!IsFiniteSet,
         Observatory!IsFiniteSet, Cardinality, IsFiniteSet

\* A run holds one problem or none.
LEMMA OneProblem ==
    Observatory!Cardinality({}) <= 1 /\ \A f : Observatory!Cardinality({f}) <= 1
  <1>1. Cardinality({}) = 0 /\ \A f : Cardinality({f}) = 1
    BY FS_EmptySet, FS_Singleton
  <1>. QED
    BY <1>1, SameCardinality

\* A new record for one run is typed as a whole.
LEMMA PutMoves ==
    ASSUME Observatory!ObservatoryTypeOK, IdsAreSeeded, NEW r \in Runs,
           NEW x \in Observatory!RunRecord, Observatory!Cardinality(x.on) <= 1,
           x.ids \subseteq Seeded, agent' = [agent EXCEPT ![r] = x]
    PROVE  Moves(r) /\ agent'[r] = x
  BY DEF Observatory!ObservatoryTypeOK, IdsAreSeeded, Moves

\* Goto changes the program counter of one run.
LEMMA GotoMoves ==
    ASSUME Observatory!ObservatoryTypeOK, IdsAreSeeded, NEW r \in Runs,
           NEW pc \in {"dedup", "file", "labels", "result", "resolve", "signals", "confirm", "corroborate"},
           Observatory!Goto(r, pc)
    PROVE  Moves(r) /\ agent'[r].pc = pc /\ agent'[r].on = agent[r].on
  <1>. DEFINE x == [agent[r] EXCEPT !.pc = pc]
  <1>1. /\ agent[r] \in Observatory!RunRecord /\ agent[r].ids \subseteq Seeded
        /\ Observatory!Cardinality(agent[r].on) <= 1
    BY DEF Observatory!ObservatoryTypeOK, IdsAreSeeded
  <1>2. x \in Observatory!RunRecord /\ x.on = agent[r].on /\ x.pc = pc /\ x.ids = agent[r].ids
    BY <1>1 DEF Observatory!RunRecord
  <1>3. agent' = [agent EXCEPT ![r] = x]
    BY DEF Observatory!Goto, Observatory!ObservatoryTypeOK
  <1>. HIDE DEF x
  <1>. QED
    BY <1>1, <1>2, <1>3, PutMoves

\* The end of a run frees its record.
LEMMA ResetMoves ==
    ASSUME Observatory!ObservatoryTypeOK, IdsAreSeeded, NEW r \in Runs,
           agent' = [agent EXCEPT ![r] = Observatory!Idle]
    PROVE  Moves(r) /\ agent'[r].pc = "idle"
  <1>1. Observatory!Idle \in Observatory!RunRecord /\ Observatory!Idle.on = {}
        /\ Observatory!Idle.pc = "idle" /\ Observatory!Idle.ids = {}
    BY DEF Observatory!Idle, Observatory!RunRecord
  <1>. QED
    BY <1>1, PutMoves, OneProblem

\* A run that goes on without filing keeps the invariant: it was live before,
\* and past its search it has searched before or now found nothing.
LEMMA GoesOnKeeps ==
    ASSUME ObservatoryInv, NEW r \in Runs, Moves(r), Observatory!Live(r),
           agent'[r].pc \in {"corroborate", "file"} =>
              \/ PastSearch(r) /\ agent'[r].on = agent[r].on
              \/ \A f \in agent'[r].on, i \in issues : i.about # f,
           \A i \in issues' : \E j \in issues : j.by = i.by /\ j.about = i.about,
           issues' \subseteq [by : Runs, about : Fingerprints, labels : SUBSET Seeded],
           trace' \in [Runs -> {"none", "running", "completed", "failed"}],
           labelIds' \subseteq Seeded, firing' = firing, together' = together
    PROVE  ObservatoryInv'
  <1>1. Observatory!ObservatoryTypeOK' /\ IdsAreSeeded'
    BY DEF ObservatoryInv, Observatory!ObservatoryTypeOK, IdsAreSeeded, Moves,
           Observatory!RunRecord
  <1>2. \A q \in Runs : Observatory!Live(q)' => Observatory!Live(q)
    BY DEF Moves, Observatory!Live
  <1>3. OverlapNoted'
    BY <1>2 DEF ObservatoryInv, OverlapNoted
  <1>4. OneIssuePerFingerprint'
    <2>. SUFFICES ASSUME NEW i \in issues', NEW j \in issues', i.about = j.about, i.by # j.by
                  PROVE  {i.by, j.by} \in together
      BY DEF OneIssuePerFingerprint, Observatory!OneIssuePerFingerprint
    <2>1. PICK k \in issues : k.by = i.by /\ k.about = i.about
      OBVIOUS
    <2>2. PICK l \in issues : l.by = j.by /\ l.about = j.about
      OBVIOUS
    <2>3. {k.by, l.by} \in together
      BY <2>1, <2>2 DEF ObservatoryInv, OneIssuePerFingerprint, Observatory!OneIssuePerFingerprint
    <2>. QED
      BY <2>1, <2>2, <2>3
  <1>5. SearchHolds'
    <2>. SUFFICES ASSUME NEW q \in Runs, agent'[q].pc \in {"corroborate", "file"},
                         NEW f \in agent'[q].on, NEW i \in issues', i.about = f, i.by # q
                  PROVE  {i.by, q} \in together
      BY DEF SearchHolds, PastSearch
    <2>1. PICK j \in issues : j.by = i.by /\ j.about = i.about
      OBVIOUS
    <2>2. PastSearch(q) /\ agent'[q].on = agent[q].on
      <3>1. q # r => agent'[q] = agent[q]
        BY DEF Moves
      <3>. QED
        BY <2>1, <3>1 DEF PastSearch
    <2>4. {j.by, q} \in together
      BY <2>1, <2>2 DEF ObservatoryInv, SearchHolds
    <2>. QED
      BY <2>1, <2>4
  <1>. QED
    BY <1>1, <1>3, <1>4, <1>5 DEF ObservatoryInv

\* A run files about its problem; its answer may be lost.
LEMMA FileIssueKeeps ==
    ASSUME ObservatoryInv, NEW r \in Runs, Observatory!FileIssue(r)
    PROVE  ObservatoryInv'
  <1>. DEFINE New(f) == Observatory!Issue(r, f)
  <1>1. /\ PastSearch(r) /\ Observatory!Live(r)
        /\ UNCHANGED <<firing, trace, labelIds, together>>
    BY DEF Observatory!FileIssue, Observatory!At, Observatory!Live, PastSearch
  <1>2. /\ Observatory!ObservatoryTypeOK /\ agent[r] \in Observatory!RunRecord
        /\ Observatory!Cardinality(agent[r].on) <= 1
        /\ IdsAreSeeded /\ agent[r].ids \subseteq Seeded
    BY DEF ObservatoryInv, Observatory!ObservatoryTypeOK, IdsAreSeeded
  <1>3. CASE Observatory!Goto(r, "result") /\ UNCHANGED issues
    <2>1. Moves(r) /\ agent'[r].pc = "result"
      BY <1>2, <1>3, GotoMoves
    <2>. QED
      BY <1>1, <1>2, <1>3, <2>1, GoesOnKeeps DEF Observatory!ObservatoryTypeOK
  <1>4. ASSUME NEW f \in agent[r].on, NEW answered \in BOOLEAN,
               issues' = issues \cup {New(f)},
               agent' = IF answered
                        THEN [agent EXCEPT ![r].pc = "resolve", ![r].todo = IssueLabels]
                        ELSE [agent EXCEPT ![r].pc = "result"]
        PROVE  ObservatoryInv'
    <2>0. f \in Fingerprints
      BY <1>2 DEF Observatory!RunRecord
    <2>1. Moves(r) /\ agent'[r].pc \in {"resolve", "result"}
      <3>1. CASE answered
        <4>. DEFINE x == [agent[r] EXCEPT !.pc = "resolve", !.todo = IssueLabels]
        <4>1. x \in Observatory!RunRecord /\ x.on = agent[r].on /\ x.pc = "resolve"
              /\ x.ids = agent[r].ids
          BY <1>2 DEF Observatory!RunRecord
        <4>2. agent' = [agent EXCEPT ![r] = x]
          BY <1>4, <1>2, <3>1 DEF Observatory!ObservatoryTypeOK
        <4>. HIDE DEF x
        <4>. QED
          BY <1>2, <4>1, <4>2, PutMoves
      <3>2. CASE ~answered
        <4>1. Observatory!Goto(r, "result")
          BY <1>4, <3>2 DEF Observatory!Goto
        <4>. QED
          BY <1>2, <4>1, GotoMoves
      <3>. QED
        BY <3>1, <3>2
    <2>2. New(f).by = r /\ New(f).about = f /\ New(f).labels = {}
      BY DEF Observatory!Issue
    <2>3. New(f) \in [by : Runs, about : Fingerprints, labels : SUBSET Seeded]
      BY <2>0 DEF Observatory!Issue
    <2>. HIDE DEF New
    <2>4. Observatory!ObservatoryTypeOK' /\ IdsAreSeeded'
      BY <1>1, <1>2, <1>4, <2>1, <2>3
      DEF Observatory!ObservatoryTypeOK, IdsAreSeeded, Moves, Observatory!RunRecord
    <2>5. \A q \in Runs : Observatory!Live(q)' => Observatory!Live(q)
      BY <1>1, <2>1 DEF Moves, Observatory!Live
    <2>6. OverlapNoted'
      BY <1>1, <2>5 DEF ObservatoryInv, OverlapNoted
    <2>7. \A i \in issues : (i.about = f /\ i.by # r) => {i.by, r} \in together
      BY <1>1 DEF ObservatoryInv, SearchHolds
    <2>8. OneIssuePerFingerprint'
      <3>. SUFFICES ASSUME NEW i \in issues', NEW j \in issues', i.about = j.about, i.by # j.by
                    PROVE  {i.by, j.by} \in together
        BY <1>1 DEF OneIssuePerFingerprint, Observatory!OneIssuePerFingerprint
      <3>1. CASE i \in issues /\ j \in issues
        BY <3>1 DEF ObservatoryInv, OneIssuePerFingerprint, Observatory!OneIssuePerFingerprint
      <3>2. CASE i = New(f) /\ j \in issues
        <4>1. {j.by, r} \in together
          BY <2>2, <2>7, <3>2
        <4>2. {j.by, r} = {i.by, j.by}
          BY <2>2, <3>2
        <4>. QED
          BY <4>1, <4>2
      <3>3. CASE j = New(f) /\ i \in issues
        BY <2>2, <2>7, <3>3
      <3>. QED
        BY <1>4, <3>1, <3>2, <3>3
    <2>9. SearchHolds'
      <3>. SUFFICES ASSUME NEW q \in Runs, agent'[q].pc \in {"corroborate", "file"},
                           NEW g \in agent'[q].on, NEW i \in issues', i.about = g, i.by # q
                    PROVE  {i.by, q} \in together
        BY <1>1 DEF SearchHolds, PastSearch
      <3>1. q # r /\ agent'[q] = agent[q]
        BY <2>1 DEF Moves
      <3>2. CASE i \in issues
        BY <3>1, <3>2 DEF ObservatoryInv, SearchHolds, PastSearch
      <3>3. CASE i = New(f)
        BY <1>1, <2>2, <3>1, <3>3 DEF ObservatoryInv, OverlapNoted, Observatory!Live
      <3>. QED
        BY <1>4, <3>2, <3>3
    <2>. QED
      BY <2>4, <2>6, <2>8, <2>9 DEF ObservatoryInv
  <1>. QED
    BY <1>3, <1>4 DEF Observatory!FileIssue

\* A run is registered: it overlaps with all that are live.
LEMMA StartRunKeeps ==
    ASSUME ObservatoryInv, NEW r \in Runs, Observatory!StartRun(r)
    PROVE  ObservatoryInv'
  <1>. DEFINE pairs == {{r, s} : s \in {q \in Runs \ {r} : Observatory!Live(q)}}
  <1>1. /\ Observatory!Goto(r, "signals") /\ trace' = [trace EXCEPT ![r] = "running"]
        /\ together' = together \cup pairs
        /\ UNCHANGED <<firing, issues, labelIds>>
    BY DEF Observatory!StartRun
  <1>2. Observatory!ObservatoryTypeOK /\ IdsAreSeeded
    BY DEF ObservatoryInv
  <1>3. Moves(r) /\ agent'[r].pc = "signals"
    BY <1>1, <1>2, GotoMoves
  <1>4. pairs \subseteq SUBSET Runs
    OBVIOUS
  <1>5. \A q \in Runs \ {r} : Observatory!Live(q)' => Observatory!Live(q) /\ {r, q} \in pairs
    BY <1>3 DEF Moves, Observatory!Live
  <1>. HIDE DEF pairs
  <1>6. Observatory!ObservatoryTypeOK' /\ IdsAreSeeded'
    BY <1>1, <1>2, <1>3, <1>4
    DEF Observatory!ObservatoryTypeOK, IdsAreSeeded, Moves, Observatory!RunRecord
  <1>7. OverlapNoted'
    <2>. SUFFICES ASSUME NEW q \in Runs, NEW s \in Runs, q # s,
                         Observatory!Live(q)', Observatory!Live(s)'
                  PROVE  {q, s} \in together'
      BY DEF OverlapNoted
    <2>1. CASE q = r
      BY <1>1, <1>5, <2>1
    <2>2. CASE s = r
      <3>1. {r, q} \in together' /\ {r, q} = {q, s}
        BY <1>1, <1>5, <2>2
      <3>. QED
        BY <3>1
    <2>3. CASE q # r /\ s # r
      BY <1>1, <1>5, <2>3 DEF ObservatoryInv, OverlapNoted
    <2>. QED
      BY <2>1, <2>2, <2>3
  <1>8. OneIssuePerFingerprint'
    BY <1>1 DEF ObservatoryInv, OneIssuePerFingerprint, Observatory!OneIssuePerFingerprint
  <1>9. SearchHolds'
    <2>. SUFFICES ASSUME NEW q \in Runs, agent'[q].pc \in {"corroborate", "file"},
                         NEW f \in agent'[q].on, NEW i \in issues, i.about = f, i.by # q
                  PROVE  {i.by, q} \in together
      BY <1>1 DEF SearchHolds, PastSearch
    <2>1. q # r /\ agent'[q] = agent[q]
      BY <1>3 DEF Moves
    <2>. QED
      BY <2>1 DEF ObservatoryInv, SearchHolds, PastSearch
  <1>. QED
    BY <1>6, <1>7, <1>8, <1>9 DEF ObservatoryInv

\* A run picks a problem or stops: nothing is filed.
LEMMA ListSignalsKeeps ==
    ASSUME ObservatoryInv, NEW r \in Runs, Observatory!ListSignals(r)
    PROVE  ObservatoryInv'
  <1>1. /\ Observatory!Live(r) /\ UNCHANGED <<firing, trace, issues, labelIds, together>>
        /\ \/ Observatory!Goto(r, "result")
           \/ \E f \in firing, next \in {"confirm", "search"} :
                 agent' = [agent EXCEPT ![r].pc = next, ![r].on = {f}]
    BY DEF Observatory!ListSignals, Observatory!Live, Observatory!At
  <1>2. /\ Observatory!ObservatoryTypeOK /\ agent[r] \in Observatory!RunRecord
        /\ firing \subseteq Fingerprints /\ IdsAreSeeded /\ agent[r].ids \subseteq Seeded
    BY DEF ObservatoryInv, Observatory!ObservatoryTypeOK, IdsAreSeeded
  <1>3. Moves(r) /\ agent'[r].pc \notin {"corroborate", "file"}
    <2>1. ASSUME NEW f \in firing, NEW next \in {"confirm", "search"},
                 agent' = [agent EXCEPT ![r].pc = next, ![r].on = {f}]
          PROVE  Moves(r) /\ agent'[r].pc \notin {"corroborate", "file"}
      <3>. DEFINE x == [agent[r] EXCEPT !.pc = next, !.on = {f}]
      <3>1. x \in Observatory!RunRecord /\ x.on = {f} /\ x.pc = next
            /\ x.ids = agent[r].ids
        BY <1>2 DEF Observatory!RunRecord
      <3>2. agent' = [agent EXCEPT ![r] = x]
        BY <1>2, <2>1 DEF Observatory!ObservatoryTypeOK
      <3>. HIDE DEF x
      <3>. QED
        BY <1>2, <3>1, <3>2, PutMoves, OneProblem
    <2>2. Observatory!Goto(r, "result") => Moves(r) /\ agent'[r].pc = "result"
      BY <1>2, GotoMoves
    <2>. QED
      BY <1>1, <2>1, <2>2
  <1>. QED
    BY <1>1, <1>2, <1>3, GoesOnKeeps DEF Observatory!ObservatoryTypeOK

\* The evidence sends a run to its search, or, when it has searched, to filing.
LEMMA ConfirmKeeps ==
    ASSUME ObservatoryInv, NEW r \in Runs, Observatory!Confirm(r)
    PROVE  ObservatoryInv'
  <1>1. /\ Observatory!Live(r) /\ UNCHANGED <<firing, trace, issues, labelIds, together>>
        /\ \/ Observatory!Goto(r, "result") \/ Observatory!Goto(r, "dedup")
           \/ PastSearch(r) /\ Observatory!Goto(r, "file")
    BY DEF Observatory!Confirm, Observatory!Live, Observatory!At, PastSearch
  <1>2. Observatory!ObservatoryTypeOK /\ IdsAreSeeded
    BY DEF ObservatoryInv
  <1>3. /\ Moves(r) /\ agent'[r].on = agent[r].on
        /\ PastSearch(r) \/ agent'[r].pc \in {"result", "dedup"}
    <2>1. ASSUME NEW pc \in {"result", "dedup", "file"}, Observatory!Goto(r, pc)
          PROVE  Moves(r) /\ agent'[r].on = agent[r].on /\ agent'[r].pc = pc
      BY <1>2, <2>1, GotoMoves
    <2>. QED
      BY <1>1, <2>1
  <1>. QED
    BY <1>1, <1>2, <1>3, GoesOnKeeps DEF Observatory!ObservatoryTypeOK

\* The search finds nothing about the problem, or the run stops.
LEMMA FindExistingKeeps ==
    ASSUME ObservatoryInv, NEW r \in Runs, Observatory!FindExisting(r)
    PROVE  ObservatoryInv'
  <1>1. /\ Observatory!Live(r) /\ UNCHANGED <<firing, trace, issues, labelIds, together>>
        /\ \/ Observatory!Goto(r, "result")
           \/ /\ \E pc \in {"file", "corroborate"} : Observatory!Goto(r, pc)
              /\ \A f \in agent[r].on : Observatory!Matches(f) = {}
    BY DEF Observatory!FindExisting, Observatory!AfterSearch, Observatory!Live, Observatory!At
  <1>2. Observatory!ObservatoryTypeOK /\ IdsAreSeeded /\ agent[r].on \subseteq Fingerprints
    BY DEF ObservatoryInv, Observatory!ObservatoryTypeOK, Observatory!RunRecord
  <1>3. /\ Moves(r) /\ agent'[r].on = agent[r].on
        /\ \/ agent'[r].pc = "result" \/ \A f \in agent[r].on : Observatory!Matches(f) = {}
    <2>1. ASSUME NEW pc \in {"result", "corroborate", "file"}, Observatory!Goto(r, pc)
          PROVE  Moves(r) /\ agent'[r].on = agent[r].on /\ agent'[r].pc = pc
      BY <1>2, <2>1, GotoMoves
    <2>. QED
      BY <1>1, <2>1
  <1>4. ASSUME agent'[r].pc \in {"corroborate", "file"}, NEW f \in agent'[r].on, NEW i \in issues
        PROVE  i.about # f
    BY <1>2, <1>3, <1>4, SchedulesAssumption
    DEF Observatory!Matches, Observatory!WithinAssumption, Within
  <1>. QED
    BY <1>1, <1>2, <1>3, <1>4, GoesOnKeeps DEF Observatory!ObservatoryTypeOK

\* Label ids are looked up, in the cache first.
LEMMA ResolveLabelsKeeps ==
    ASSUME ObservatoryInv, NEW r \in Runs, Observatory!ResolveLabels(r)
    PROVE  ObservatoryInv'
  <1>1. /\ Observatory!Live(r) /\ UNCHANGED <<firing, trace, issues, together>>
        /\ labelIds' \in {labelIds, labelIds \cup Seeded}
        /\ agent' = [agent EXCEPT ![r].pc = "labels", ![r].ids = labelIds']
    BY DEF Observatory!ResolveLabels, Observatory!Live, Observatory!At
  <1>2. /\ Observatory!ObservatoryTypeOK /\ agent[r] \in Observatory!RunRecord
        /\ Observatory!Cardinality(agent[r].on) <= 1
        /\ labelIds' \subseteq Seeded /\ labelIds' \subseteq IssueLabels /\ IdsAreSeeded
    BY <1>1, SchedulesAssumption
    DEF ObservatoryInv, Observatory!ObservatoryTypeOK, Observatory!SeededAssumption
  <1>3. Moves(r) /\ agent'[r].pc = "labels"
    <2>. DEFINE x == [agent[r] EXCEPT !.pc = "labels", !.ids = labelIds']
    <2>1. x \in Observatory!RunRecord /\ x.on = agent[r].on /\ x.pc = "labels"
          /\ x.ids = labelIds'
      BY <1>2 DEF Observatory!RunRecord
    <2>2. agent' = [agent EXCEPT ![r] = x]
      BY <1>1, <1>2 DEF Observatory!ObservatoryTypeOK
    <2>. HIDE DEF x
    <2>. QED
      BY <1>2, <2>1, <2>2, PutMoves
  <1>. QED
    BY <1>1, <1>2, <1>3, GoesOnKeeps DEF Observatory!ObservatoryTypeOK

\* A label changes neither the run nor the problem of an issue.
LEMMA AttachLabelKeeps ==
    ASSUME ObservatoryInv, NEW r \in Runs, Observatory!AttachLabel(r)
    PROVE  ObservatoryInv'
  <1>1. Observatory!Live(r) /\ UNCHANGED <<firing, trace, labelIds, together>>
    BY DEF Observatory!AttachLabel, Observatory!Live, Observatory!At
  <1>2. /\ Observatory!ObservatoryTypeOK /\ agent[r] \in Observatory!RunRecord
        /\ Observatory!Cardinality(agent[r].on) <= 1 /\ agent[r].pc = "labels"
        /\ issues \subseteq [by : Runs, about : Fingerprints, labels : SUBSET Seeded]
        /\ IdsAreSeeded /\ agent[r].ids \subseteq Seeded
    BY DEF ObservatoryInv, Observatory!ObservatoryTypeOK, Observatory!AttachLabel,
           Observatory!At, IdsAreSeeded
  <1>3. Observatory!Goto(r, "result") => Moves(r) /\ agent'[r].pc = "result"
    BY <1>2, GotoMoves
  <1>4. CASE Observatory!Goto(r, "result") /\ UNCHANGED issues
    BY <1>1, <1>2, <1>3, <1>4, GoesOnKeeps DEF Observatory!ObservatoryTypeOK
  <1>5. ASSUME NEW l \in agent[r].todo, agent' = [agent EXCEPT ![r].todo = @ \ {l}],
               issues' \in IF l \in agent[r].ids
                           THEN {issues, {IF i.by = r THEN [i EXCEPT !.labels = @ \cup {l}]
                                                      ELSE i : i \in issues}}
                           ELSE {issues}
        PROVE  ObservatoryInv'
    <2>1. Moves(r) /\ agent'[r].pc = "labels"
      <3>. DEFINE x == [agent[r] EXCEPT !.todo = @ \ {l}]
      <3>1. x \in Observatory!RunRecord /\ x.on = agent[r].on /\ x.pc = "labels"
            /\ x.ids = agent[r].ids
        BY <1>2 DEF Observatory!RunRecord
      <3>2. agent' = [agent EXCEPT ![r] = x]
        BY <1>2, <1>5 DEF Observatory!ObservatoryTypeOK
      <3>. HIDE DEF x
      <3>. QED
        BY <1>2, <3>1, <3>2, PutMoves
    <2>. DEFINE Labelled(i) == IF i.by = r THEN [i EXCEPT !.labels = @ \cup {l}] ELSE i
    <2>2. issues' = issues \/ (l \in Seeded /\ issues' = {Labelled(i) : i \in issues})
      BY <1>2, <1>5
    <2>3. ASSUME NEW i \in issues, l \in Seeded
          PROVE  /\ Labelled(i).by = i.by /\ Labelled(i).about = i.about
                 /\ Labelled(i) \in [by : Runs, about : Fingerprints, labels : SUBSET Seeded]
      <3>1. i \in [by : Runs, about : Fingerprints, labels : SUBSET Seeded]
        BY <1>2
      <3>. QED
        BY <2>3, <3>1
    <2>. HIDE DEF Labelled
    <2>4. \A i \in issues' : \E j \in issues : j.by = i.by /\ j.about = i.about
      BY <2>2, <2>3
    <2>5. issues' \subseteq [by : Runs, about : Fingerprints, labels : SUBSET Seeded]
      BY <1>2, <2>2, <2>3
    <2>. QED
      BY <1>1, <1>2, <2>1, <2>4, <2>5, GoesOnKeeps DEF Observatory!ObservatoryTypeOK
  <1>. QED
    BY <1>4, <1>5 DEF Observatory!AttachLabel

\* A run ends with its answer or with an error, and its entry says so.
LEMMA RunEndsKeeps ==
    ASSUME ObservatoryInv, NEW r \in Runs, Observatory!Complete(r) \/ Observatory!RunFails(r)
    PROVE  ObservatoryInv'
  <1>1. /\ Observatory!Live(r) /\ UNCHANGED <<firing, issues, labelIds, together>>
        /\ agent' = [agent EXCEPT ![r] = Observatory!Idle]
        /\ \/ trace' = [trace EXCEPT ![r] = "completed"]
           \/ trace' = [trace EXCEPT ![r] = "failed"]
    BY DEF Observatory!Complete, Observatory!RunFails, Observatory!Live, Observatory!At
  <1>2. Observatory!ObservatoryTypeOK /\ IdsAreSeeded
    BY DEF ObservatoryInv
  <1>3. Moves(r) /\ agent'[r].pc = "idle"
    BY <1>1, <1>2, ResetMoves
  <1>4. trace' \in [Runs -> {"none", "running", "completed", "failed"}]
    BY <1>1, <1>2 DEF Observatory!ObservatoryTypeOK
  <1>. QED
    BY <1>1, <1>2, <1>3, <1>4, GoesOnKeeps DEF Observatory!ObservatoryTypeOK

\* A new pod knows no run; the issues stay.
LEMMA PodRestartsKeeps ==
    ASSUME ObservatoryInv, Observatory!PodRestarts
    PROVE  ObservatoryInv'
  <1>1. /\ agent' = [r \in Runs |-> Observatory!Idle] /\ trace' = [r \in Runs |-> "none"]
        /\ labelIds' = {} /\ UNCHANGED <<firing, issues, together>>
    BY DEF Observatory!PodRestarts
  <1>2. /\ Observatory!Idle \in Observatory!RunRecord /\ Observatory!Idle.on = {}
        /\ Observatory!Idle.pc = "idle" /\ Observatory!Idle.ids = {}
    BY DEF Observatory!Idle, Observatory!RunRecord
  <1>3. Observatory!ObservatoryTypeOK' /\ IdsAreSeeded'
    BY <1>1, <1>2, OneProblem
    DEF ObservatoryInv, Observatory!ObservatoryTypeOK, IdsAreSeeded, Observatory!RunRecord
  <1>4. OverlapNoted' /\ SearchHolds'
    BY <1>1, <1>2 DEF OverlapNoted, SearchHolds, PastSearch, Observatory!Live
  <1>. QED
    BY <1>1, <1>3, <1>4
    DEF ObservatoryInv, OneIssuePerFingerprint, Observatory!OneIssuePerFingerprint

\* What does not touch the runs and the issues keeps the invariant.
LEMMA ObservatoryFrame ==
    ASSUME ObservatoryInv, UNCHANGED <<agent, trace, issues, labelIds, together>>,
           firing' \subseteq Fingerprints
    PROVE  ObservatoryInv'
  BY DEF ObservatoryInv, Observatory!ObservatoryTypeOK, IdsAreSeeded, OverlapNoted, SearchHolds, PastSearch,
         OneIssuePerFingerprint, Observatory!OneIssuePerFingerprint, Observatory!Live,
         Observatory!At, Observatory!RunRecord

\* ObservatoryInv holds at the start.
LEMMA ObservatoryStarts == Observatory!Init => ObservatoryInv
  <1>. SUFFICES ASSUME Observatory!Init PROVE ObservatoryInv
    OBVIOUS
  <1>1. /\ Observatory!Idle \in Observatory!RunRecord /\ Observatory!Idle.on = {}
        /\ Observatory!Idle.pc = "idle" /\ Observatory!Idle.ids = {}
    BY DEF Observatory!Idle, Observatory!RunRecord
  <1>2. Observatory!ObservatoryTypeOK /\ IdsAreSeeded
    BY <1>1, OneProblem DEF Observatory!Init, Observatory!ObservatoryTypeOK, IdsAreSeeded
  <1>3. OverlapNoted /\ SearchHolds
    BY <1>1 DEF Observatory!Init, OverlapNoted, SearchHolds, PastSearch, Observatory!Live
  <1>. QED
    BY <1>2, <1>3
    DEF Observatory!Init, ObservatoryInv, OneIssuePerFingerprint,
        Observatory!OneIssuePerFingerprint

\* Every step of the observatory keeps ObservatoryInv.
LEMMA ObservatoryKeeps == ObservatoryInv /\ [Observatory!Next]_observatoryVars => ObservatoryInv'
  <1>. SUFFICES ASSUME ObservatoryInv, [Observatory!Next]_observatoryVars
                PROVE  ObservatoryInv'
    OBVIOUS
  <1>1. firing \subseteq Fingerprints
    BY DEF ObservatoryInv, Observatory!ObservatoryTypeOK
  <1>2. CASE UNCHANGED observatoryVars
    BY <1>1, <1>2, ObservatoryFrame DEF observatoryVars
  <1>3. ASSUME NEW f \in Fingerprints, Observatory!Signal(f) PROVE ObservatoryInv'
    BY <1>1, <1>3, ObservatoryFrame DEF Observatory!Signal
  <1>4. ASSUME NEW r \in Runs, Observatory!StartRun(r) \/ Observatory!RunStep(r)
        PROVE  ObservatoryInv'
    <2>1. CASE Observatory!StartRun(r)
      BY <2>1, StartRunKeeps
    <2>2. CASE Observatory!ListSignals(r) \/ Observatory!Confirm(r)
      BY <2>2, ListSignalsKeeps, ConfirmKeeps
    <2>3. CASE Observatory!FindExisting(r)
      BY <2>3, FindExistingKeeps
    <2>4. CASE Observatory!FileIssue(r)
      BY <2>4, FileIssueKeeps
    <2>5. CASE Observatory!ResolveLabels(r)
      BY <2>5, ResolveLabelsKeeps
    <2>6. CASE Observatory!AttachLabel(r)
      BY <2>6, AttachLabelKeeps
    <2>7. CASE Observatory!Complete(r) \/ Observatory!RunFails(r)
      BY <2>7, RunEndsKeeps
    <2>. QED
      BY <1>4, <2>1, <2>2, <2>3, <2>4, <2>5, <2>6, <2>7 DEF Observatory!RunStep
  <1>5. CASE Observatory!PodRestarts
    BY <1>5, PodRestartsKeeps
  <1>. QED
    BY <1>2, <1>3, <1>4, <1>5 DEF Observatory!Next

\* A step of the three parts is one of the observatory or leaves it alone.
LEMMA ObservatoryStep == [Next]_vars => [Observatory!Next]_observatoryVars
  BY DEF Next, vars, observatoryVars, chainVars, governanceVars

\* Two issues about one fingerprint are filed only by runs that were live at the
\* same time (app/watcher.py, find_existing_multica_tasks and file_multica_task):
\* a lost answer, a failed search or a restart never makes a later run file again.
THEOREM OverlappingRunsOnly == Spec => []OneIssuePerFingerprint
  <1>1. Init => ObservatoryInv
    BY ObservatoryStarts DEF Init
  <1>2. ObservatoryInv /\ [Next]_vars => ObservatoryInv'
    BY ObservatoryStep, ObservatoryKeeps
  <1>3. ObservatoryInv => OneIssuePerFingerprint
    BY DEF ObservatoryInv
  <1>. QED
    BY <1>1, <1>2, <1>3, PTL DEF Spec

-----------------------------------------------------------------------------
(* The chain of datasets *)

\* The layers are counted per source, and every DAG has its datasets.
LayersTyped ==
    {bronze, told, silver, gold} \subseteq [Sources -> Nat] /\ DOMAIN updated = Chain!Dags

\* A silver run that built its model found rows.
BuiltHasRows == \A s \in Sources : run[s].at = "built" => silver[s] > 0

\* A smooth bootstrap leaves the silver step when every source is in silver.
SilverFilled ==
    setup.smooth /\ setup.step >= 4 =>
       \A s \in Sources : silver[s] > 0 \/ (setup.step = 4 /\ s \in setup.todo)

\* The bootstrap asks for the gold run when its silver step is over.
GoldAfterSilver == "gold" \in asked \/ run["gold"].bySetup => setup.step >= 5

\* The gold run of a smooth bootstrap fills the marts before it is over.
GoldBuilt ==
    setup.smooth /\ run["gold"].bySetup /\ run["gold"].at = "built" =>
       \A s \in Sources : gold[s] > 0

\* A smooth bootstrap has filled the marts when its gold step is over.
GoldFilled ==
    setup.smooth /\ setup.step >= 5 =>
       \A s \in Sources : gold[s] > 0 \/ (setup.step = 5 /\ "gold" \in setup.todo)

\* Inductive invariant of the chain.
ChainInv ==
    /\ Chain!ChainTypeOK /\ LayersTyped
    /\ BuiltHasRows /\ SilverFilled /\ GoldAfterSilver /\ GoldBuilt /\ GoldFilled

\* The runs of a DAG, and the states of the bootstrap.
DagRuns == [at : {"none", "running", "built"}, bySetup : BOOLEAN]
Setups == [step : 0..8, todo : SUBSET Chain!Dags, smooth : BOOLEAN]

\* The typed state, in the form the proofs use.
LEMMA ChainTyped ==
    Chain!ChainTypeOK <=>
    /\ \A s \in Sources : /\ bronze[s] \in 0..Chain!MaxLoads(s) /\ told[s] \in 0..bronze[s]
                          /\ silver[s] \in 0..bronze[s] /\ gold[s] \in 0..silver[s]
    /\ \A d \in Chain!Dags : updated[d] \subseteq Chain!Schedule(d)
    /\ asked \subseteq Chain!Dags /\ stranded \subseteq Sources /\ recent \subseteq Sources \ Csv
    /\ run \in [Chain!Dags -> DagRuns] /\ setup \in Setups
    /\ \A d \in setup.todo : d \in asked \/ run[d].bySetup
  <1>1. Len(Chain!Steps) = 7
    BY DEF Chain!Steps
  <1>. QED
    BY <1>1 DEF Chain!ChainTypeOK, DagRuns, Setups

\* A task's outlets stay within what the DAGs wait for.
LEMMA UpdatesTyped ==
    ASSUME NEW ds, Chain!Updates(ds), LayersTyped, Chain!ChainTypeOK
    PROVE  /\ DOMAIN updated' = Chain!Dags
           /\ \A d \in Chain!Dags : updated'[d] \subseteq Chain!Schedule(d)
  BY ChainTyped DEF Chain!Updates, LayersTyped

\* What only bronze and the datasets learn of keeps the invariant.
LEMMA LoadKeeps ==
    ASSUME ChainInv, bronze' \in [Sources -> Nat], told' \in [Sources -> Nat],
           \A s \in Sources : bronze'[s] \in 0..Chain!MaxLoads(s) /\ bronze[s] <= bronze'[s]
                              /\ told'[s] \in 0..bronze'[s],
           DOMAIN updated' = Chain!Dags,
           \A d \in Chain!Dags : updated'[d] \subseteq Chain!Schedule(d),
           recent' \subseteq Sources \ Csv,
           UNCHANGED <<silver, gold, asked, run, stranded, setup>>
    PROVE  ChainInv'
  <1>1. LayersTyped'
    BY DEF ChainInv, LayersTyped
  <1>2. \A s \in Sources : /\ bronze'[s] \in 0..Chain!MaxLoads(s) /\ told'[s] \in 0..bronze'[s]
                           /\ silver[s] \in 0..bronze'[s] /\ gold[s] \in 0..silver[s]
    BY ChainTyped, SchedulesAssumption DEF ChainInv, LayersTyped, Chain!ChainAssumption
  <1>3. Chain!ChainTypeOK'
    BY <1>2, ChainTyped DEF ChainInv, Chain!ChainTypeOK, Chain!Schedule, Chain!Dags, Chain!Steps
  <1>. QED
    BY <1>1, <1>3
    DEF ChainInv, BuiltHasRows, SilverFilled, GoldAfterSilver, GoldBuilt, GoldFilled

\* Loads of bronze, and the tasks that announce them.
LEMMA BronzeKeeps ==
    ASSUME ChainInv, NEW s \in Sources,
           \/ Chain!StreamLoad(s) \/ Chain!CsvLoad(s) \/ Chain!CsvLoadFails(s)
           \/ Chain!LeavesWindow(s) \/ Chain!Check(s)
    PROVE  ChainInv'
  <1>0. /\ LayersTyped /\ Chain!ChainTypeOK /\ bronze \in [Sources -> Nat]
        /\ told \in [Sources -> Nat] /\ bronze[s] \in Nat
        /\ \A q \in Sources : Chain!MaxLoads(q) \in Nat
        /\ \A q \in Sources : bronze[q] \in 0..Chain!MaxLoads(q) /\ told[q] \in 0..bronze[q]
        /\ DOMAIN updated = Chain!Dags
        /\ \A d \in Chain!Dags : updated[d] \subseteq Chain!Schedule(d)
        /\ recent \subseteq Sources \ Csv
    BY ChainTyped, SchedulesAssumption DEF ChainInv, LayersTyped, Chain!ChainAssumption, Chain!MaxLoads
  <1>1. ASSUME Chain!Loaded(s)
        PROVE  /\ bronze' \in [Sources -> Nat]
               /\ \A q \in Sources : bronze'[q] \in 0..Chain!MaxLoads(q) /\ bronze[q] <= bronze'[q]
    BY <1>0, <1>1 DEF Chain!Loaded
  <1>2. CASE Chain!StreamLoad(s) \/ Chain!CsvLoadFails(s)
    <2>1. /\ Chain!Loaded(s)
          /\ recent' \subseteq Sources \ Csv
          /\ UNCHANGED <<told, updated, silver, gold, asked, run, stranded, setup>>
      BY <1>0, <1>2 DEF Chain!StreamLoad, Chain!CsvLoadFails, Chain!airflow
    <2>2. \A q \in Sources : told'[q] \in 0..bronze'[q]
      BY <1>0, <1>1, <2>1
    <2>. QED
      BY <1>0, <1>1, <2>1, <2>2, LoadKeeps DEF Chain!Schedule
  <1>3. CASE Chain!CsvLoad(s)
    <2>1. /\ Chain!Loaded(s) /\ told' = [told EXCEPT ![s] = bronze'[s]]
          /\ Chain!Updates(Chain!Outlets("csv", s))
          /\ UNCHANGED <<recent, silver, gold, asked, run, stranded, setup>>
      BY <1>3 DEF Chain!CsvLoad
    <2>2. /\ told' \in [Sources -> Nat] /\ \A q \in Sources : told'[q] \in 0..bronze'[q]
      BY <1>0, <1>1, <2>1
    <2>. QED
      BY <1>0, <1>1, <2>1, <2>2, LoadKeeps, UpdatesTyped
  <1>4. CASE Chain!Check(s)
    <2>1. /\ told' = [told EXCEPT ![s] = bronze[s]] /\ Chain!Updates(Chain!Outlets("check", s))
          /\ UNCHANGED <<bronze, recent, silver, gold, asked, run, stranded, setup>>
      BY <1>4 DEF Chain!Check, Chain!data
    <2>2. /\ told' \in [Sources -> Nat] /\ \A q \in Sources : told'[q] \in 0..bronze'[q]
          /\ \A q \in Sources : bronze'[q] \in 0..Chain!MaxLoads(q) /\ bronze[q] <= bronze'[q]
      BY <1>0, <2>1
    <2>. QED
      BY <1>0, <2>1, <2>2, LoadKeeps, UpdatesTyped
  <1>5. CASE Chain!LeavesWindow(s)
    <2>1. /\ recent' \subseteq recent
          /\ UNCHANGED <<bronze, told, updated, silver, gold, asked, run, stranded, setup>>
      BY <1>5 DEF Chain!LeavesWindow, Chain!airflow
    <2>2. \A q \in Sources : bronze'[q] \in 0..Chain!MaxLoads(q) /\ bronze[q] <= bronze'[q]
      BY <1>0, <2>1
    <2>. QED
      BY <1>0, <2>1, <2>2, LoadKeeps DEF Chain!Schedule
  <1>. QED
    BY <1>2, <1>3, <1>4, <1>5

\* A run is created by its datasets, or because the bootstrap asked for it.
LEMMA ChainCreateRunKeeps ==
    ASSUME ChainInv, NEW d \in Chain!Dags, Chain!CreateRun(d)
    PROVE  ChainInv'
  <1>0. /\ LayersTyped /\ Chain!ChainTypeOK /\ "gold" \notin Sources
        /\ run \in [Chain!Dags -> DagRuns] /\ DOMAIN updated = Chain!Dags
        /\ asked \subseteq Chain!Dags
        /\ \A e \in Chain!Dags : updated[e] \subseteq Chain!Schedule(e)
    BY ChainTyped, SchedulesAssumption DEF ChainInv, LayersTyped, Chain!ChainAssumption
  <1>1. PICK mine \in BOOLEAN :
           /\ run' = [run EXCEPT ![d] = [at |-> "running", bySetup |-> mine]]
           /\ mine => d \in asked /\ asked' = asked \ {d} /\ updated' = updated
           /\ ~mine => asked' = asked /\ updated' = [updated EXCEPT ![d] = {}]
           /\ run[d] = Chain!NoRun
           /\ UNCHANGED <<bronze, recent, told, silver, gold, stranded, setup>>
    <2>1. CASE d \in asked /\ asked' = asked \ {d} /\ updated' = updated
               /\ run' = [run EXCEPT ![d] = [at |-> "running", bySetup |-> TRUE]]
      BY <2>1 DEF Chain!CreateRun, Chain!data
    <2>2. CASE asked' = asked /\ updated' = [updated EXCEPT ![d] = {}]
               /\ run' = [run EXCEPT ![d] = [at |-> "running", bySetup |-> FALSE]]
      BY <2>2 DEF Chain!CreateRun, Chain!data
    <2>. QED
      BY <2>1, <2>2 DEF Chain!CreateRun
  <1>. DEFINE x == [at |-> "running", bySetup |-> mine]
  <1>2. x \in DagRuns /\ x.at = "running" /\ x.bySetup = mine
    BY DEF DagRuns
  <1>3. run[d].at = "none" /\ run[d].bySetup = FALSE
    BY <1>1 DEF Chain!NoRun
  <1>. HIDE DEF x
  <1>4. /\ run' \in [Chain!Dags -> DagRuns] /\ run'[d] = x
        /\ \A e \in Chain!Dags \ {d} : run'[e] = run[e]
    BY <1>0, <1>1, <1>2 DEF x
  <1>5. /\ DOMAIN updated' = Chain!Dags
        /\ \A e \in Chain!Dags : updated'[e] \subseteq Chain!Schedule(e)
    BY <1>0, <1>1
  <1>6. \A e \in setup.todo : e \in asked' \/ run'[e].bySetup
    <2>. SUFFICES ASSUME NEW e \in setup.todo PROVE e \in asked' \/ run'[e].bySetup
      OBVIOUS
    <2>1. e \in Chain!Dags /\ (e \in asked \/ run[e].bySetup)
      BY <1>0, ChainTyped DEF Setups
    <2>2. CASE e = d
      BY <1>1, <1>2, <1>3, <1>4, <2>1, <2>2
    <2>3. CASE e # d
      BY <1>1, <1>4, <2>1, <2>3
    <2>. QED
      BY <2>2, <2>3
  <1>7. Chain!ChainTypeOK'
    <2>1. asked' \subseteq Chain!Dags
      BY <1>0, <1>1
    <2>. QED
      BY <1>0, <1>1, <1>4, <1>5, <1>6, <2>1
      DEF Chain!ChainTypeOK, DagRuns, Chain!Schedule, Chain!Dags, Chain!Steps
  <1>8. LayersTyped'
    BY <1>0, <1>1, <1>5 DEF LayersTyped, Chain!Dags
  <1>9. BuiltHasRows' /\ SilverFilled'
    BY <1>1, <1>2, <1>4 DEF ChainInv, BuiltHasRows, SilverFilled, Chain!Dags
  <1>10. GoldAfterSilver'
    <2>1. "gold" \in Chain!Dags
      BY DEF Chain!Dags
    <2>. QED
      BY <1>1, <1>2, <1>4, <2>1 DEF ChainInv, GoldAfterSilver
  <1>11. GoldBuilt' /\ GoldFilled'
    <2>1. "gold" \in Chain!Dags
      BY DEF Chain!Dags
    <2>. QED
      BY <1>1, <1>2, <1>4, <2>1 DEF ChainInv, GoldBuilt, GoldFilled
  <1>. QED
    BY <1>7, <1>8, <1>9, <1>10, <1>11 DEF ChainInv

\* A run builds its models from what the layer below holds.
LEMMA BuildModelsKeeps ==
    ASSUME ChainInv, NEW d \in Chain!Dags, Chain!BuildModels(d)
    PROVE  ChainInv'
  <1>0. /\ LayersTyped /\ Chain!ChainTypeOK /\ "gold" \notin Sources
        /\ bronze \in [Sources -> Nat] /\ silver \in [Sources -> Nat]
        /\ gold \in [Sources -> Nat] /\ stranded \subseteq Sources
        /\ run \in [Chain!Dags -> DagRuns] /\ "gold" \in Chain!Dags
        /\ \A s \in Sources : /\ bronze[s] \in 0..Chain!MaxLoads(s) /\ told[s] \in 0..bronze[s]
                              /\ silver[s] \in 0..bronze[s] /\ gold[s] \in 0..silver[s]
    BY ChainTyped, SchedulesAssumption DEF ChainInv, LayersTyped, Chain!ChainAssumption, Chain!Dags
  <1>1. /\ run[d].at = "running" /\ run' = [run EXCEPT ![d].at = "built"]
        /\ UNCHANGED <<bronze, recent, told, updated, asked, setup>>
        /\ d = "gold" => gold' = silver /\ UNCHANGED <<silver, stranded>>
        /\ d # "gold" => /\ bronze[d] > 0 /\ silver' = [silver EXCEPT ![d] = bronze[d]]
                         /\ stranded' = stranded \ {d} /\ gold' = gold
    BY DEF Chain!BuildModels
  <1>2. /\ run' \in [Chain!Dags -> DagRuns] /\ run'[d].at = "built"
        /\ run'[d].bySetup = run[d].bySetup
        /\ \A e \in Chain!Dags \ {d} : run'[e] = run[e]
    BY <1>0, <1>1 DEF DagRuns
  <1>3. /\ silver' \in [Sources -> Nat] /\ gold' \in [Sources -> Nat]
        /\ \A s \in Sources : /\ silver'[s] \in 0..bronze[s] /\ gold'[s] \in 0..silver'[s]
                              /\ silver[s] <= silver'[s] /\ gold[s] <= gold'[s]
    BY <1>0, <1>1
  <1>4. Chain!ChainTypeOK'
    <2>1. stranded' \subseteq Sources
      BY <1>0, <1>1
    <2>2. \A e \in setup.todo : e \in asked \/ run'[e].bySetup
      BY <1>0, <1>2, ChainTyped DEF Setups
    <2>. QED
      BY <1>0, <1>1, <1>2, <1>3, <2>1, <2>2
      DEF Chain!ChainTypeOK, DagRuns, Chain!Schedule, Chain!Dags, Chain!Steps
  <1>5. LayersTyped'
    BY <1>0, <1>1, <1>3 DEF LayersTyped, Chain!Dags
  <1>6. BuiltHasRows'
    <2>. SUFFICES ASSUME NEW s \in Sources, run'[s].at = "built" PROVE silver'[s] > 0
      BY DEF BuiltHasRows
    <2>1. s \in Chain!Dags /\ silver[s] \in Nat /\ silver'[s] \in Nat /\ s # "gold"
      BY <1>0, <1>3 DEF Chain!Dags
    <2>2. CASE s = d
      BY <1>0, <1>1, <2>1, <2>2
    <2>3. CASE s # d
      <3>1. silver[s] > 0
        BY <1>2, <2>1, <2>3 DEF ChainInv, BuiltHasRows
      <3>. QED
        BY <1>3, <2>1, <3>1
    <2>. QED
      BY <2>2, <2>3
  <1>7. \A s \in Sources : /\ silver[s] > 0 => silver'[s] > 0
                           /\ gold[s] > 0 => gold'[s] > 0
    BY <1>0, <1>3
  <1>8. SilverFilled'
    BY <1>1, <1>7 DEF ChainInv, SilverFilled
  <1>9. GoldAfterSilver' /\ (run'["gold"].bySetup <=> run["gold"].bySetup)
    BY <1>0, <1>1, <1>2 DEF ChainInv, GoldAfterSilver
  <1>10. GoldBuilt'
    <2>. SUFFICES ASSUME setup.smooth, run'["gold"].bySetup, run'["gold"].at = "built",
                         NEW s \in Sources
                  PROVE  gold'[s] > 0
      BY <1>1 DEF GoldBuilt
    <2>1. CASE d = "gold"
      <3>1. setup.step >= 5 /\ setup.step \in 0..8
        BY <1>0, <1>9, ChainTyped DEF ChainInv, GoldAfterSilver, Setups
      <3>2. silver[s] > 0
        BY <3>1 DEF ChainInv, SilverFilled
      <3>. QED
        BY <1>1, <2>1, <3>2
    <2>2. CASE d # "gold"
      <3>1. gold[s] > 0
        BY <1>0, <1>2, <2>2 DEF ChainInv, GoldBuilt
      <3>. QED
        BY <1>7, <3>1
    <2>. QED
      BY <2>1, <2>2
  <1>11. GoldFilled'
    BY <1>1, <1>7 DEF ChainInv, GoldFilled
  <1>. QED
    BY <1>4, <1>5, <1>6, <1>8, <1>9, <1>10, <1>11 DEF ChainInv

\* A run is over, and the bootstrap that waited for it goes on, smoothly only
\* when the models were built.
LEMMA RunOverKeeps ==
    ASSUME ChainInv, NEW d \in Chain!Dags, Chain!RunEnds(d) \/ Chain!RunFails(d)
    PROVE  ChainInv'
  <1>0. /\ LayersTyped /\ Chain!ChainTypeOK /\ "gold" \notin Sources
        /\ DOMAIN updated = Chain!Dags /\ stranded \subseteq Sources
        /\ \A e \in Chain!Dags : updated[e] \subseteq Chain!Schedule(e)
        /\ run \in [Chain!Dags -> DagRuns] /\ "gold" \in Chain!Dags /\ setup \in Setups
    BY ChainTyped, SchedulesAssumption DEF ChainInv, LayersTyped, Chain!ChainAssumption, Chain!Dags
  <1>1. /\ run' = [run EXCEPT ![d] = Chain!NoRun] /\ stranded' \subseteq Sources
        /\ UNCHANGED <<bronze, recent, told, silver, gold, asked>>
        /\ DOMAIN updated' = Chain!Dags
        /\ \A e \in Chain!Dags : updated'[e] \subseteq Chain!Schedule(e)
    <2>1. CASE Chain!RunEnds(d)
      BY <1>0, <2>1, UpdatesTyped DEF Chain!RunEnds, Chain!Over, Chain!data
    <2>2. CASE Chain!RunFails(d)
      BY <1>0, <2>2 DEF Chain!RunFails, Chain!Over, Chain!data
    <2>. QED
      BY <2>1, <2>2
  <1>2. /\ Chain!NoRun \in DagRuns /\ Chain!NoRun.at = "none" /\ ~Chain!NoRun.bySetup
    BY DEF Chain!NoRun, DagRuns
  <1>3. /\ run' \in [Chain!Dags -> DagRuns] /\ run'[d] = Chain!NoRun
        /\ \A e \in Chain!Dags \ {d} : run'[e] = run[e]
    BY <1>0, <1>1, <1>2
  <1>4. /\ setup' \in Setups /\ setup'.step = setup.step
        /\ setup'.smooth => setup.smooth
        /\ ~run[d].bySetup => setup' = setup
        /\ run[d].bySetup => setup'.todo = setup.todo \ {d}
        /\ run[d].bySetup /\ setup'.smooth => run[d].at = "built"
    <2>1. CASE Chain!RunEnds(d)
      BY <1>0, <2>1 DEF Chain!RunEnds, Setups
    <2>2. CASE Chain!RunFails(d)
      BY <1>0, <2>2 DEF Chain!RunFails, Setups
    <2>. QED
      BY <2>1, <2>2
  <1>5. \A e \in setup'.todo : e \in asked' \/ run'[e].bySetup
    <2>. SUFFICES ASSUME NEW e \in setup'.todo PROVE e \in asked \/ run'[e].bySetup
      BY <1>1
    <2>1. e \in setup.todo /\ e \in Chain!Dags /\ (e \in asked \/ run[e].bySetup)
      BY <1>0, <1>4, ChainTyped DEF Setups
    <2>2. CASE e = d
      BY <1>4, <2>1, <2>2
    <2>3. CASE e # d
      BY <1>3, <2>1, <2>3
    <2>. QED
      BY <2>2, <2>3
  <1>6. Chain!ChainTypeOK'
    BY <1>0, <1>1, <1>3, <1>4, <1>5
    DEF Chain!ChainTypeOK, DagRuns, Setups, Chain!Schedule, Chain!Dags, Chain!Steps
  <1>7. LayersTyped'
    BY <1>0, <1>1 DEF LayersTyped, Chain!Dags
  <1>8. BuiltHasRows'
    BY <1>1, <1>2, <1>3 DEF ChainInv, BuiltHasRows, Chain!Dags
  <1>9. SilverFilled'
    <2>. SUFFICES ASSUME setup'.smooth, setup'.step >= 4, NEW s \in Sources
                  PROVE  silver[s] > 0 \/ (setup'.step = 4 /\ s \in setup'.todo)
      BY <1>1 DEF SilverFilled
    <2>1. silver[s] > 0 \/ (setup.step = 4 /\ s \in setup.todo)
      BY <1>4 DEF ChainInv, SilverFilled
    <2>2. CASE s = d /\ run[d].bySetup
      BY <1>4, <2>2 DEF ChainInv, BuiltHasRows
    <2>3. CASE s # d \/ ~run[d].bySetup
      BY <1>4, <2>1, <2>3
    <2>. QED
      BY <2>2, <2>3
  <1>10. GoldAfterSilver' /\ GoldBuilt'
    BY <1>0, <1>1, <1>2, <1>3, <1>4 DEF ChainInv, GoldAfterSilver, GoldBuilt
  <1>11. GoldFilled'
    <2>. SUFFICES ASSUME setup'.smooth, setup'.step >= 5, NEW s \in Sources
                  PROVE  gold[s] > 0 \/ (setup'.step = 5 /\ "gold" \in setup'.todo)
      BY <1>1 DEF GoldFilled
    <2>1. gold[s] > 0 \/ (setup.step = 5 /\ "gold" \in setup.todo)
      BY <1>4 DEF ChainInv, GoldFilled
    <2>2. CASE d = "gold" /\ run[d].bySetup
      BY <1>4, <2>2 DEF ChainInv, GoldBuilt
    <2>3. CASE d # "gold" \/ ~run[d].bySetup
      BY <1>4, <2>1, <2>3
    <2>. QED
      BY <2>2, <2>3
  <1>. QED
    BY <1>6, <1>7, <1>8, <1>9, <1>10, <1>11 DEF ChainInv

\* The next task of the bootstrap starts: the silver step asks for the runs of
\* all sources, the gold step for the gold run, no other step for any.
LEMMA StartStepDoes ==
    ASSUME NEW n \in 1..8, setup \in Setups, Chain!StartStep(n)
    PROVE  /\ setup' \in Setups /\ setup'.step = n /\ setup'.smooth = setup.smooth
           /\ setup'.todo = IF n = 4 THEN Sources ELSE IF n = 5 THEN {"gold"} ELSE {}
           /\ asked' = asked \cup setup'.todo
           /\ UNCHANGED <<bronze, recent, told, silver, gold, updated, run, stranded>>
  <1>. DEFINE ds == IF n =< Len(Chain!Steps) THEN Chain!Triggered(Chain!Steps[n]) ELSE {}
  <1>1. ds = IF n = 4 THEN Sources ELSE IF n = 5 THEN {"gold"} ELSE {}
    <2>1. Len(Chain!Steps) = 7
      BY DEF Chain!Steps
    <2>2. CASE n = 4
      BY <2>1, <2>2 DEF Chain!Steps, Chain!Triggered
    <2>3. CASE n = 5
      BY <2>1, <2>3 DEF Chain!Steps, Chain!Triggered
    <2>4. CASE n = 8
      BY <2>1, <2>4
    <2>5. CASE n \in {1, 2, 3, 6, 7}
      <3>1. Chain!Steps[n] \in {"streaming", "seed", "wait", "catalogue", "dashboard"}
        BY <2>5 DEF Chain!Steps
      <3>. QED
        BY <2>1, <2>5, <3>1 DEF Chain!Triggered
    <2>. QED
      BY <2>2, <2>3, <2>4, <2>5
  <1>2. /\ setup' = [setup EXCEPT !.step = n, !.todo = ds] /\ asked' = asked \cup ds
        /\ UNCHANGED <<bronze, recent, told, silver, gold, updated, run, stranded>>
    BY DEF Chain!StartStep, Chain!AwaitedRuns, Chain!data
  <1>3. ds \in SUBSET Chain!Dags
    BY <1>1 DEF Chain!Dags
  <1>. HIDE DEF ds
  <1>4. /\ setup' \in Setups /\ setup'.step = n /\ setup'.smooth = setup.smooth
        /\ setup'.todo = ds
    <2>1. n \in 0..8
      OBVIOUS
    <2>. QED
      BY <1>2, <1>3, <2>1 DEF Setups
  <1>. QED
    BY <1>1, <1>2, <1>4

\* The bootstrap starts, or goes on when the runs it waited for are over.
LEMMA StartStepKeeps ==
    ASSUME ChainInv, Chain!StartSetup \/ Chain!StepSucceeds
    PROVE  ChainInv'
  <1>0. /\ LayersTyped /\ Chain!ChainTypeOK /\ "gold" \notin Sources
        /\ setup \in Setups /\ asked \subseteq Chain!Dags /\ run \in [Chain!Dags -> DagRuns]
    BY ChainTyped, SchedulesAssumption DEF ChainInv, Chain!ChainAssumption
  <1>1. PICK n \in 1..8 : /\ Chain!StartStep(n) /\ n = setup.step + 1
                          /\ n > 1 => setup.todo = {}
    <2>1. Len(Chain!Steps) = 7
      BY DEF Chain!Steps
    <2>2. CASE Chain!StartSetup
      BY <2>2 DEF Chain!StartSetup
    <2>3. CASE Chain!StepSucceeds
      <3>1. setup.step + 1 \in 1..8 /\ Chain!StartStep(setup.step + 1) /\ setup.todo = {}
        BY <2>1, <2>3 DEF Chain!StepSucceeds
      <3>. QED
        BY <3>1
    <2>. QED
      BY <2>2, <2>3
  <1>2. /\ setup' \in Setups /\ setup'.step = n /\ setup'.smooth = setup.smooth
        /\ setup'.todo = IF n = 4 THEN Sources ELSE IF n = 5 THEN {"gold"} ELSE {}
        /\ asked' = asked \cup setup'.todo
        /\ UNCHANGED <<bronze, recent, told, silver, gold, updated, run, stranded>>
    BY <1>0, <1>1, StartStepDoes
  <1>3. setup.step \in 0..8 /\ setup.step + 1 = n
    BY <1>0, <1>1 DEF Setups
  <1>4. Chain!ChainTypeOK'
    <2>1. asked' \subseteq Chain!Dags /\ \A e \in setup'.todo : e \in asked' \/ run'[e].bySetup
      BY <1>0, <1>2 DEF Setups
    <2>. QED
      BY <1>0, <1>2, <2>1
      DEF Chain!ChainTypeOK, Setups, DagRuns, Chain!Schedule, Chain!Dags, Chain!Steps
  <1>5. LayersTyped' /\ BuiltHasRows' /\ GoldBuilt'
    BY <1>0, <1>2 DEF ChainInv, LayersTyped, BuiltHasRows, GoldBuilt, Chain!Dags
  <1>6. SilverFilled'
    <2>1. CASE n = 4
      BY <1>2, <2>1 DEF SilverFilled
    <2>2. ASSUME n > 4, setup.smooth, NEW s \in Sources PROVE silver[s] > 0
      <3>1. setup.todo = {} /\ setup.step >= 4
        BY <1>1, <1>3, <2>2
      <3>. QED
        BY <2>2, <3>1 DEF ChainInv, SilverFilled
    <2>. QED
      BY <1>2, <2>1, <2>2 DEF SilverFilled
  <1>7. GoldAfterSilver'
    BY <1>0, <1>2, <1>3 DEF ChainInv, GoldAfterSilver
  <1>8. GoldFilled'
    <2>1. CASE n = 5
      BY <1>2, <2>1 DEF GoldFilled
    <2>2. ASSUME n > 5, setup.smooth, NEW s \in Sources PROVE gold[s] > 0
      <3>1. setup.todo = {} /\ setup.step >= 5
        BY <1>1, <1>3, <2>2
      <3>. QED
        BY <2>2, <3>1 DEF ChainInv, GoldFilled
    <2>. QED
      BY <1>2, <2>1, <2>2 DEF GoldFilled
  <1>. QED
    BY <1>4, <1>5, <1>6, <1>7, <1>8 DEF ChainInv

\* A task of the bootstrap fails: from then on it is not smooth.
LEMMA StepFailsKeeps ==
    ASSUME ChainInv, Chain!StepFails
    PROVE  ChainInv'
  <1>0. LayersTyped /\ Chain!ChainTypeOK /\ setup \in Setups
    BY ChainTyped DEF ChainInv
  <1>1. /\ setup' = [step |-> 7, todo |-> {}, smooth |-> FALSE]
        /\ UNCHANGED <<bronze, recent, told, silver, gold, updated, asked, run, stranded>>
    <2>1. Len(Chain!Steps) = 7
      BY DEF Chain!Steps
    <2>. QED
      BY <2>1 DEF Chain!StepFails, Chain!data, Chain!airflow
  <1>2. setup' \in Setups /\ setup'.todo = {} /\ setup'.step = 7 /\ ~setup'.smooth
    BY <1>1 DEF Setups
  <1>3. Chain!ChainTypeOK'
    BY <1>0, <1>1, <1>2 DEF Chain!ChainTypeOK, Setups, Chain!Schedule, Chain!Dags, Chain!Steps
  <1>. QED
    BY <1>1, <1>2, <1>3
    DEF ChainInv, LayersTyped, BuiltHasRows, SilverFilled, GoldAfterSilver, GoldBuilt, GoldFilled,
        Chain!Dags

\* What does not touch the chain keeps the invariant.
LEMMA ChainFrame ==
    ASSUME ChainInv, UNCHANGED chainVars
    PROVE  ChainInv'
  BY DEF ChainInv, chainVars, Chain!ChainTypeOK, LayersTyped, BuiltHasRows, SilverFilled,
         GoldAfterSilver, GoldBuilt, GoldFilled, Chain!Dags, Chain!Schedule, Chain!Steps

\* ChainInv holds at the start.
LEMMA ChainStarts == Chain!Init => ChainInv
  <1>. SUFFICES ASSUME Chain!Init PROVE ChainInv
    OBVIOUS
  <1>1. /\ "gold" \notin Sources /\ "gold" \in Chain!Dags
        /\ \A q \in Sources : Chain!MaxLoads(q) \in Nat
    BY SchedulesAssumption DEF Chain!ChainAssumption, Chain!Dags, Chain!MaxLoads
  <1>2. /\ bronze = [s \in Sources |-> 0] /\ told = bronze /\ silver = bronze /\ gold = bronze
        /\ updated = [d \in Chain!Dags |-> {}] /\ asked = {} /\ stranded = {} /\ recent = {}
        /\ run = [d \in Chain!Dags |-> Chain!NoRun]
        /\ setup = [step |-> 0, todo |-> {}, smooth |-> TRUE]
    BY DEF Chain!Init
  <1>3. /\ Chain!NoRun \in DagRuns /\ Chain!NoRun.at = "none" /\ ~Chain!NoRun.bySetup
    BY DEF Chain!NoRun, DagRuns
  <1>4. setup \in Setups /\ setup.step = 0 /\ setup.todo = {}
    BY <1>2 DEF Setups
  <1>5. Chain!ChainTypeOK
    <2>1. run \in [Chain!Dags -> DagRuns]
      BY <1>2, <1>3
    <2>. QED
      BY <1>1, <1>2, <1>4, <2>1, ChainTyped
  <1>6. LayersTyped
    BY <1>2 DEF LayersTyped
  <1>7. BuiltHasRows
    BY <1>2, <1>3 DEF BuiltHasRows, Chain!Dags
  <1>8. SilverFilled /\ GoldFilled
    BY <1>4 DEF SilverFilled, GoldFilled
  <1>9. GoldAfterSilver /\ GoldBuilt
    BY <1>1, <1>2, <1>3 DEF GoldAfterSilver, GoldBuilt
  <1>. QED
    BY <1>5, <1>6, <1>7, <1>8, <1>9 DEF ChainInv

\* Every step of the chain keeps ChainInv.
LEMMA ChainKeeps == ChainInv /\ [Chain!Next]_chainVars => ChainInv'
  <1>. SUFFICES ASSUME ChainInv, [Chain!Next]_chainVars
                PROVE  ChainInv'
    OBVIOUS
  <1>1. CASE UNCHANGED chainVars
    BY <1>1, ChainFrame
  <1>2. ASSUME NEW s \in Sources,
               \/ Chain!StreamLoad(s) \/ Chain!CsvLoad(s)
               \/ Chain!CsvLoadFails(s) \/ Chain!LeavesWindow(s) \/ Chain!Check(s)
        PROVE  ChainInv'
    BY <1>2, BronzeKeeps
  <1>3. ASSUME NEW d \in Chain!Dags,
               \/ Chain!CreateRun(d) \/ Chain!BuildModels(d)
               \/ Chain!RunEnds(d) \/ Chain!RunFails(d)
        PROVE  ChainInv'
    BY <1>3, ChainCreateRunKeeps, BuildModelsKeeps, RunOverKeeps
  <1>4. CASE Chain!StartSetup \/ Chain!StepSucceeds
    BY <1>4, StartStepKeeps
  <1>5. CASE Chain!StepFails
    BY <1>5, StepFailsKeeps
  <1>. QED
    BY <1>1, <1>2, <1>3, <1>4, <1>5 DEF Chain!Next

\* A step of the three parts is one of the chain or leaves it alone.
LEMMA ChainStep == [Next]_vars => [Chain!Next]_chainVars
  BY DEF Next, vars, observatoryVars, chainVars, governanceVars

\* When no task of the bootstrap failed and every run it triggered built its
\* models, the marts hold rows of every source before the dashboard is built
\* (uc11_full_setup.py, silver_triggers >> gold_trigger >> ... >> dashboard).
THEOREM SmoothSetupFillsMarts == Spec => []SetupBuildsMarts
  <1>1. Init => ChainInv
    BY ChainStarts DEF Init
  <1>2. ChainInv /\ [Next]_vars => ChainInv'
    BY ChainStep, ChainKeeps
  <1>3. ChainInv => SetupBuildsMarts
    <2>1. Len(Chain!Steps) = 7
      BY DEF Chain!Steps
    <2>2. ChainInv => setup \in Setups
      BY ChainTyped DEF ChainInv
    <2>. QED
      BY <2>1, <2>2 DEF ChainInv, GoldFilled, SetupBuildsMarts, Chain!SetupBuildsMarts, Setups
  <1>. QED
    BY <1>1, <1>2, <1>3, PTL DEF Spec

\* Until silver has what was announced of a source, its dataset is marked for the
\* silver DAG, a silver run is about to build, or the last run of it failed.
AnnouncementsAreKept ==
    \A s \in Sources :
       \/ silver[s] >= told[s] \/ s \in stranded
       \/ <<"bronze", s>> \in updated[s] \/ run[s].at = "running"

\* What a dataset was marked with stays until its DAG's next run, and a load
\* that names the source as its outlet marks it.
LEMMA UpdatesMark ==
    ASSUME NEW ds, Chain!Updates(ds), NEW s \in Sources, "gold" \notin Sources,
           <<"bronze", s>> \in updated[s] \/ <<"bronze", s>> \in ds
    PROVE  <<"bronze", s>> \in updated'[s]
  BY DEF Chain!Updates, Chain!Dags, Chain!Schedule

\* Loads and checks: what is announced marks its dataset.
LEMMA LoadsAreAnnounced ==
    ASSUME ChainInv, AnnouncementsAreKept, NEW q \in Sources,
           \/ Chain!StreamLoad(q) \/ Chain!CsvLoad(q) \/ Chain!CsvLoadFails(q)
           \/ Chain!LeavesWindow(q) \/ Chain!Check(q)
    PROVE  AnnouncementsAreKept'
  <1>0. "gold" \notin Sources /\ told \in [Sources -> Nat]
    BY SchedulesAssumption DEF ChainInv, LayersTyped, Chain!ChainAssumption
  <1>1. SUFFICES ASSUME NEW s \in Sources
                 PROVE  \/ silver'[s] >= told'[s] \/ s \in stranded'
                        \/ <<"bronze", s>> \in updated'[s] \/ run'[s].at = "running"
    BY DEF AnnouncementsAreKept
  <1>2. \/ silver[s] >= told[s] \/ s \in stranded
        \/ <<"bronze", s>> \in updated[s] \/ run[s].at = "running"
    BY <1>1 DEF AnnouncementsAreKept
  <1>3. UNCHANGED <<silver, stranded, run>>
    BY DEF Chain!StreamLoad, Chain!CsvLoad, Chain!CsvLoadFails, Chain!LeavesWindow, Chain!Check,
           Chain!data, Chain!airflow
  <1>4. CASE Chain!StreamLoad(q) \/ Chain!CsvLoadFails(q) \/ Chain!LeavesWindow(q)
    BY <1>2, <1>3, <1>4 DEF Chain!StreamLoad, Chain!CsvLoadFails, Chain!LeavesWindow, Chain!airflow
  <1>5. CASE Chain!CsvLoad(q) \/ Chain!Check(q)
    <2>1. /\ \E n : told' = [told EXCEPT ![q] = n]
          /\ Chain!Updates({<<"bronze", q>>})
      BY <1>5 DEF Chain!CsvLoad, Chain!Check, Chain!Outlets
    <2>2. CASE s = q
      <3>1. <<"bronze", s>> \in updated'[s]
        BY <1>0, <2>1, <2>2, UpdatesMark
      <3>. QED
        BY <3>1
    <2>3. CASE s # q
      <3>1. told'[s] = told[s]
        BY <1>0, <2>1, <2>3
      <3>2. <<"bronze", s>> \in updated[s] => <<"bronze", s>> \in updated'[s]
        BY <1>0, <2>1, UpdatesMark
      <3>. QED
        BY <1>2, <1>3, <3>1, <3>2
    <2>. QED
      BY <2>2, <2>3
  <1>. QED
    BY <1>4, <1>5

\* Runs: the marks pass to the run that is created, and the run builds them
\* into silver or strands them.
LEMMA RunsTakeAnnouncements ==
    ASSUME ChainInv, AnnouncementsAreKept, NEW d \in Chain!Dags,
           \/ Chain!CreateRun(d) \/ Chain!BuildModels(d) \/ Chain!RunEnds(d) \/ Chain!RunFails(d)
    PROVE  AnnouncementsAreKept'
  <1>0. /\ "gold" \notin Sources /\ run \in [Chain!Dags -> DagRuns]
        /\ silver \in [Sources -> Nat] /\ DOMAIN updated = Chain!Dags
        /\ \A q \in Sources : told[q] \in 0..bronze[q]
        /\ bronze \in [Sources -> Nat]
    BY ChainTyped, SchedulesAssumption DEF ChainInv, LayersTyped, Chain!ChainAssumption
  <1>1. SUFFICES ASSUME NEW s \in Sources
                 PROVE  \/ silver'[s] >= told'[s] \/ s \in stranded'
                        \/ <<"bronze", s>> \in updated'[s] \/ run'[s].at = "running"
    BY DEF AnnouncementsAreKept
  <1>2. \/ silver[s] >= told[s] \/ s \in stranded
        \/ <<"bronze", s>> \in updated[s] \/ run[s].at = "running"
    BY <1>1 DEF AnnouncementsAreKept
  <1>3. s \in Chain!Dags /\ s # "gold"
    BY <1>0, <1>1 DEF Chain!Dags
  <1>4. CASE Chain!CreateRun(d)
    <2>1. UNCHANGED <<silver, told, stranded>>
      BY <1>4 DEF Chain!CreateRun, Chain!data
    <2>2. CASE s = d
      <3>1. run'[s].at = "running"
        BY <1>0, <1>3, <1>4, <2>2 DEF Chain!CreateRun
      <3>. QED
        BY <3>1
    <2>3. CASE s # d
      <3>1. run'[s] = run[s] /\ updated'[s] = updated[s]
        BY <1>0, <1>3, <1>4, <2>3 DEF Chain!CreateRun
      <3>. QED
        BY <1>2, <2>1, <3>1
    <2>. QED
      BY <2>2, <2>3
  <1>5. CASE Chain!BuildModels(d)
    <2>1. UNCHANGED <<bronze, told, updated>>
      BY <1>5 DEF Chain!BuildModels
    <2>2. CASE s = d
      <3>1. silver'[s] = bronze[s]
        BY <1>0, <1>3, <1>5, <2>2 DEF Chain!BuildModels
      <3>2. bronze[s] >= told[s]
        BY <1>0
      <3>. QED
        BY <2>1, <3>1, <3>2
    <2>3. CASE s # d
      <3>1. run'[s] = run[s] /\ silver'[s] = silver[s] /\ (s \in stranded => s \in stranded')
        BY <1>0, <1>3, <1>5, <2>3 DEF Chain!BuildModels
      <3>. QED
        BY <1>2, <2>1, <3>1
    <2>. QED
      BY <2>2, <2>3
  <1>6. CASE Chain!RunEnds(d)
    <2>1. UNCHANGED <<silver, told, stranded>>
      BY <1>6 DEF Chain!RunEnds, Chain!data
    <2>2. <<"bronze", s>> \in updated[s] => <<"bronze", s>> \in updated'[s]
      BY <1>0, <1>6, UpdatesMark DEF Chain!RunEnds
    <2>3. run[s].at = "running" => run'[s].at = "running"
      BY <1>0, <1>3, <1>6 DEF Chain!RunEnds, Chain!Over
    <2>. QED
      BY <1>2, <2>1, <2>2, <2>3
  <1>7. CASE Chain!RunFails(d)
    <2>1. UNCHANGED <<silver, told, updated>> /\ stranded \subseteq stranded'
      BY <1>7 DEF Chain!RunFails, Chain!data
    <2>2. CASE s = d
      <3>1. silver[s] < told[s] => s \in stranded'
        BY <1>7, <2>2 DEF Chain!RunFails
      <3>2. silver[s] \in Nat /\ told[s] \in Nat
        BY <1>0
      <3>. QED
        BY <2>1, <3>1, <3>2
    <2>3. CASE s # d
      <3>1. run'[s] = run[s]
        BY <1>0, <1>3, <1>7, <2>3 DEF Chain!RunFails, Chain!Over
      <3>. QED
        BY <1>2, <2>1, <3>1
    <2>. QED
      BY <2>2, <2>3
  <1>. QED
    BY <1>4, <1>5, <1>6, <1>7

\* What silver was told of is never quietly lost: loads that bronze_watch or a CSV
\* load announced are in silver, are marked for or in the hands of a silver run
\* that is about to build, or the last silver run of their source failed
\* (bronze_factory.py, csv_ingest_factory.py, silver_factory.py).
THEOREM NoAnnouncementIsLost == Spec => []AnnouncementsAreKept
  <1>1. Init => ChainInv /\ AnnouncementsAreKept
    <2>1. Chain!Init => AnnouncementsAreKept
      BY DEF Chain!Init, AnnouncementsAreKept
    <2>. QED
      BY <2>1, ChainStarts DEF Init
  <1>2. ChainInv /\ AnnouncementsAreKept /\ [Next]_vars => ChainInv' /\ AnnouncementsAreKept'
    <2>. SUFFICES ASSUME ChainInv, AnnouncementsAreKept, [Chain!Next]_chainVars
                  PROVE  AnnouncementsAreKept'
      BY ChainStep, ChainKeeps
    <2>1. CASE UNCHANGED <<silver, told, stranded, updated, run>>
      BY <2>1 DEF AnnouncementsAreKept
    <2>2. CASE Chain!StartSetup \/ Chain!StepSucceeds \/ Chain!StepFails
      <3>1. UNCHANGED <<silver, told, stranded, updated, run>>
        BY <2>2 DEF Chain!StartSetup, Chain!StepSucceeds, Chain!StartStep, Chain!StepFails,
                    Chain!data, Chain!airflow
      <3>. QED
        BY <2>1, <3>1
    <2>. QED
      BY <2>1, <2>2, LoadsAreAnnounced, RunsTakeAnnouncements DEF Chain!Next, chainVars
  <1>. QED
    BY <1>1, <1>2, PTL DEF Spec

-----------------------------------------------------------------------------
(* The governance run *)

\* A task that may be tried once more has a try left.
TryIsLeft ==
    \A t \in Governance!Tasks : task[t].at \in {"none", "waits"} => task[t].tries <= Retries

\* Inductive invariant of the governance run; every regenerated token is a fault.
GovernanceInv == Governance!GovernanceTypeOK /\ TryIsLeft /\ bot <= faults

\* The records of a task instance while OpenMetadata has given out tokens up to b.
TaskRecords(b) ==
    [at : {"none", "running", "hangs", "waits", "success", "failed", "upstream_failed"},
     tries : 0..Retries + 1, token : 0..b]

\* The constants, and the finite set of the tasks that hold a slot.
LEMMA GovernanceFacts ==
    /\ Retries \in Nat /\ MaxActive \in Nat /\ MaxFaults \in Nat
    /\ IsFiniteSet(Governance!Busy) /\ Cardinality(Governance!Busy) \in Nat
  <1>1. IsFiniteSet(Sides) /\ Retries \in Nat /\ MaxActive \in Nat /\ MaxFaults \in Nat
    BY SchedulesAssumption, SameCardinality DEF Governance!GovernanceAssumption
  <1>2. IsFiniteSet({"catalog", "dbt", "enrich"})
    <2>1. IsFiniteSet({} \cup {"catalog"})
      BY FS_EmptySet, FS_AddElement
    <2>2. IsFiniteSet(({} \cup {"catalog"}) \cup {"dbt"})
      BY <2>1, FS_AddElement
    <2>3. IsFiniteSet((({} \cup {"catalog"}) \cup {"dbt"}) \cup {"enrich"})
      BY <2>2, FS_AddElement
    <2>4. (({} \cup {"catalog"}) \cup {"dbt"}) \cup {"enrich"} = {"catalog", "dbt", "enrich"}
      OBVIOUS
    <2>. QED
      BY <2>3, <2>4
  <1>3. IsFiniteSet(Governance!Tasks)
    BY <1>1, <1>2, FS_Union DEF Governance!Tasks
  <1>4. IsFiniteSet(Governance!Busy)
    <2>1. Governance!Busy \in SUBSET Governance!Tasks
      BY DEF Governance!Busy
    <2>. QED
      BY <1>3, <2>1, FS_Subset
  <1>. QED
    BY <1>1, <1>4, FS_CardinalityType

\* A token that is refused changes nothing but its number.
LEMMA RegenerateKeeps ==
    ASSUME GovernanceInv, Governance!Regenerate
    PROVE  GovernanceInv'
  <1>1. /\ faults < MaxFaults /\ faults' = faults + 1 /\ bot' = bot + 1
        /\ UNCHANGED <<secret, rotator, active, task>>
    BY DEF Governance!Regenerate, Governance!Fault
  <1>2. /\ bot \in 0..MaxFaults /\ faults \in 0..MaxFaults /\ bot <= faults
        /\ MaxFaults \in Nat
    BY GovernanceFacts DEF GovernanceInv, Governance!GovernanceTypeOK
  <1>3. 0..bot \subseteq 0..bot' /\ bot' \in 0..MaxFaults /\ faults' \in 0..MaxFaults
        /\ bot' <= faults'
    BY <1>1, <1>2
  <1>4. /\ secret' \in [{"uwv-meta", "uwv-platform"} -> 0..bot']
        /\ rotator' \in [at : {"idle", "primary", "mirror"}, token : 0..bot']
    BY <1>1, <1>3 DEF GovernanceInv, Governance!GovernanceTypeOK
  <1>5. task' \in [Governance!Tasks -> TaskRecords(bot')]
    <2>1. task \in [Governance!Tasks -> TaskRecords(bot)]
      BY DEF GovernanceInv, Governance!GovernanceTypeOK, TaskRecords
    <2>2. TaskRecords(bot) \subseteq TaskRecords(bot')
      BY <1>3 DEF TaskRecords
    <2>. QED
      BY <1>1, <2>1, <2>2
  <1>6. Governance!Busy' = Governance!Busy
    BY <1>1 DEF Governance!Busy, Governance!Tasks
  <1>7. Governance!GovernanceTypeOK'
    BY <1>1, <1>3, <1>4, <1>5, <1>6
    DEF GovernanceInv, Governance!GovernanceTypeOK, TaskRecords, Governance!Tasks
  <1>. QED
    BY <1>1, <1>3, <1>7 DEF GovernanceInv, TryIsLeft, Governance!Tasks

\* The CronJob copies a token that OpenMetadata gave out, or fails.
LEMMA RotatorKeeps ==
    ASSUME GovernanceInv,
           \/ Governance!ReadToken \/ Governance!PatchPrimary
           \/ Governance!PatchMirror \/ Governance!RotatorFails
    PROVE  GovernanceInv'
  <1>0. /\ bot \in 0..MaxFaults /\ faults \in 0..MaxFaults /\ bot <= faults
        /\ MaxFaults \in Nat
        /\ secret \in [{"uwv-meta", "uwv-platform"} -> 0..bot]
        /\ rotator \in [at : {"idle", "primary", "mirror"}, token : 0..bot]
    BY GovernanceFacts DEF GovernanceInv, Governance!GovernanceTypeOK
  <1>1. /\ UNCHANGED <<bot, active, task>>
        /\ faults' = faults \/ (faults < MaxFaults /\ faults' = faults + 1)
    BY DEF Governance!ReadToken, Governance!PatchPrimary, Governance!PatchMirror,
           Governance!RotatorFails, Governance!Fault
  <1>2. /\ secret' \in [{"uwv-meta", "uwv-platform"} -> 0..bot]
        /\ rotator' \in [at : {"idle", "primary", "mirror"}, token : 0..bot]
    <2>1. Governance!Asleep \in [at : {"idle", "primary", "mirror"}, token : 0..bot]
      BY <1>0 DEF Governance!Asleep
    <2>2. CASE Governance!ReadToken
      BY <1>0, <2>2 DEF Governance!ReadToken
    <2>3. CASE Governance!PatchPrimary
      BY <1>0, <2>3 DEF Governance!PatchPrimary
    <2>4. CASE Governance!PatchMirror
      BY <1>0, <2>1, <2>4 DEF Governance!PatchMirror
    <2>5. CASE Governance!RotatorFails
      BY <1>0, <2>1, <2>5 DEF Governance!RotatorFails
    <2>. QED
      BY <2>2, <2>3, <2>4, <2>5
  <1>3. faults' \in 0..MaxFaults /\ bot <= faults'
    BY <1>0, <1>1
  <1>4. Governance!Busy' = Governance!Busy
    BY <1>1 DEF Governance!Busy, Governance!Tasks
  <1>5. Governance!GovernanceTypeOK'
    BY <1>0, <1>1, <1>2, <1>3, <1>4
    DEF GovernanceInv, Governance!GovernanceTypeOK, Governance!Tasks
  <1>. QED
    BY <1>1, <1>3, <1>5 DEF GovernanceInv, TryIsLeft, Governance!Tasks

\* A task's new record keeps the invariant when it takes no slot, or takes one
\* that is free.
LEMMA TaskMoves ==
    ASSUME GovernanceInv, NEW t \in Governance!Tasks, NEW x \in TaskRecords(bot),
           task' = [task EXCEPT ![t] = x],
           x.at \in {"none", "waits"} => x.tries <= Retries,
           \/ x.at \notin {"running", "hangs"}
           \/ task[t].at \in {"running", "hangs"}
           \/ Governance!Cardinality(Governance!Busy) < MaxActive,
           faults' = faults \/ (faults < MaxFaults /\ faults' = faults + 1),
           UNCHANGED <<bot, secret, rotator, active>>
    PROVE  GovernanceInv'
  <1>0. /\ bot \in 0..MaxFaults /\ faults \in 0..MaxFaults /\ bot <= faults
        /\ MaxFaults \in Nat /\ task \in [Governance!Tasks -> TaskRecords(bot)]
        /\ Governance!Cardinality(Governance!Busy) <= MaxActive
    BY GovernanceFacts DEF GovernanceInv, Governance!GovernanceTypeOK, TaskRecords
  <1>1. /\ task' \in [Governance!Tasks -> TaskRecords(bot)] /\ task'[t] = x
        /\ \A u \in Governance!Tasks \ {t} : task'[u] = task[u]
    BY <1>0
  <1>2. faults' \in 0..MaxFaults /\ bot <= faults'
    BY <1>0
  <1>3. Governance!Busy' = {u \in Governance!Tasks : task'[u].at \in {"running", "hangs"}}
    BY DEF Governance!Busy, Governance!Tasks
  <1>. DEFINE now == Governance!Busy'
  <1>4. Cardinality(now) <= MaxActive
    <2>1. CASE x.at \notin {"running", "hangs"} \/ task[t].at \in {"running", "hangs"}
      <3>1. now \in SUBSET Governance!Busy
        BY <1>1, <1>3, <2>1 DEF Governance!Busy
      <3>. HIDE DEF now
      <3>2. Cardinality(now) \in Nat /\ Cardinality(now) <= Cardinality(Governance!Busy)
        BY <3>1, GovernanceFacts, FS_Subset, FS_CardinalityType
      <3>. QED
        BY <1>0, <3>2, GovernanceFacts, SameCardinality
    <2>2. CASE Governance!Cardinality(Governance!Busy) < MaxActive
      <3>1. now \in SUBSET (Governance!Busy \cup {t})
        BY <1>1, <1>3 DEF Governance!Busy
      <3>. HIDE DEF now
      <3>2. /\ IsFiniteSet(Governance!Busy \cup {t})
            /\ Cardinality(Governance!Busy \cup {t}) <= Cardinality(Governance!Busy) + 1
            /\ Cardinality(Governance!Busy \cup {t}) \in Nat
        <4>1. /\ IsFiniteSet(Governance!Busy \cup {t})
              /\ Cardinality(Governance!Busy \cup {t}) =
                    IF t \in Governance!Busy THEN Cardinality(Governance!Busy)
                                             ELSE Cardinality(Governance!Busy) + 1
          BY GovernanceFacts, FS_AddElement
        <4>. QED
          BY <4>1, GovernanceFacts
      <3>3. Cardinality(now) \in Nat
            /\ Cardinality(now) <= Cardinality(Governance!Busy \cup {t})
        BY <3>1, <3>2, FS_Subset, FS_CardinalityType
      <3>. QED
        BY <2>2, <3>2, <3>3, GovernanceFacts, SameCardinality
    <2>. QED
      BY <2>1, <2>2
  <1>. HIDE DEF now
  <1>5. Governance!Cardinality(Governance!Busy') <= MaxActive
    BY <1>4, SameCardinality DEF now
  <1>6. Governance!GovernanceTypeOK'
    BY <1>0, <1>1, <1>2, <1>5
    DEF GovernanceInv, Governance!GovernanceTypeOK, TaskRecords, Governance!Tasks
  <1>7. TryIsLeft'
    BY <1>1 DEF GovernanceInv, TryIsLeft, Governance!Tasks
  <1>. QED
    BY <1>2, <1>6, <1>7 DEF GovernanceInv

\* A new run has no task behind it; a run is over when all its tasks are.
LEMMA DagRunKeeps ==
    ASSUME GovernanceInv, Governance!CreateRun \/ Governance!FinishRun
    PROVE  GovernanceInv'
  <1>0. /\ bot \in 0..MaxFaults /\ Retries \in Nat /\ MaxActive \in Nat
    BY GovernanceFacts DEF GovernanceInv, Governance!GovernanceTypeOK
  <1>1. CASE Governance!CreateRun
    <2>1. /\ active' = TRUE /\ task' = [t \in Governance!Tasks |-> Governance!NoTask]
          /\ UNCHANGED <<bot, secret, rotator, faults>>
      BY <1>1 DEF Governance!CreateRun
    <2>2. /\ Governance!NoTask \in TaskRecords(bot) /\ Governance!NoTask.at = "none"
          /\ Governance!NoTask.tries = 0
      BY <1>0 DEF Governance!NoTask, TaskRecords
    <2>3. Governance!Busy' = {u \in Governance!Tasks : task'[u].at \in {"running", "hangs"}}
      BY DEF Governance!Busy, Governance!Tasks
    <2>4. Governance!Busy' = {}
      BY <2>1, <2>2, <2>3
    <2>5. Governance!Cardinality(Governance!Busy') <= MaxActive
      BY <1>0, <2>4, SameCardinality, FS_EmptySet
    <2>6. task' \in [Governance!Tasks -> TaskRecords(bot)]
      BY <2>1, <2>2
    <2>7. Governance!GovernanceTypeOK'
      BY <2>1, <2>5, <2>6
      DEF GovernanceInv, Governance!GovernanceTypeOK, TaskRecords, Governance!Tasks
    <2>8. TryIsLeft'
      BY <1>0, <2>1, <2>2 DEF TryIsLeft, Governance!Tasks
    <2>. QED
      BY <2>1, <2>7, <2>8 DEF GovernanceInv
  <1>2. CASE Governance!FinishRun
    <2>1. active' = FALSE /\ UNCHANGED <<bot, secret, rotator, task, faults>>
      BY <1>2 DEF Governance!FinishRun
    <2>2. Governance!Busy' = Governance!Busy
      BY <2>1 DEF Governance!Busy, Governance!Tasks
    <2>. QED
      BY <2>1, <2>2
      DEF GovernanceInv, TryIsLeft, Governance!GovernanceTypeOK, Governance!Tasks
  <1>. QED
    BY <1>1, <1>2

\* A try starts within the cap, and while there is one left.
LEMMA StartTryKeeps ==
    ASSUME GovernanceInv, NEW t \in Governance!Tasks, Governance!StartTry(t)
    PROVE  GovernanceInv'
  <1>0. /\ task \in [Governance!Tasks -> TaskRecords(bot)] /\ Retries \in Nat /\ bot \in Nat
        /\ secret["uwv-platform"] \in 0..bot
    BY GovernanceFacts DEF GovernanceInv, Governance!GovernanceTypeOK, TaskRecords
  <1>. DEFINE x == [at |-> "running", tries |-> task[t].tries + 1,
                    token |-> secret["uwv-platform"]]
  <1>1. /\ task[t].at \in {"none", "waits"} /\ task' = [task EXCEPT ![t] = x]
        /\ Governance!Cardinality(Governance!Busy) < MaxActive
        /\ UNCHANGED <<bot, secret, rotator, active, faults>>
    BY <1>0 DEF Governance!StartTry
  <1>2. task[t].tries \in 0..Retries
    BY <1>0, <1>1 DEF GovernanceInv, TryIsLeft, TaskRecords
  <1>3. x \in TaskRecords(bot) /\ x.at = "running"
    BY <1>0, <1>2 DEF TaskRecords
  <1>. HIDE DEF x
  <1>. QED
    BY <1>1, <1>3, TaskMoves

\* A task that runs ends, waits for its next try or hangs; one whose upstream
\* failed is not tried.
LEMMA TaskEndsKeeps ==
    ASSUME GovernanceInv, NEW t \in Governance!Tasks,
           \/ Governance!TrySucceeds(t) \/ Governance!TryFails(t) \/ Governance!TryHangs(t)
           \/ Governance!TimesOut(t) \/ Governance!UpstreamFailed(t)
    PROVE  GovernanceInv'
  <1>0. task \in [Governance!Tasks -> TaskRecords(bot)] /\ task[t] \in TaskRecords(bot)
    BY DEF GovernanceInv, Governance!GovernanceTypeOK, TaskRecords
  <1>1. PICK at \in {"hangs", "waits", "success", "failed", "upstream_failed"} :
           /\ task' = [task EXCEPT ![t].at = at]
           /\ at = "waits" => task[t].tries <= Retries
           /\ at = "hangs" => task[t].at = "running"
    <2>1. ASSUME Governance!NoSuccess(t)
          PROVE  \/ task' = [task EXCEPT ![t].at = "waits"] /\ task[t].tries <= Retries
                 \/ task' = [task EXCEPT ![t].at = "failed"]
      BY <2>1 DEF Governance!NoSuccess
    <2>. QED
      BY <2>1 DEF Governance!TrySucceeds, Governance!TryFails, Governance!TryHangs,
                  Governance!TimesOut, Governance!UpstreamFailed
  <1>2. /\ faults' = faults \/ (faults < MaxFaults /\ faults' = faults + 1)
        /\ UNCHANGED <<bot, secret, rotator, active>>
    BY DEF Governance!TrySucceeds, Governance!TryFails, Governance!TryHangs,
           Governance!TimesOut, Governance!UpstreamFailed, Governance!Fault
  <1>. DEFINE x == [task[t] EXCEPT !.at = at]
  <1>3. x \in TaskRecords(bot) /\ x.at = at /\ x.tries = task[t].tries
    BY <1>0, <1>1 DEF TaskRecords
  <1>4. task' = [task EXCEPT ![t] = x]
    BY <1>0, <1>1
  <1>. HIDE DEF x
  <1>. QED
    BY <1>1, <1>2, <1>3, <1>4, TaskMoves

\* GovernanceInv holds at the start.
LEMMA GovernanceStarts == Governance!Init => GovernanceInv
  <1>. SUFFICES ASSUME Governance!Init PROVE GovernanceInv
    OBVIOUS
  <1>1. /\ bot = 0 /\ secret = [ns \in {"uwv-meta", "uwv-platform"} |-> 0]
        /\ rotator = Governance!Asleep /\ active = FALSE /\ faults = 0
        /\ task = [t \in Governance!Tasks |-> Governance!NoTask]
    BY DEF Governance!Init
  <1>2. /\ Governance!NoTask \in TaskRecords(0) /\ Governance!NoTask.at = "none"
        /\ Governance!NoTask.tries = 0
        /\ Governance!Asleep \in [at : {"idle", "primary", "mirror"}, token : 0..0]
        /\ Retries \in Nat /\ MaxActive \in Nat /\ MaxFaults \in Nat
    BY GovernanceFacts DEF Governance!NoTask, TaskRecords, Governance!Asleep
  <1>3. Governance!Busy = {}
    BY <1>1, <1>2 DEF Governance!Busy
  <1>4. Governance!Cardinality(Governance!Busy) <= MaxActive
    BY <1>2, <1>3, SameCardinality, FS_EmptySet
  <1>5. task \in [Governance!Tasks -> TaskRecords(0)]
    BY <1>1, <1>2
  <1>6. Governance!GovernanceTypeOK
    <2>1. bot \in 0..MaxFaults /\ faults \in 0..MaxFaults
      BY <1>1, <1>2
    <2>2. active \in BOOLEAN
      BY <1>1
    <2>3. /\ secret \in [{"uwv-meta", "uwv-platform"} -> 0..bot]
          /\ rotator \in [at : {"idle", "primary", "mirror"}, token : 0..bot]
          /\ task \in [Governance!Tasks -> TaskRecords(bot)]
      BY <1>1, <1>2, <1>5
    <2>. QED
      BY <1>4, <2>1, <2>2, <2>3 DEF Governance!GovernanceTypeOK, TaskRecords
  <1>. QED
    BY <1>1, <1>2, <1>6 DEF GovernanceInv, TryIsLeft

\* Every step of the governance run keeps GovernanceInv.
LEMMA GovernanceKeeps == GovernanceInv /\ [Governance!Next]_governanceVars => GovernanceInv'
  <1>. SUFFICES ASSUME GovernanceInv, [Governance!Next]_governanceVars
                PROVE  GovernanceInv'
    OBVIOUS
  <1>1. CASE UNCHANGED governanceVars
    <2>1. Governance!Busy' = Governance!Busy
      BY <1>1 DEF governanceVars, Governance!Busy, Governance!Tasks
    <2>. QED
      BY <1>1, <2>1
      DEF governanceVars, GovernanceInv, TryIsLeft, Governance!GovernanceTypeOK,
          Governance!Tasks
  <1>2. CASE Governance!Regenerate
    BY <1>2, RegenerateKeeps
  <1>3. CASE \/ Governance!ReadToken \/ Governance!PatchPrimary
             \/ Governance!PatchMirror \/ Governance!RotatorFails
    BY <1>3, RotatorKeeps
  <1>4. CASE Governance!CreateRun \/ Governance!FinishRun
    BY <1>4, DagRunKeeps
  <1>5. ASSUME NEW t \in Governance!Tasks, Governance!StartTry(t) PROVE GovernanceInv'
    BY <1>5, StartTryKeeps
  <1>6. ASSUME NEW t \in Governance!Tasks,
               \/ Governance!TrySucceeds(t) \/ Governance!TryFails(t)
               \/ Governance!TryHangs(t) \/ Governance!TimesOut(t)
               \/ Governance!UpstreamFailed(t)
        PROVE  GovernanceInv'
    BY <1>6, TaskEndsKeeps
  <1>. QED
    BY <1>1, <1>2, <1>3, <1>4, <1>5, <1>6 DEF Governance!Next

\* A step of the three parts is one of the governance run or leaves it alone.
LEMMA GovernanceStep == [Next]_vars => [Governance!Next]_governanceVars
  BY DEF Next, vars, observatoryVars, chainVars, governanceVars

-----------------------------------------------------------------------------
\* The types of the three parts: among them that an issue carries only labels
\* that exist, no layer is ahead of the one below, the bootstrap waits only for
\* runs that are queued or active, and the governance run keeps to its retries
\* and to its cap on active tasks.
THEOREM SchedulesAreTyped == Spec => []SchedulesTypeOK
  <1>. DEFINE Inv == ObservatoryInv /\ ChainInv /\ GovernanceInv
  <1>1. Init => Inv
    BY ObservatoryStarts, ChainStarts, GovernanceStarts DEF Init
  <1>2. Inv /\ [Next]_vars => Inv'
    BY ObservatoryStep, ObservatoryKeeps, ChainStep, ChainKeeps, GovernanceStep, GovernanceKeeps
  <1>3. Inv => SchedulesTypeOK
    BY DEF SchedulesTypeOK, ObservatoryInv, ChainInv, GovernanceInv
  <1>. QED
    BY <1>1, <1>2, <1>3, PTL DEF Spec

\* A task that was tried has the output of the tasks before it: the enricher runs
\* on artifacts that dbt's ingestion put there in the same run.
InputsSucceeded ==
    \A t \in Governance!Tasks :
       task[t].at \in {"running", "hangs", "waits", "success", "failed"} =>
          \A u \in Governance!Upstream(t) : task[u].at = "success"

\* An active run is never stuck: a try is under way, a task may be tried and the
\* cap leaves room for it, a task is to be given up, or the run may finish.
RunGoesOn ==
    active =>
       \/ \E t \in Governance!Tasks : task[t].at \in {"running", "hangs"}
       \/ /\ Governance!Cardinality(Governance!Busy) < MaxActive
          /\ \E t \in Governance!Tasks :
                /\ task[t].at \in {"none", "waits"}
                /\ \A u \in Governance!Upstream(t) : task[u].at = "success"
       \/ \E t \in Governance!Tasks :
             /\ task[t].at = "none"
             /\ \E u \in Governance!Upstream(t) : task[u].at \in {"failed", "upstream_failed"}
       \/ \A t \in Governance!Tasks : task[t].at \in {"success", "failed", "upstream_failed"}

\* What comes before a task is another task.
LEMMA UpstreamTasks ==
    /\ {"catalog", "dbt"} \subseteq Governance!Tasks
    /\ Governance!Upstream("catalog") = {} /\ Governance!Upstream("dbt") = {"catalog"}
    /\ \A t \in Governance!Tasks :
          /\ Governance!Upstream(t) \subseteq {"catalog", "dbt"}
          /\ t \notin Governance!Upstream(t)
  BY DEF Governance!Tasks, Governance!Upstream

\* A task that has not succeeded may change as long as it is tried with its
\* inputs only: nobody else counts on it yet.
LEMMA MoveKeepsInputs ==
    ASSUME InputsSucceeded, NEW t \in Governance!Tasks, task[t].at # "success",
           \A u \in Governance!Tasks \ {t} : task'[u] = task[u],
           task'[t].at \in {"running", "hangs", "waits", "success", "failed"} =>
              \A u \in Governance!Upstream(t) : task[u].at = "success"
    PROVE  InputsSucceeded'
  <1>1. Governance!Tasks' = Governance!Tasks
    BY DEF Governance!Tasks
  <1>2. SUFFICES ASSUME NEW v \in Governance!Tasks,
                        task'[v].at \in {"running", "hangs", "waits", "success", "failed"},
                        NEW u \in Governance!Upstream(v)
                 PROVE  task'[u].at = "success"
    BY <1>1 DEF InputsSucceeded, Governance!Upstream
  <1>3. u \in Governance!Tasks /\ u # v
    BY <1>2, UpstreamTasks
  <1>4. task[u].at = "success"
    BY <1>2 DEF InputsSucceeded
  <1>. QED
    BY <1>3, <1>4

\* Every step of the governance run keeps the order of its tasks.
LEMMA InputsKept ==
    ASSUME GovernanceInv, InputsSucceeded, [Governance!Next]_governanceVars
    PROVE  InputsSucceeded'
  <1>0. task \in [Governance!Tasks -> TaskRecords(bot)]
    BY DEF GovernanceInv, Governance!GovernanceTypeOK, TaskRecords
  <1>1. CASE UNCHANGED task
    BY <1>1 DEF InputsSucceeded, Governance!Tasks, Governance!Upstream
  <1>2. CASE Governance!CreateRun
    <2>1. \A t \in Governance!Tasks : task'[t].at = "none"
      BY <1>2 DEF Governance!CreateRun, Governance!NoTask
    <2>. QED
      BY <2>1 DEF InputsSucceeded, Governance!Tasks
  <1>3. ASSUME NEW t \in Governance!Tasks, Governance!StartTry(t) PROVE InputsSucceeded'
    <2>1. /\ task[t].at # "success" /\ \A u \in Governance!Tasks \ {t} : task'[u] = task[u]
          /\ \A u \in Governance!Upstream(t) : task[u].at = "success"
      BY <1>0, <1>3 DEF Governance!StartTry
    <2>. QED
      BY <2>1, MoveKeepsInputs
  <1>4. ASSUME NEW t \in Governance!Tasks,
               \/ Governance!TrySucceeds(t) \/ Governance!TryFails(t)
               \/ Governance!TryHangs(t) \/ Governance!TimesOut(t)
        PROVE  InputsSucceeded'
    <2>1. task[t].at \in {"running", "hangs"}
      BY <1>4 DEF Governance!TrySucceeds, Governance!TryFails, Governance!TryHangs,
                  Governance!TimesOut
    <2>2. \A u \in Governance!Tasks \ {t} : task'[u] = task[u]
      BY <1>0, <1>4 DEF Governance!TrySucceeds, Governance!TryFails, Governance!TryHangs,
                        Governance!TimesOut, Governance!NoSuccess
    <2>3. \A u \in Governance!Upstream(t) : task[u].at = "success"
      BY <2>1 DEF InputsSucceeded
    <2>. QED
      BY <2>1, <2>2, <2>3, MoveKeepsInputs
  <1>5. ASSUME NEW t \in Governance!Tasks, Governance!UpstreamFailed(t)
        PROVE  InputsSucceeded'
    <2>1. /\ task[t].at # "success" /\ \A u \in Governance!Tasks \ {t} : task'[u] = task[u]
          /\ task'[t].at = "upstream_failed"
      BY <1>0, <1>5 DEF Governance!UpstreamFailed, TaskRecords
    <2>. QED
      BY <2>1, MoveKeepsInputs
  <1>. QED
    BY <1>1, <1>2, <1>3, <1>4, <1>5
    DEF Governance!Next, governanceVars, Governance!Regenerate, Governance!ReadToken,
        Governance!PatchPrimary, Governance!PatchMirror, Governance!RotatorFails,
        Governance!FinishRun

\* While no try is under way, whatever a task waits for can move.
LEMMA NeverStuck ==
    ASSUME GovernanceInv, InputsSucceeded, MaxActive # 0
    PROVE  RunGoesOn
  <1>. DEFINE over(t) == task[t].at \in {"success", "failed", "upstream_failed"}
              open(t) == task[t].at \in {"none", "waits"}
              ready(t) == \A u \in Governance!Upstream(t) : task[u].at = "success"
              hopeless(t) ==
                 \E u \in Governance!Upstream(t) : task[u].at \in {"failed", "upstream_failed"}
  <1>1. SUFFICES ASSUME \A t \in Governance!Tasks : task[t].at \notin {"running", "hangs"},
                        NEW t \in Governance!Tasks, ~over(t)
                 PROVE  \E v \in Governance!Tasks :
                           open(v) /\ (ready(v) \/ (task[v].at = "none" /\ hopeless(v)))
    <2>1. Governance!Busy = {} => Governance!Cardinality(Governance!Busy) < MaxActive
      BY GovernanceFacts, SameCardinality, FS_EmptySet
    <2>2. (\A v \in Governance!Tasks : task[v].at \notin {"running", "hangs"})
              => Governance!Busy = {}
      BY DEF Governance!Busy
    <2>. QED
      BY <2>1, <2>2 DEF RunGoesOn
  <1>2. \A v \in Governance!Tasks : open(v) \/ over(v)
    <2>1. task \in [Governance!Tasks -> TaskRecords(bot)]
      BY DEF GovernanceInv, Governance!GovernanceTypeOK, TaskRecords
    <2>. QED
      BY <1>1, <2>1 DEF TaskRecords
  <1>3. \A v \in Governance!Tasks : task[v].at = "waits" => ready(v)
    BY DEF InputsSucceeded
  <1>4. \A v \in Governance!Tasks :
           open(v) /\ ~ready(v) /\ ~(task[v].at = "none" /\ hopeless(v)) =>
              \E u \in Governance!Upstream(v) : open(u)
    BY <1>2, <1>3, UpstreamTasks
  <1>5. open("catalog") => ready("catalog")
    BY UpstreamTasks
  <1>6. open("dbt") => \E v \in {"catalog", "dbt"} :
                          open(v) /\ (ready(v) \/ (task[v].at = "none" /\ hopeless(v)))
    BY <1>4, <1>5, UpstreamTasks
  <1>. QED
    BY <1>1, <1>2, <1>4, <1>5, <1>6, UpstreamTasks

\* Whatever fails, hangs or loses its token, the governance run keeps the order
\* catalog, dbt, enricher and never waits for something that cannot come any more
\* (governance_factory.py: chains, retries, execution_timeout, max_active_tasks).
THEOREM GovernanceNeverStops ==
    ASSUME MaxActive # 0
    PROVE  Spec => [](InputsSucceeded /\ RunGoesOn)
  <1>1. Init => GovernanceInv /\ InputsSucceeded
    <2>1. Governance!Init => InputsSucceeded
      BY DEF Governance!Init, Governance!NoTask, InputsSucceeded
    <2>. QED
      BY <2>1, GovernanceStarts DEF Init
  <1>2. GovernanceInv /\ InputsSucceeded /\ [Next]_vars => GovernanceInv' /\ InputsSucceeded'
    BY GovernanceStep, GovernanceKeeps, InputsKept
  <1>3. GovernanceInv /\ InputsSucceeded => RunGoesOn
    BY NeverStuck
  <1>. QED
    BY <1>1, <1>2, <1>3, PTL DEF Spec
=============================================================================
