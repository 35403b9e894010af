----------------------------- MODULE Observatory -----------------------------
(***************************************************************************)
(* The agents of the Nanitics observatory (platform/19): watcher and       *)
(* observers look at a signal, look for an earlier Multica issue with its  *)
(* fingerprint and file one when there is none.  A CronJob, an operator    *)
(* and the chat page may each start a run, so runs overlap; every call to  *)
(* Multica may fail, and a POST may be carried out although its answer is  *)
(* lost; the pod may restart at any moment and forgets its runs.           *)
(*                                                                         *)
(* The order of the calls is one of the two that prompts prescribe: the    *)
(* agents' own confirm and then search, the CronJob's task searches before *)
(* it corroborates.  What an agent does that ignores its prompt is not     *)
(* modelled.                                                               *)
(***************************************************************************)
EXTENDS Naturals, FiniteSets

CONSTANTS
    Runs,          \* run ids, a fresh uuid for every run
    Fingerprints,  \* dedup keys of the platform's problems
    Within(_, _),  \* Within(f, g): the text of f occurs in the text of g
    IssueLabels,        \* watcher-filed, severity:*, area:* of an issue
    Seeded         \* the labels that exist in the workspace

SeededAssumption == Seeded \subseteq IssueLabels
WithinAssumption == \A f \in Fingerprints : Within(f, f)

VARIABLES
    firing,    \* the problems that exist now
    agent,     \* agent[r] = how far run r is, and with what
    trace,     \* trace[r] = status of r in the in-memory trace store
    issues,    \* Multica: issues with the run that filed them
    labelIds,  \* the process's cache of label ids
    together   \* history: the pairs of runs that were live at one moment

vars == <<firing, agent, trace, issues, labelIds, together>>

Idle == [pc |-> "idle", on |-> {}, todo |-> {}, ids |-> {}]

Live(r) == agent[r].pc # "idle"

\* The handler of r has not ended: what it does next is known.
At(r, pc) == agent[r].pc = pc

Goto(r, pc) == agent' = [agent EXCEPT ![r].pc = pc]

Init ==
    /\ firing \in SUBSET Fingerprints
    /\ agent = [r \in Runs |-> Idle]
    /\ trace = [r \in Runs |-> "none"]
    /\ issues = {}
    /\ labelIds = {}
    /\ together = {}

-----------------------------------------------------------------------------
(* The platform: a problem appears or goes away. *)

Signal(f) ==
    /\ firing' = IF f \in firing THEN firing \ {f} ELSE firing \cup {f}
    /\ UNCHANGED <<agent, trace, issues, labelIds, together>>

-----------------------------------------------------------------------------
(* One run, from the request to its entry in the trace store. *)

\* _execute_in_background, and _execute through TracedExecutor: the run is
\* registered before its task starts.
StartRun(r) ==
    /\ At(r, "idle") /\ trace[r] = "none"
    /\ \A i \in issues : i.by # r       \* uuid4: an id is never used again
    /\ Goto(r, "signals")
    /\ trace' = [trace EXCEPT ![r] = "running"]
    /\ together' = together \cup {{r, s} : s \in {q \in Runs \ {r} : Live(q)}}
    /\ UNCHANGED <<firing, issues, labelIds>>

\* list_firing_alerts, recent_k8s_warnings or a query picks one problem and
\* goes on in either order; no problem, or an error, ends the investigation.
ListSignals(r) ==
    /\ At(r, "signals")
    /\ \/ \E f \in firing, next \in {"confirm", "search"} :
             agent' = [agent EXCEPT ![r].pc = next, ![r].on = {f}]
       \/ Goto(r, "result")
    /\ UNCHANGED <<firing, trace, issues, labelIds, together>>

\* query_prometheus, search_opensearch_logs, query_trino, openmetadata_get:
\* the evidence confirms the problem as it is now, or the run stops.
Confirm(r) ==
    /\ At(r, "confirm") \/ At(r, "corroborate")
    /\ \/ agent[r].on \subseteq firing
          /\ Goto(r, IF At(r, "confirm") THEN "dedup" ELSE "file")
       \/ Goto(r, "result")
    /\ UNCHANGED <<firing, trace, issues, labelIds, together>>

\* The issues whose description holds the fingerprint as a substring.
Matches(f) == {i \in issues : Within(f, i.about)}

AfterSearch(r) == IF At(r, "dedup") THEN "file" ELSE "corroborate"

\* As FindExisting, an error of the search taken for "no matches".
BugFindExisting(r) ==
    /\ At(r, "dedup") \/ At(r, "search")
    /\ \/ Goto(r, AfterSearch(r))
       \/ Goto(r, "result")
    /\ UNCHANGED <<firing, trace, issues, labelIds, together>>

\* find_existing_multica_tasks: a match means "already tracked"; an error is
\* reported as an error, never as an empty list, and the run stops.
FindExisting(r) ==
    /\ At(r, "dedup") \/ At(r, "search")
    /\ \/ /\ \A f \in agent[r].on : Matches(f) = {}
          /\ Goto(r, AfterSearch(r))
       \/ Goto(r, "result")
    /\ UNCHANGED <<firing, trace, issues, labelIds, together>>

\* As Issue, the labels sent with the issue by name.
BugIssue(r, f) == [by |-> r, about |-> f, labels |-> IssueLabels]

Issue(r, f) == [by |-> r, about |-> f, labels |-> {}]

\* file_multica_task posts title and description, the fingerprint in it.  The
\* issue may exist although the answer never arrives.
FileIssue(r) ==
    /\ At(r, "file")
    /\ \/ \E f \in agent[r].on, answered \in BOOLEAN :
             /\ issues' = issues \cup {Issue(r, f)}
             /\ agent' = IF answered
                         THEN [agent EXCEPT ![r].pc = "resolve", ![r].todo = IssueLabels]
                         ELSE [agent EXCEPT ![r].pc = "result"]
       \/ Goto(r, "result") /\ UNCHANGED issues
    /\ UNCHANGED <<firing, trace, labelIds, together>>

\* _resolve_label_ids: names missing from the cache are looked up once; after
\* a failed lookup the ids known so far are used.
ResolveLabels(r) ==
    /\ At(r, "resolve")
    /\ labelIds' \in IF IssueLabels \subseteq labelIds THEN {labelIds}
                     ELSE {labelIds, labelIds \cup Seeded}
    /\ agent' = [agent EXCEPT ![r].pc = "labels", ![r].ids = labelIds']
    /\ UNCHANGED <<firing, trace, issues, together>>

\* _attach_labels: one POST per label, a label without an id is skipped, a
\* failed POST is noted and the loop goes on.
AttachLabel(r) ==
    /\ At(r, "labels")
    /\ \/ \E l \in agent[r].todo :
             /\ issues' \in IF l \in agent[r].ids
                            THEN {issues, {IF i.by = r THEN [i EXCEPT !.labels = @ \cup {l}]
                                                       ELSE i : i \in issues}}
                            ELSE {issues}
             /\ agent' = [agent EXCEPT ![r].todo = @ \ {l}]
       \/ agent[r].todo = {} /\ Goto(r, "result") /\ UNCHANGED issues
    /\ UNCHANGED <<firing, trace, labelIds, together>>

\* _runner: the agent's answer is stored with the status.
Complete(r) ==
    /\ At(r, "result")
    /\ agent' = [agent EXCEPT ![r] = Idle]
    /\ trace' = [trace EXCEPT ![r] = "completed"]
    /\ UNCHANGED <<firing, issues, labelIds, together>>

\* As RunFails, the status written after close() without a finally.
BugRunFails(r) ==
    /\ Live(r)
    /\ agent' = [agent EXCEPT ![r] = Idle]
    /\ trace' \in {trace, [trace EXCEPT ![r] = "failed"]}
    /\ UNCHANGED <<firing, issues, labelIds, together>>

\* _runner: a call to the model raises between two tools, or the result could
\* not be stored; the finally stores "failed" even when close() raises too.
RunFails(r) ==
    /\ Live(r)
    /\ agent' = [agent EXCEPT ![r] = Idle]
    /\ trace' = [trace EXCEPT ![r] = "failed"]
    /\ UNCHANGED <<firing, issues, labelIds, together>>

\* The Deployment's only pod is replaced: runs, traces and cache are gone.
PodRestarts ==
    /\ \E r \in Runs : trace[r] # "none"
    /\ agent' = [r \in Runs |-> Idle]
    /\ trace' = [r \in Runs |-> "none"]
    /\ labelIds' = {}
    /\ UNCHANGED <<firing, issues, together>>

RunStep(r) ==
    \/ ListSignals(r) \/ Confirm(r) \/ FindExisting(r) \/ FileIssue(r)
    \/ ResolveLabels(r) \/ AttachLabel(r) \/ Complete(r) \/ RunFails(r)

Next ==
    \/ \E f \in Fingerprints : Signal(f)
    \/ \E r \in Runs : StartRun(r) \/ RunStep(r)
    \/ PodRestarts

\* Every call has a timeout, so a task of the event loop gets on.
Fairness == \A r \in Runs : WF_vars(RunStep(r))

Spec == Init /\ [][Next]_vars /\ Fairness

-----------------------------------------------------------------------------
RunRecord ==
    [pc : {"idle", "signals", "confirm", "dedup", "search", "corroborate", "file",
           "resolve", "labels", "result"},
     on : SUBSET Fingerprints, todo : SUBSET IssueLabels, ids : SUBSET IssueLabels]

\* Type invariant of the observatory (app.py and watcher.py): runs carry one
\* problem at most, an issue is filed by a known run, and only seeded labels
\* are ever attached.
ObservatoryTypeOK ==
    /\ firing \subseteq Fingerprints
    /\ agent \in [Runs -> RunRecord]
    /\ \A r \in Runs : Cardinality(agent[r].on) =< 1
    /\ trace \in [Runs -> {"none", "running", "completed", "failed"}]
    /\ issues \subseteq [by : Runs, about : Fingerprints, labels : SUBSET Seeded]
    /\ labelIds \subseteq Seeded
    /\ together \subseteq SUBSET Runs

\* Two issues about one fingerprint are filed only by runs that were live at
\* the same time (find_existing_multica_tasks, file_multica_task): a lost
\* answer, a failed search or a restart never makes a later run file again.
OneIssuePerFingerprint ==
    \A i, j \in issues : (i.about = j.about /\ i.by # j.by) => {i.by, j.by} \in together

\* No run stays "running" (_execute_in_background): it is completed, failed or,
\* after a restart, forgotten, so the chat page that tails it does not wait for
\* ever.
RunsReachAnEnd == \A r \in Runs : []<>(trace[r] # "running")

=============================================================================
