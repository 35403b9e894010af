---------------------------- MODULE GovernanceRun ----------------------------
(***************************************************************************)
(* The DAG governance_om_ingest of include/governance_factory.py: every    *)
(* four hours the catalog is ingested into OpenMetadata, then the other    *)
(* services and dbt's artifacts side by side, and the enricher after dbt.  *)
(* All pods hold the ingestion bot's token from the Secret in uwv-platform *)
(* as it was when they started; rotate_jwt.py, a CronJob, copies the token *)
(* an administrator regenerated from OpenMetadata's database to the Secret *)
(* in uwv-meta and then to that one.                                       *)
(***************************************************************************)
EXTENDS Naturals, FiniteSets

CONSTANTS
    Sides,      \* the ingestions beside dbt's: lineage, profiler, Superset, ...
    Retries,    \* retries, 2 in the code
    MaxActive,  \* max_active_tasks, 3 in the code
    MaxFaults   \* bound: failures of any kind, and regenerated tokens

GovernanceAssumption == IsFiniteSet(Sides) /\ {Retries, MaxActive, MaxFaults} \subseteq Nat

Tasks == {"catalog", "dbt", "enrich"} \cup Sides

VARIABLES
    bot,      \* the token OpenMetadata accepts, by its number
    secret,   \* secret[ns] = openmetadata-admin.jwtToken
    rotator,  \* the CronJob's pod and the token it read
    active,   \* a DAG run is active (max_active_runs = 1)
    task,     \* the task instances of the last run
    faults    \* bound

vars == <<bot, secret, rotator, active, task, faults>>

NoTask == [at |-> "none", tries |-> 0, token |-> 0]
Asleep == [at |-> "idle", token |-> 0]

Init ==
    /\ bot = 0 /\ secret = [ns \in {"uwv-meta", "uwv-platform"} |-> 0]
    /\ rotator = Asleep
    /\ active = FALSE /\ task = [t \in Tasks |-> NoTask]
    /\ faults = 0

Fault == faults < MaxFaults /\ faults' = faults + 1

-----------------------------------------------------------------------------
(* rotate_jwt.py *)

\* "Regenerate Token" in OpenMetadata: the bot's old token is refused.
Regenerate ==
    /\ Fault /\ bot' = bot + 1
    /\ UNCHANGED <<secret, rotator, active, task>>

\* fetch_encrypted_token, decrypt
ReadToken ==
    /\ rotator.at = "idle"
    /\ rotator' = [at |-> "primary", token |-> bot]
    /\ UNCHANGED <<bot, secret, active, task, faults>>

\* patch_secret(SECRET_NS)
PatchPrimary ==
    /\ rotator.at = "primary"
    /\ secret' = [secret EXCEPT !["uwv-meta"] = rotator.token]
    /\ rotator' = [rotator EXCEPT !.at = "mirror"]
    /\ UNCHANGED <<bot, active, task, faults>>

\* Mutant: the mirror is never written.
BugPatchMirror ==
    /\ rotator.at = "mirror"
    /\ rotator' = Asleep
    /\ UNCHANGED <<bot, secret, active, task, faults>>

\* patch_secret(MIRROR_NS)
PatchMirror ==
    /\ rotator.at = "mirror"
    /\ secret' = [secret EXCEPT !["uwv-platform"] = rotator.token]
    /\ rotator' = Asleep
    /\ UNCHANGED <<bot, active, task, faults>>

\* The database or the API server refuses; for the mirror this is logged and
\* the job is a success, otherwise the pod fails.  Either way another one
\* comes: at once, or next month.
RotatorFails ==
    /\ rotator.at # "idle" /\ Fault /\ rotator' = Asleep
    /\ UNCHANGED <<bot, secret, active, task>>

-----------------------------------------------------------------------------
(* The DAG *)

Upstream(t) == CASE t = "catalog" -> {} [] t = "enrich" -> {"dbt"} [] OTHER -> {"catalog"}

Busy == {t \in Tasks : task[t].at \in {"running", "hangs"}}

\* schedule, catchup = False: the next run, when the one before is over.
CreateRun ==
    /\ ~active /\ active' = TRUE
    /\ task' = [t \in Tasks |-> NoTask]
    /\ UNCHANGED <<bot, secret, rotator, faults>>

\* The pod of a first try, or of one after the retry delay.
StartTry(t) ==
    /\ active /\ task[t].at \in {"none", "waits"}
    /\ \A u \in Upstream(t) : task[u].at = "success"
    /\ Cardinality(Busy) < MaxActive
    /\ task' = [task EXCEPT ![t] = [at |-> "running", tries |-> @.tries + 1,
                                    token |-> secret["uwv-platform"]]]
    /\ UNCHANGED <<bot, secret, rotator, active, faults>>

TrySucceeds(t) ==
    /\ task[t].at = "running" /\ task[t].token = bot
    /\ task' = [task EXCEPT ![t].at = "success"]
    /\ UNCHANGED <<bot, secret, rotator, active, faults>>

\* A try without success: another one follows while there are retries.
NoSuccess(t) ==
    task' = [task EXCEPT ![t].at = IF task[t].tries <= Retries THEN "waits" ELSE "failed"]

\* A pod fails: its token is refused, or something else goes wrong.
TryFails(t) ==
    /\ task[t].at = "running" /\ NoSuccess(t)
    /\ \/ task[t].token # bot /\ UNCHANGED faults
       \/ Fault
    /\ UNCHANGED <<bot, secret, rotator, active>>

\* An ingestion waits for an answer that does not come.
TryHangs(t) ==
    /\ task[t].at = "running" /\ Fault
    /\ task' = [task EXCEPT ![t].at = "hangs"]
    /\ UNCHANGED <<bot, secret, rotator, active>>

\* Mutant: no execution_timeout.
BugTimesOut(t) ==
    /\ task[t].at = "hangs" /\ t \notin Tasks /\ NoSuccess(t)
    /\ UNCHANGED <<bot, secret, rotator, active, faults>>

\* execution_timeout
TimesOut(t) ==
    /\ task[t].at = "hangs" /\ NoSuccess(t)
    /\ UNCHANGED <<bot, secret, rotator, active, faults>>

UpstreamFailed(t) ==
    /\ task[t].at = "none"
    /\ \E u \in Upstream(t) : task[u].at \in {"failed", "upstream_failed"}
    /\ task' = [task EXCEPT ![t].at = "upstream_failed"]
    /\ UNCHANGED <<bot, secret, rotator, active, faults>>

FinishRun ==
    /\ active /\ \A t \in Tasks : task[t].at \in {"success", "failed", "upstream_failed"}
    /\ active' = FALSE
    /\ UNCHANGED <<bot, secret, rotator, task, faults>>

Next ==
    \/ Regenerate \/ ReadToken \/ PatchPrimary \/ PatchMirror \/ RotatorFails
    \/ CreateRun \/ FinishRun
    \/ \E t \in Tasks :
          \/ StartTry(t) \/ TrySucceeds(t) \/ TryFails(t) \/ TryHangs(t)
          \/ TimesOut(t) \/ UpstreamFailed(t)

\* Kubernetes runs the CronJob and Airflow its scheduler; a pod that does not
\* hang ends, and Airflow ends one that does.
Fairness ==
    /\ WF_vars(ReadToken) /\ WF_vars(PatchPrimary) /\ WF_vars(PatchMirror)
    /\ WF_vars(CreateRun) /\ WF_vars(FinishRun)
    /\ \A t \in Tasks :
          /\ WF_vars(StartTry(t)) /\ WF_vars(UpstreamFailed(t)) /\ WF_vars(TimesOut(t))
          /\ WF_vars(TrySucceeds(t) \/ TryFails(t))

Spec == Init /\ [][Next]_vars /\ Fairness

-----------------------------------------------------------------------------
\* Type invariant; the DAG never exceeds its cap on active tasks.
GovernanceTypeOK ==
    /\ bot \in 0..MaxFaults /\ secret \in [{"uwv-meta", "uwv-platform"} -> 0..bot]
    /\ rotator \in [at : {"idle", "primary", "mirror"}, token : 0..bot]
    /\ active \in BOOLEAN /\ faults \in 0..MaxFaults
    /\ task \in [Tasks -> [at : {"none", "running", "hangs", "waits", "success", "failed",
                                 "upstream_failed"},
                           tries : 0..Retries + 1, token : 0..bot]]
    /\ Cardinality(Busy) <= MaxActive

\* After any faults - failing and hanging pods, a mirror that was not written,
\* tokens regenerated while pods and the CronJob held the old one - the
\* governance run recovers by itself: again and again a run is active, and
\* again and again the enricher succeeds, whose output is the visible one
\* (governance_factory.py:156-159, 45-47).
GovernanceRecovers == []<>active /\ []<>(task["enrich"].at = "success")
=============================================================================
