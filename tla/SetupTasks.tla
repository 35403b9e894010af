----------------------------- MODULE SetupTasks -----------------------------
(***************************************************************************)
(* What the tasks of uc11_full_setup.py do to the resources they share     *)
(* with operators: the SparkApplication of the streaming loader, the seed  *)
(* Job of scripts/seed.sh, the dbt manifest, the duplicates in             *)
(* OpenMetadata and the Job that builds the Superset dashboards.           *)
(* DatasetChain has the same DAG seen from the datasets.                   *)
(*                                                                         *)
(* Tasks have no retries; the last one runs whatever became of the others. *)
(***************************************************************************)
EXTENDS Naturals

CONSTANT MaxSetups  \* bound: runs of the DAG

SetupAssumption == MaxSetups \in Nat

VARIABLES
    app,       \* SparkApplication streaming-bronze
    seedJob,   \* Job seed-data-generation
    raw,       \* the raw zone has files of the seed
    rows,      \* bronze.uwv.persona_created has rows
    marts,     \* the last run whose gold build succeeded, 0 for none
    manifest,  \* uwv-meta/dbt/latest/manifest.json is there
    dups,      \* catalogues of OpenMetadata that list the UC-11 schema twice
    dash,      \* Job superset-dashboards-init
    built,     \* the marts that were there when the dashboards were built
    run        \* the DAG run: its number and task

vars == <<app, seedJob, raw, rows, marts, manifest, dups, dash, built, run>>
lake == <<app, seedJob, raw, rows, marts>>
meta == <<manifest, dups>>
superset == <<dash, built>>

NoJob == [at |-> "none", dying |-> FALSE, saw |-> 0]

\* A Job that starts now.
FreshJob == [NoJob EXCEPT !.at = "running", !.saw = marts]

Init ==
    /\ app = "none" /\ seedJob = "none" /\ raw = FALSE /\ rows = FALSE
    /\ marts = 0 /\ manifest = FALSE /\ dups = {}
    /\ dash = NoJob /\ built = 0
    /\ run = [no |-> 0, at |-> "none"]

-----------------------------------------------------------------------------
(* The rest of the cluster *)

\* make seed: the old Job is deleted, a new one applied.
MakeSeed ==
    /\ seedJob' = "running"
    /\ UNCHANGED <<app, raw, rows, marts, meta, superset, run>>

SeedJobRuns ==
    /\ seedJob = "running"
    /\ \/ raw' = TRUE /\ seedJob' \in {"running", "succeeded", "failed"}
       \/ seedJob' = "failed" /\ UNCHANGED raw
    /\ UNCHANGED <<app, rows, marts, meta, superset, run>>

StreamingRuns ==
    /\ app = "up"
    /\ \/ raw /\ rows' = TRUE /\ UNCHANGED app
       \/ app' = "failed" /\ UNCHANGED rows
    /\ UNCHANGED <<seedJob, raw, marts, meta, superset, run>>

\* kubectl apply of dashboards-init-job.yaml: a Job that exists stays.
ApplyDashboards ==
    /\ dash = NoJob /\ dash' = FreshJob
    /\ UNCHANGED <<lake, meta, built, run>>

\* The pod may still end well while its Job is being deleted.
DashboardsRun ==
    /\ dash.at = "running"
    /\ \/ dash' = [dash EXCEPT !.at = "succeeded"] /\ built' = dash.saw
       \/ dash' = [dash EXCEPT !.at = "failed"] /\ UNCHANGED built
    /\ UNCHANGED <<lake, meta, run>>

\* Deleted, or past ttlSecondsAfterFinished.
DashboardsGone ==
    /\ dash.dying \/ dash.at \in {"succeeded", "failed"}
    /\ dash' = NoJob
    /\ UNCHANGED <<lake, meta, built, run>>

-----------------------------------------------------------------------------
(* The DAG *)

Prepare == {"streaming", "seed", "wait", "marts", "manifest", "ingest", "cleanup"}
Rebuild == {"delete", "gone", "create", "poll"}

At(task) == run.at = task
GoTo(task) == run' = [run EXCEPT !.at = task]

\* Triggered by hand, one run at a time.
StartSetup ==
    /\ run.at \notin Prepare \cup Rebuild /\ run.no < MaxSetups
    /\ run' = [no |-> run.no + 1, at |-> "streaming"]
    /\ UNCHANGED <<lake, meta, superset>>

\* An error, a deadline: the tasks between are upstream_failed, and
\* rebuild_superset_dashboard, with trigger rule ALL_DONE, is next.
PrepareFails ==
    /\ run.at \in Prepare
    /\ GoTo("delete")
    /\ UNCHANGED <<lake, meta, superset>>

\* POST; 409 is fine, also for an application that failed.  The answer to a
\* POST that was carried out may get lost.
EnsureStreaming ==
    /\ At("streaming")
    /\ app' = IF app = "none" THEN "up" ELSE app
    /\ \/ GoTo("seed")
       \/ app = "none" /\ GoTo("delete")
    /\ UNCHANGED <<seedJob, raw, rows, marts, meta, superset>>

\* A Job that has not succeeded is deleted, be it one that still runs, and not
\* created again; an HTTP error is logged.
EnsureSeed ==
    /\ At("seed")
    /\ seedJob' \in {seedJob, IF seedJob = "succeeded" THEN seedJob ELSE "none"}
    /\ GoTo("wait")
    /\ UNCHANGED <<app, raw, rows, marts, meta, superset>>

WaitForBronze ==
    /\ At("wait") /\ rows
    /\ GoTo("marts")
    /\ UNCHANGED <<lake, meta, superset>>

\* The silver DAGs and gold_uc11_klantreis, in whatever state they end.
BuildMarts ==
    /\ At("marts")
    /\ marts' \in {marts, run.no}
    /\ GoTo("manifest")
    /\ UNCHANGED <<app, seedJob, raw, rows, meta, superset>>

\* dbt parse in a fresh pod; without a manifest the task fails.
RenderManifest ==
    /\ At("manifest")
    /\ manifest' = TRUE
    /\ GoTo("ingest")
    /\ UNCHANGED <<lake, dups, superset>>

\* governance_om_ingest, in whatever state it ends: the Hive metastore that
\* the catalogues share makes the schema of a mart appear in each of them.
IngestMetadata ==
    /\ At("ingest")
    /\ dups' \in {dups, {"bronze", "silver"}}
    /\ GoTo("cleanup")
    /\ UNCHANGED <<lake, manifest, superset>>

\* del_by_fqn, with errors that are only logged.
CleanupDuplicates ==
    /\ At("cleanup")
    /\ dups' \in SUBSET dups
    /\ GoTo("delete")
    /\ UNCHANGED <<lake, manifest, superset>>

\* DELETE, foreground; an HTTP error is logged, any other fails the task.
DeleteDashboards ==
    /\ At("delete")
    /\ \/ dash # NoJob /\ dash' = [dash EXCEPT !.dying = TRUE]
       \/ UNCHANGED dash
    /\ GoTo("gone") \/ GoTo("failed")
    /\ UNCHANGED <<lake, meta, built>>

\* Up to 30 polls for a 404; an error that is no answer fails the task.
AwaitDeletion ==
    /\ At("gone")
    /\ GoTo("create") \/ GoTo("failed")
    /\ UNCHANGED <<lake, meta, superset>>

\* As CreateDashboards, with a 409 that is taken for done.
BugCreateDashboards ==
    /\ At("create")
    /\ dash' = IF dash = NoJob THEN FreshJob ELSE dash
    /\ GoTo("poll")
    /\ UNCHANGED <<lake, meta, built>>

\* POST; a 409 or another refusal is an error.  The answer may get lost.
CreateDashboards ==
    /\ At("create")
    /\ \/ dash = NoJob /\ dash' = FreshJob /\ (GoTo("poll") \/ GoTo("failed"))
       \/ UNCHANGED dash /\ GoTo("failed")
    /\ UNCHANGED <<lake, meta, built>>

\* A Job that failed or is gone, or five minutes: the task fails.
PollDashboards ==
    /\ At("poll")
    /\ \/ dash.at = "succeeded" /\ GoTo("success")
       \/ dash.at # "succeeded" /\ GoTo("failed")
    /\ UNCHANGED <<lake, meta, superset>>

Next ==
    \/ MakeSeed \/ SeedJobRuns \/ StreamingRuns
    \/ ApplyDashboards \/ DashboardsRun \/ DashboardsGone
    \/ StartSetup \/ PrepareFails
    \/ EnsureStreaming \/ EnsureSeed \/ WaitForBronze \/ BuildMarts
    \/ RenderManifest \/ IngestMetadata \/ CleanupDuplicates
    \/ DeleteDashboards \/ AwaitDeletion \/ CreateDashboards \/ PollDashboards

Spec == Init /\ [][Next]_vars

-----------------------------------------------------------------------------
\* The values of the variables.
SetupTypeOK ==
    /\ app \in {"none", "up", "failed"}
    /\ seedJob \in {"none", "running", "succeeded", "failed"}
    /\ {raw, rows, manifest, dash.dying} \subseteq BOOLEAN
    /\ marts \in 0..MaxSetups /\ built \in 0..marts /\ dash.saw \in 0..marts
    /\ dups \subseteq {"bronze", "silver"}
    /\ dash.at \in {"none", "running", "succeeded", "failed"}
    /\ run.at \in Prepare \cup Rebuild \cup {"none", "success", "failed"}

\* A run that ended well has dashboards of the marts as they are: the Job it
\* saw succeed is not one that was there before, however the deletion went and
\* whatever operators applied meanwhile (the comment above
\* REBUILD_DASHBOARD_SCRIPT: built after the gold marts exist).
DashboardsFollowMarts == run.at = "success" => built = marts
=============================================================================
