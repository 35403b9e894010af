# Formal models of the UWV data platform

TLA+ models of the platform's own control logic, the TLC configurations that
check them on small instances, and TLAPS proofs of the most important results
for every size. All paths below are relative to the repository. Third-party
services (OpenMetadata, Keycloak, Trino, Airflow, OPA, Delta Lake, Superset,
Fabric, Databricks, Power BI) appear only as far as the code in this repository
uses them.

Run a check with `tlc -config X.cfg MCY.tla`, a proof with `tlapm YProofs.tla`,
both in this directory. `PROJECT.json` maps each definition to the lines it
models and lists runs, mutants, findings, hazards and theorems.

## 1. Inventory

The platform is a Kubernetes lakehouse for a social-security agency. Most of
the repository configures third-party services; its own logic is a set of small
Python services and jobs, Rego policies, Airflow factories and scripts. Parts
in bold are modelled, those in italics partly.

| Part | State | Operations | Interacts with | Hard behaviour | What makes it correct |
|---|---|---|---|---|---|
| **om-access-bridge**, grants (`platform/18-om-access-bridge/app/app.py`) | replay set in memory, per pod | `webhook_om`, `replay`, `grant_role` (six awaited Keycloak calls) | webhooks from OpenMetadata; Keycloak admin API | overlapping deliveries, retries after lost answers, two pods during an update, restarts, roles deleted meanwhile | a role only for a request the bridge takes for approved; nothing remembered that was not granted; a task mapped twice only when the bridge had to forget; no approved request dropped quietly |
| **om-access-bridge**, request form (same file, 299-455 and 626-726) | OpenMetadata's accounts and tasks | create user, resolve owners, create task | portal page; OpenMetadata | two requests of a new user, lookups that fail half-way, owners edited meanwhile | every task has an approver who owned the table, or the steward |
| *OPA policies for Trino* (`opa-policies-src/trino`) | none; reads the bundle | `allow`, row filters, column masks | Trino; bundle from the ConfigMap | complete rules that conflict, undefined bodies, exact key over wildcard | a read is justified by role and purpose; the one mask a grant removes goes back to an approval |
| **OM to OPA sync** (`platform/13-openmetadata-config/om_to_opa_sync.py`) | ConfigMap `data.json` | list tables page by page, merge, PATCH | OpenMetadata, deployments, OPA | read-modify-write with deployments in between; pages of different moments | purposes come from tags or the repository; tags arrive |
| **File ingestion** (`platform/11-airflow/jobs`, `portal/scripts/airflow-bridge.py`, `portal/src/pages/csv-upload.astro`) | staging and processed objects, Delta logs, metastore, DAG runs | upload, trigger, download, append, register, move | S3, Airflow, Trino | pods lost between calls, key triggered again, uploads under a key that is being loaded, parallel conversions, also into a source's table | no file vanishes; processed means loaded; a CSV is repeated only after a failure |
| **Portal notifications**: poller and stream (`portal/scripts/portal-backend.py` from 574) | deque of events, reported runs, a queue per client | poll Airflow, fan out, SSE | Airflow; browsers | coroutines that interleave at awaits, slow clients, restarts | in order and once per connection; prompt clients miss nothing; new failures reported |
| **Portal backend**: recents, favourites, search, Power BI token | SQLite, bounded cache, cached token | post, trim, star, search, mint | browsers, Entra, four search sources | statements of threads interleave; one token call at a time; answers cached | the newest recents stay; tokens shared and still good when used |
| *Portal front end* (`CommandPalette.tsx`, `PowerBIEmbed.tsx`, `NotificationBell.tsx`) | component state | type, select, refresh, reconnect | portal backend | answers after the question changed, replays after reconnects | what is shown belongs to what is selected |
| **Learning portal** (`learn-backend.py`, `learn-progress.ts`) | Keycloak attribute; localStorage | pull, push whole map | browser and backend | whole-map last writer wins; a pull races a push | finished modules stay finished |
| *Nanitics observatory* (`platform/19-nanitics-observatory/app`) | run registry, issues | observe, search, file, label | Prometheus, OpenMetadata, Multica | check-then-file, lost answers, orphaned runs | one issue per fingerprint; runs end |
| **Raw zone, streaming loader, WIA Spark path** (`data-generation/load_to_s3.py`, `spark-jobs`, `dags/transform_wia_spark.py`) | raw files, checkpoint, Delta tables, registrations | write streams, `foreachBatch`, apply and poll applications | S3, Delta, metastore, Spark operator | crash between append and checkpoint; drop and create of a table; names met again | rows arrive; readers find the table; a run's gold reflects its bronze |
| **Airflow dataset chain and bootstrap** (`platform/11-airflow/include`, `dags/uc11_full_setup.py`) | dataset events, shared Jobs, manifest, catalogue | bronze, silver, gold DAGs; the scripts of the bootstrap | Airflow scheduler, Kubernetes, OpenMetadata | a dataset nobody publishes; updates during a run; a last task that hides failures | silver follows bronze; dashboards follow marts |
| **Databricks and Fabric DAGs** (`dags/uc11_databricks.py`, `uc11_fabric.py`) | remote runs | seed, submit, poll, dbt, verify | cloud APIs | overlapping runs, work that outlives its poll | a run that ends well saw a mart of its own seeding or a later one |
| **UC-12 FOCUS seed** (`scripts/fabric-seed-uc12.py`) | OneLake file, notebook, marts | upload in three calls, define, run, verify | Fabric | interrupted and parallel seeds, long-running operations | a seed that ended well built the marts |
| *Deployment scripts* (three upload scripts of `scripts/`) | workspace items, Databricks jobs, Airflow variable | look up by name, create, update, remove | Fabric, Power BI, Databricks | lookups that fail, uploads side by side | what was uploaded is what runs |
| **OpenMetadata jobs**: user sync, dbt enrichment, token rotation, governance DAG | accounts, tables, Secrets | page, upsert, JSON Patch, mirror | Keycloak, OpenMetadata, Kubernetes | offset paging, edits between read and patch, old tokens, hanging tries | users synced, hand edits kept, the DAG recovers |
| Retention and maintenance DAGs | tables | lists of SQL statements | Trino | clean-up against readers | not modelled |
| dbt project, data generators, docs, CI, reports, manifests | – | – | – | data or text, not control | not modelled |

### How the modelled parts fit together

    request form                                 dbt / steward tags a table
    [AccessRequest]                                 |             |
         | task, decided by a steward       [Enrichment]   [OmToOpaSync] <-- deployments
    [AccessBridge] --implements--> [GrantLedger]                  |
         |                              |                         |
    Keycloak roles -> token ------------+---> [DataAccess] <-- [OpaPolicy]
         |                                          |           [UwvRoleMappings]
    [UserSync] -> OpenMetadata's accounts     a query in Trino

    upload page -> staging -> [DeltaIngest] --\
    seed Job -> raw -> [BronzeStream] ---------> bronze -> [DatasetChain] -> marts
    WIA seeder -> [WiaSpark]                      [SetupTasks] bootstraps it and
    [CloudDeploy] -> [CloudRun], [FocusSeed]      rebuilds the dashboards
       the same use cases in Databricks/Fabric

    Airflow's failed runs -> [EventStream] -> [NotificationBell]
    browser: [CommandPalette] [PowerBiEmbed]-[PowerBiToken] [PortalStore] [LearnProgress]
    [Observatory] watches and files issues; [GovernanceRun] ingests metadata

## 2. Modules and how they correspond to the code

A step of a model is what the code does between two points at which others may
run: an await, an HTTP call or SQL statement, a task of a DAG, an effect of React.

### Access control

`GrantLedger` is the abstract promise of ADR-0008: approvals accumulate, a role is
held only after an approval of that user's request for that schema, and roles may be
taken away. `AccessBridge` is the service. A request handled by the bridge is a record
in a slot with a program counter that names the Keycloak call it awaits (`token, find,
getrole, create, getafter, map, record`). The signature and duplicate checks happen
before the first await and are part of the action that starts the handler
(`WebhookGrant`, `WebhookDuplicate`, `WebhookRefused`); `Record` is what follows the
last await. `CallFails` may follow a call that Keycloak carried out, because `MapRole`
and `Record` are separate steps. `PodStops` drops the pod's memory and its requests; two
pods overlap. `/replay` forgets the id before it validates the request, as the code
does. OpenMetadata (`OpenTask`, `Decide`, the attempts it has left for an event),
Keycloak's tables and the administrator are external. `Flat` is the set of tasks whose
events come in the flat shape with a `resolution` that `app.py:22-36` documents; those of
the others have the shape of OpenMetadata 1.12, in which the event type tells approval
from rejection. `_parse_grant` accepts both, and takes a rejected task in the flat shape,
or one an operator replays, for an approved one: `Misread`. `reopened` is history: the
tasks the bridge has had to forget.

`AccessRequest` is the request form call by call: `ensure_user` with its two lookups
and one creation, the table's owners, the members of owning teams, the assignees'
accounts, the task. A failed lookup of a team counts as a team without members.

`OmToOpaSync`: the job is `StartJob`, one `ListPage` per page, `GetConfigMap` (which also
merges, and may find that the text differs in layout alone: then it patches the same
content) and `PatchConfigMap`; tag edits, deployments and OPA's reload come in between.
A release is a pair of role table and purposes.

`OpaPolicy` has the Rego package as operators: a rule that is undefined is a disjunct
that does not hold; `rowFilters` and `columnMask` give the values of all the rules that
apply, and more than one is OPA's conflict error. `UwvRoleMappings` is the data document
of the repository. `DataAccess` composes the policy data of `OmToOpaSync`, the decisions
of `OpaPolicy`, the grants of `GrantLedger` and a token per user that holds the roles of
the moment it was issued. The four move independently, so a query meets any mixture of
old and new.

### Data into and through the lakehouse

`DeltaIngest` is one module for `csv_to_bronze.py` and `convert_to_delta.py`, whose steps
are the same calls in the same order. A run is a pod that may be lost between any two
(`PodFails`). `Upload` puts a file under any key at any time and replaces what is there,
also while a run loads or moves it. A conversion may be triggered from the portal or in
Airflow with any identifier for its table, so also with the table of a CSV source. A Delta
append is "read the version" and "rename the commit onto the next one"; with
`AWS_S3_ALLOW_UNSAFE_RENAME` the rename replaces a commit that is already there. Parsing
and constraint checks are the sets `Unreadable` and `OffSchema`; an append whose columns
are not the table's is refused. History: `replaced` files, uploads that `met` a run
half-way, and which run's commit was `overtaken` by which.

`BronzeStream` has the generator's Jobs, whose second pod writes all streams again under
a new batch id, and the streaming loader: Spark fixes the files of a micro-batch,
`process_batch` appends to and re-registers one table after the other, the checkpoint
commits. `DriverDies` between any two of these.

`WiaSpark` has the DAG's tasks (apply, poll, delete by `ds_nodash` and try), the
statements of the silver and gold drivers and the seeder. A table is the number of the
seed its rows reflect and whether queries find it.

`DatasetChain` is the chain seen from the datasets: tasks update their outlets, the
scheduler creates a run when each input was updated since the last, `uc11_full_setup`
triggers and awaits runs. The check of a streamed source announces it only while its table
has rows of today or yesterday (`recent`); a load may bring none (a backlog) and the last
ones leave the window after a day (`LeavesWindow`). Cosmos is installed, so a silver DAG
has no outlet.
`SetupTasks` is the same bootstrap seen from the resources its scripts share with
operators: the SparkApplication, the seed Job, the manifest, the catalogue, and the Job
that builds the dashboards, which is deleted, awaited, created and polled by one name.

`CloudRun` has both cloud DAGs task by task with the remote work they start, which reads
and overwrites the lakehouse one table at a time (the notebooks' cells); `CloudDeploy` the
three upload scripts; `FocusSeed` the UC-12 seed, whose upload is create, append and
flush, whose notebook reads the file again for each mart and goes on when the script
gives up. An update of the notebook that is answered 202 without a `Location` is not
awaited (`fabric-seed-uc12.py:171`), so the run may still be of the old definition:
`followed` notes it.

### Portal

`EventStream`: `AskAirflow` fixes the answer when Airflow computes it; `ReportFailures`
handles it later, when other runs may have failed or been cleared. A run is the number of
its execution date, because the query's window and order use nothing else. A client
copies the history (`Connect`), writes it event by event (`ReplayNext`), registers its
queue (`Subscribe`), forwards (`SendEvent`). `lagged` is history: an event met a queue
that was not empty. `NotificationBell` is the browser's side: it drops ids it lists, puts
an event in front and keeps ten; whether the panel is open, and what it counts as unread,
nothing else reads, and it is left out.

`PortalStore` has each SQL statement as a step and time in seconds. `CommandPalette` has
the palette's effect with its timer and abort, the handlers in the backend and the
cache of answers. `PowerBiToken` is the lock, the cached token and the calls that use it,
with a clock; `PowerBiEmbed` is the page's selection, fetches and refresh timer.
`LearnProgress` has the browsers' maps, the pull and push of every page and the
attribute in Keycloak, with other writers of the same user.

### Metadata and agents

`Enrichment`: a run takes whatever manifest dbt left; for each model a read, lookups and
one patch that replaces lists by their union and the extension by a merge in which the
manifest's values win (`Governed` are the custom properties it has a value of); a patch is
refused when labels exclude one another. `UserSync`: pages by offset while the realm
changes, then one account after the other. `GovernanceRun`: the token's two Secrets, tries
that hold the token they started with, retries, `max_active_tasks`, hanging pods and the
execution timeout. `Observatory`: background runs and their status, and the tools in the
order their prompts prescribe (signals, then evidence and search, or search and evidence
as in the prompt of the CronJob, then filing and labels); what a language model does
against its prompt is not modelled.

### MC modules

`MCAccessBridge`, `MCOmToOpaSync`, `MCDataAccess`, `MCDeltaIngest` and `MCEventStream` give
constants their values and define symmetry sets. Symmetry is used only in runs without
liveness properties.

`Services` holds fifteen modules that share no state: `part` names the one a behaviour
is about, and the variables `v1` ... `v10` stand for that module's variables
(`INSTANCE ... WITH`). Its states are the disjoint union of the fifteen state spaces, so
a property is that of its module, guarded by `part`. `MCServices` gives its constants
their values, so the proofs about `Services` hold for any others. `MCSchedules` does the
same for three modules with fairness, each with its own variables; it gives no values.

## 3. Runs

| Run | Instance | Shows |
|---|---|---|
| `bridge_safety` | two tasks of two users for one schema, two pods, two slots, two deliveries per event, one fault, one replay, one revocation, at most two of the three in one behaviour; 1.1 million states; events of one task in the shape of 1.12, of the other in the flat one | `RememberedMeansGranted`; `RepeatsAreExplained`: a role is mapped twice for a task, and so comes back after a revocation, only when the bridge had to forget the task; `HandlersEndInGrant`: a handler gives up only for an unknown user, a failure or a role deleted under it; `ImplementsLedger`: every step is a step or a stutter of the ledger, in which a misread rejection counts as an approval |
| `bridge_delivery` | one pod, two faults, flat events, one user Keycloak does not know, fairness | `GrantedOrReported`: an approved request is granted or OpenMetadata knows its deliveries failed |
| `sync` | three tables in two schemas, three tags (one of another classification), two releases, two edits, one deployment, one failed run, fairness | `PurposesAreExplained`, `TagsReachOpa` |
| `sync_lost_update` (violation) | one edit, one deployment | the job's own PATCH undoes a deployment made after its read |
| `access` | two gold tables, six users of each kind of role and two services, two requests, a release that narrows a role, one revocation, fairness | `ReadsAreExplained`, `UnmaskingIsExplained`, `RulesNeverConflict`, `RevokedAccessEnds`, `GrantsTakeEffect` |
| `ingest` | three runs, one CSV key and one uploaded key, two readable files and a bad one, the source's table and one of the sandbox, two parallel conversions, one fault; the files interchangeable | `NothingVanishes`, `ProcessedWereLoaded`, `RepeatsFollowFailures` |
| `convert_from_portal` (violation) | the same | the upload page's `null` reaches the loader as the text `None` and is refused |
| `event_stream` | three DAG runs, one tab, history, queue and page of two, a restart, fairness | `StreamsKeepOrder`, `PromptClientsMissNothing`, `FailuresReachClients` |
| `daily_failures` (violation) | two DAG runs that fit one answer, no restart, fairness | a run whose execution date is before the window fails and is never reported |
| `services` | fifteen parts, below; 2.3 million states, between two and three minutes | one property per part (two for the tokens) and their type invariants |
| `schedules` | watcher and observers with two runs and two fingerprints of which one contains the other; two sources, one of them CSV, and the bootstrap; token rotation and governance with two faults; fairness; 90 277 states | `OneIssuePerFingerprint`, `RunsReachAnEnd`, `SetupBuildsMarts`, `SilverFollowsBronze`, `GovernanceRecovers` |
| `gold_waits` (violation) | one source, fairness | silver is built again and again and the gold DAG never starts |

The parts of `services`:

| Property | Module and instance | What it says |
|---|---|---|
| `RecentsKeepNewest` | `PortalStore`: three items, four posts, limit of two, three seconds | interleaved upserts and trims, or a pod that stops between them, never cost a user a newer item than those that stay |
| `ResultsBelongToQuery` | `CommandPalette`: three texts of which two share a key, three calls, cache of one | what an open palette lists was searched by the text it shows |
| `TokensAreShared`, `TokensOutliveTheirUse` | `PowerBiToken`: three requests, lifetime 5, margin 3, calls below 2 | one token call per lifetime; no call goes out with an expired token |
| `EmbedMatchesSelection` | `PowerBiEmbed`: two reports and one that is gone, four fetches | the report on screen is the selected one, unless a refresh was under way at the change |
| `BellShowsNewest` | `NotificationBell`: six events, history of five, bell of two, one old id published again | after a complete connection the bell lists the newest events |
| `FinishedStaysFinished` | `LearnProgress`: two modules, two browsers, four calls, one other edit | a careful user keeps every finished module |
| `TasksHaveApprover` | `AccessRequest`: two people and the steward, a team, one form and accounts that others make meanwhile (which is all a second form of the same user does to the first), one edit | every task goes to an owner or, for the stated reasons only, to the steward |
| `HandEditsSurvive` | `Enrichment`: one model, two labels that exclude each other and two values of a custom property | what a person added outlives the job, but for a property the manifest gives another value |
| `SyncCoversRealm` | `UserSync`: three users, pages of two, one edit | a user who stays in the realm is synced, unless a removal shifts the pages |
| `BatchesLand` | `BronzeStream`: one Job with its two pods, two streams, a stray file, one dying driver | committed files are in their tables, once plus at most once per death |
| `WiaRunsRefresh` | `WiaSpark`: one day, two tries, two runs, two seeds | a run of its own applications ends with a gold table that reflects its bronze |
| `CloudRunsBuild` | `CloudRun`: two runs of either DAG, two tables per zone; `FocusSeed`: two seeds, two marts | a run or seed that ends well, undisturbed as each property spells out, built the mart |
| `UploadsTakeHold` | `CloudDeploy`: two uploads of each script | an undisturbed upload is what the workspace holds and what Airflow starts |
| `DashboardsFollowMarts` | `SetupTasks`: two bootstraps, operators beside them | the Job the bootstrap saw succeed built the dashboards of the marts as they are |

Each property of a passing run is broken by a mutant in `PROJECT.json`: one definition
changed the way a slip in the code would change it (the `Bug...` operators, each before
the definition it stands for).

### Bounds, and why they are enough

- *Bridge*: duplicates need two handlers of one task, races on a role need two tasks of
  different users for one schema; two pods are what a rolling update has. The faults and
  replays interact with at most one handler's await each, and no property relates a
  fault, a replay and a revocation at once (`FewDisturbances`). Only deliveries with
  OpenMetadata's signature are made here; `bridge_delivery` has refused ones as well. The
  proofs drop all bounds.
- *Sync*: two tables in one schema separate "the schema's tags" from "the table's tags";
  a second schema separates schemas; two releases are what a deployment can replace.
- *Access*: one user for each kind of guard in the policies (regio filter, single role,
  own mask, service, no role of the schema), and a schema with and without purposes.
- *Ingest*: three runs are a failed run, its repetition and a rival; runs meet only on
  keys and tables, so one more key per kind adds nothing. Two readable files are one that
  is replaced and one that replaces it.
- *Stream*: a page and a queue of two against three runs make the page miss runs and
  the queue overflow. The code's sizes are 50, 20 and 20; what is used of them is page <=
  queue, which `PageFitsQueue` assumes.
- *Services*: two actors of a kind, and sizes one below what the actors can fill, so that
  every trim, overflow and second page happens. `BellAssumption` asks for a history of
  three bells less one, and the instance has exactly that (5 and 2; the code 50 and 10).
- *Schedules*: two runs race once; two loads of the CSV are one before and one
  during a silver run; a streamed source has one, since its check, unlike the CSV's load, is
  repeated and meets every run anyway (with two the run passes too, in over four minutes);
  two faults make a retry fail and a token go stale in one behaviour.

`CHECK_DEADLOCK FALSE` is set where the bounds end the behaviours.

### Fairness

- Bridge: OpenMetadata makes the deliveries it has left; a handler's Keycloak call ends
  (httpx timeout of ten seconds, then `CallFails` or the next step); Kubernetes restarts a
  pod when none is up. Weak fairness of each, nothing of administrators or reviewers.
- Sync: the CronJob fires every fifteen minutes, OPA polls the bundle: weak fairness of
  `JobStep` and `OpaLoads`; edits, deployments and failures are bounded, so they end.
- Access: in addition a token is renewed when it is out of date (it expires in minutes).
- Stream: the poller's loop never ends (its body catches every exception), a waiting poll
  ends by its timeout, Airflow answers again and again (strong fairness of
  `ReportFailures`), and a connected client's coroutine runs.
- Observatory: weak fairness of each run's step; every call of its tools has a timeout.
- Dataset chain: `bronze_watch` checks on its schedule (which announces nothing when the
  last rows have left the window; nothing makes them stay), the scheduler creates runs, runs
  end, and models that are tried again and again build at last (strong fairness of
  `BuildModels`).
- Governance: the CronJob's steps, the scheduler, tries that do not hang end, and
  Airflow's execution timeout ends one that does. Nothing makes faults stop but their
  bound.

## 4. Proofs

Every theorem is for all values of the constants, under the module's `ASSUME`s only.

| Module | Theorem | Argument |
|---|---|---|
| `AccessBridgeProofs` | `TypeCorrect` | types, with: a request in flight names an asset that maps to a role |
| | `RememberedAreGranted` | `RInv`: also, a handler that stands before `record` has had its mapping carried out; mapping counts only grow. It covers acknowledged deliveries (`AckedMeansGranted`) as well |
| | `NothingIsDroppedSmoothly` | `FInv`, on top of `RInv`: a request that ends without an error had its mapping carried out or its user is unknown; a delivery used up started a request or met a remembered grant; the role a handler counts on is there (`RoleIsThere`). The safety core of `GrantedOrReported`: the hypothesis `Smooth` (no failure, no removal so far) cannot be weakened to fewer failures than deliveries, since one stopped pod may hold all requests of a task |
| | `GrantsGoBackToRequests`, `RejectedAreNotGranted` | `AInv`: requests in flight are for tasks that are approved or, in the flat shape or by a replay, misread for it (`Accepted`), and both are final. No assumption on the shape of the events: a rejected task whose events are of 1.12 and that nobody replays is never granted, and section 6 has the others |
| | `BridgeImplementsLedger` | from `AInv`: the step that makes a task `Accepted` maps to `Approve`, `MapRole` to `Grant`, administrators to `Revoke`, all else to stuttering |
| | `RepeatsNeedForgetting` | on top of the types: a task that was never reopened has one carrier at a time - its event, one handler, or the memory of the pod that mapped it - and was mapped by no other |
| `DataAccessProofs` | `PurposesExplained` | `SyncInv`: what the job has read was tagged at some time, and the ConfigMap, the loaded bundle and the document about to be written are all explained, whichever is newer |
| | `ReadsExplained` | `AccessInv`: `SyncInv` with: every held role and every role in a token is the user's own or goes back to an approved request |
| | `UnmaskingGoesBack` | from `AccessInv`: a grant role is in no role table and is no role of one word, so with and without their grants a user has the same entries and the same roles that masks ask for, and only the mask that counts roles can differ: that of the birth date, whose one role by function is then `data_steward` and whose other roles are approved grants. Needs `ServiceUsersAssumption`: for a user without groups the policy falls back to roles by name, and a first grant would end that |
| | `RulesAgree` | the masks of a column exclude each other for any identity and bundle (`OneMask`), the row filters for any that is not both `wia_beoordelaar` and `ww_handhaver` (`OneFilter`, with `SandboxAssumption`); and grants make nobody either |
| `DeltaIngestProofs` | `TypeCorrect`, `NoFileVanishes`, `ProcessedFilesWereLoaded`, `CsvRunsAreSafe`, `RepeatsNeedAFailure` | one invariant of sixteen parts, with uploads under any key at any time and conversions into any table: one CSV run is active at a time, hence what it found under its key stays unless an upload `met` it, and the log and the registration of the source's table stay as it saw them unless a conversion meddled; versions and commits fit the logs, and a commit that is gone is noted in `overtaken`; a file in `processed/` was held by a run that had committed, or came under its key after the download |
| `EventStreamProofs` | `TypeCorrect`, `StreamsInOrder`, `PromptClientsComplete` | `IInv`: what was replayed and delivered embeds in what was published, in order (`Embeds`); a replaying client has sent a first part of its copy; a live prompt client's replay plus everything published since it subscribed equals what it has and will get. Publishing appends new runs only (`PublishedOnce`), an offered page lands after all that was delivered, and an empty queue takes a whole page because of `PageFitsQueue` |
| `PortalProofs` | `TokensAreUsedInTime` | `UseInv`: a call that is out is younger than `CallTime`, so a token with the margin left before the first call has time left before the second (`CallTime < Margin`) |
| | `OneTokenPerLifetime` | `SharedInv`: whoever waits is in the queue, only its head calls Entra, and while it does the cached token, the last one issued, has at most the margin left; a failed call leaves the queue to the next |
| | `PaletteShowsItsQuery` | `PaletteInv`: only an open palette has a current call, that call asks for the text in the field, and an answer carries the key it was searched by, also when it comes out of the cache |
| | `ScreenShowsSelection` | `EmbedInv`: every fetch still waiting is for the selection, or was disowned when the selection changed, or was sent by the timer and the last change crossed it |
| | `RecentsLoseTheOldest` | `StoreInv`: a row has the time of its last opening or is gone; a trim keeps the `MaxRecents` newest, so what is at least as new as a lost row is only replaced by newer rows (the theorems on cardinality) |
| | `PatientUsersKeepTheirModules` | `LearnInv`: until something disturbs the user, one page is open and all calls are its own; what they carry knows every finished module; the backend knows them or the only call under way will make it so; the page knows them or waits for its pull (`Patient`) |
| | `CompleteReplayListsNewest` | `BellInv`, of a list whose page missed nothing: what is on its way is the end of the history (`BellFollows`); after `n` events new to the list, the first `n` listed do not come again and all but `MaxEvents - 1` of the `n` stand in order (`BellRenews`); while nothing has left the history the list is two runs of it (`BellRuns`). TLC checked the three on the instance of the run |
| | `PortalKeepsTypes` | the invariants above for four parts; `PaletteTypeInv`: the cache keeps one answer per key and at most its limit, also when an insertion evicts (`RemoveAt`); `TokenTypeInv`: the queue of the lock holds nobody twice and exactly the requests that wait or hold |
| `JobsProofs` | `HandEditsOutliveTheJob` | `EnrichmentInv`: for the table the job holds, every hand-made label was read or came after the read - the merge keeps what was read but for the custom properties the manifest has -, and an owner is looked up only where no person had chosen one before the read; labels and owners are different things (`DisjointAssumption`) |
| | `TasksGoToApprovers` | `FormInv`: the history of a request holds every way to own the table there was and those that lasted (`Witnessed`); who owned it all the while has been read or is about to be, unless a lookup failed (`NoneMissed`); what a handler has read, by the step it stands at (`Handled`) |
| | `SyncReachesEverybody` | `UsersInv`: while the pages are read, a settled user is listed or has a place no page has reached; afterwards the user is still to do or has the account the realm asks for; what is listed of them is current. Where a user stands in Keycloak's list is a cardinality (`Ranks`: places count from 0, are different and all taken; `RanksGrow`: who joins moves nobody to an earlier place), so a page contains who it should (`PageLists`) without induction over the list |
| | `RunsRefreshGold` | `WiaInv`: what a driver may be doing by its application's state; silver's files have a registration, or will, or a driver died; the application of an undisturbed run carries on what bronze had when the run began (`Refreshes`) |
| | `NoEventIsLost` | `StreamInv`: a pod has written the streams it counts; a file is in one batch; how often the rows of a file are in its table, by the place of its batch and of the driver in it (`Landed`): each further copy has a death of its own; rows are unregistered only while their stream is in the batch under way (`Found`) |
| | `JobsKeepTypes` | the invariants above; `LabelsInv`: a table has one label of an exclusive classification because a patch that would add a second is refused, whoever added the first; batches are disjoint because a new one takes files no earlier one has |
| `CloudProofs` | `SetupDashboardsAreCurrent` | `SetupInv`: a Job that succeeded built the dashboards and none did so since (`JobBuiltThem`); a Job that is there while the run polls saw the marts as they are (`PolledJobIsNew`) |
| | `RunsBuildWhatTheyVerify` | `CloudInv`: which work a run has in the cloud by its step, one Databricks job at a time, and, unless others wrote something older for it, what is at least as new as its own seeding (`Fresh`). `FocusInv`: of a seed beside which no other has run, nothing of the others goes on, and file, notebook and marts are its own as far as it is |
| | `ScriptsUploadTheirVersion` | `DeployInv`: of an upload beside which no other has run, nothing of the others goes on, and what it has put by its step is its own (`Uploaded`); a second job of one name takes a failed search or two uploads (`JobsFit`) |
| | `ServicesKeepTypes` | `PortalKeepsTypes`, `JobsKeepTypes` and `CloudKeepsTypes`: together the type invariants of all fifteen parts, `ServicesTypeOK` |
| `SchedulesProofs` | `OverlappingRunsOnly` | runs that are live together are noted; what was filed about a run's problem after its search is by a run it overlaps with (`SearchHolds`) |
| | `SmoothSetupFillsMarts` | a smooth bootstrap leaves the silver step with every source in silver, asks for the gold run only then, and that run fills the marts before it is over |
| | `NoAnnouncementIsLost` | `AnnouncementsAreKept`, with the chain's invariant: a mark passes from the load to the dataset, from there to the run that is created, and from the run into silver or, when it fails, into `stranded`. The safety core of `SilverFollowsBronze`, for all sources |
| | `GovernanceNeverStops` | `InputsSucceeded`: a task that was tried has the output of those before it, since success is final within a run. From it and the types `RunGoesOn`: without a try under way all slots are free, and of the tasks that are open the first in order can be tried or given up. Assumes `MaxActive # 0` |
| | `SchedulesAreTyped` | types, with: an issue carries only labels that exist, no layer is ahead of the one below, a step of the bootstrap waits only for runs that are queued or active |

`PortalProofs`, `JobsProofs`, `CloudProofs` and `SchedulesProofs` prove the part of
`services` or `schedules` their theorem names: the invariant of the part (over the names
of its own module) is proved action by action, and `part`, which no step changes, guards
it. `CloudProofs` extends `PortalProofs` and `JobsProofs`, whose theorems it joins.

Two attempts showed that the model said something else than was meant:

- `BellShowsNewest` was assumed of a history of twice the bell. Its proof did not go
  through, and a larger instance (six events, history of four, bell of two) ends with
  `<<6, 4>>` in the bell: after several connections that broke in the middle of their
  replay, a replay of four lists an old event, keeps two for listed and never repairs the
  gap. Three bells less one suffice and are needed (5 and 2 pass, 4 and 2 do not); the
  code has five. `BellAssumption` and the instance are the sharp bound.
- `RulesNeverConflict` used to speak of users with one role by function, which only the
  instance's choice of users said. It now names the one pair of roles that conflicts.

None of the invariants the runs check is inductive by itself; the strengthenings above
speak of what is in flight (a handler, a job, a run, a queue), which is where the
interleavings are.

**Assumptions.** Constants are typed and finite where the code's are. The others:
`PageFitsQueue`, `CallTime < Margin < Lifetime` and `BellAssumption` relate sizes and
times of the code; `GrantRoleAssumption` says that grant roles come from the bridge alone,
`ServiceUsersAssumption` that the service users of Trino (a password file, an
`X-Trino-User`, a service-account client) file no access request, `SandboxAssumption`
that no schema of the sandbox catalog is named like one with a row filter;
`NobodyAssumption`, `DisjointAssumption` and their like keep names apart.
TLC evaluates all of them on the runs' instances.

**Only model-checked**: liveness (`GrantedOrReported`, `TagsReachOpa`, `RevokedAccessEnds`,
`GrantsTakeEffect`, `FailuresReachClients`, `RunsReachAnEnd`, `SilverFollowsBronze`,
`GovernanceRecovers`), since fairness and `ENABLED` are beyond the prover. Every invariant
and every action property a passing run checks is a theorem. Of three of them what no step
may ever break is proved as well (`NothingIsDroppedSmoothly` of the first,
`NoAnnouncementIsLost` of `SilverFollowsBronze`, `GovernanceNeverStops` of the last; TLC
checked their invariants on the instances of the runs): what remains for TLC is that
whoever has the request, the mark or the slot goes on.

## 5. Modelling decisions a reader should know

- What the ingestion does lose is in its properties by name: an upload between a run's
  copy and delete is deleted with the old file (`met`, `moved`), one between its download
  and its copy is moved unloaded, and a conversion into the source's table may take an
  ingest run's commit (`overtaken`).
- Keycloak, OpenMetadata and Airflow act atomically per call; an answer may be lost.
- The history replay and the subscription of a stream are apart: an event published in
  between reaches a connection by neither. `PromptClientsMissNothing` therefore counts
  from the subscription. The docstring (`portal-backend.py:693`) leaves it open.
- `platform/09-trino/trinocluster.yaml` lists no authentication at present; the model
  takes identities with groups, as `platform/10-opa` and the tests do.
- Properties name what they leave out, as history variables: `crossed` in `PowerBiEmbed`,
  `reopened` in `AccessBridge`, `replaced`, `met` and `overtaken` in `DeltaIngest`,
  `blind` in `CloudDeploy`, `byHand` in `Enrichment`, `alone` and `followed` in
  `FocusSeed`, `stranded` in `DatasetChain`, `together` in `Observatory`. Each stands for
  a case in which the code does not keep the promise; section 6 lists them.
- A search source that fails and one that finds nothing are the same to the backend, and
  so to `CommandPalette`.
- Notebooks, dbt models, Spark SQL and Superset's builder are modelled by what they read
  and replace.

## 6. Findings and observations

Findings (a violation run each, quoted in `PROJECT.json`): the sync undoes a concurrent
deployment; conversions started from the upload page are always refused; failures of runs
with an older execution date, such as every daily run, are not reported; gold DAGs wait
for datasets that the Cosmos path never updates.

Met while modelling and not stated by a run.

Access control:

- Two overlapping deliveries of one event are both granted (`app.py:740` looks before the
  awaits, the id is added after them), although `app.py:43` and the README (line 96) call
  the second a no-op. Repeating a mapping changes nothing in Keycloak.
- A data steward with a grant sees full birth dates (`trino-column-masks.rego:51` counts
  roles; line 14 wants the year only).
- `_parse_grant` accepts a flat event with status *Closed* whatever its resolution, so a
  rejected task is granted when its event has the shape that `app.py:22-36` documents, or
  when an operator replays it (`Misread`); harmless with the events of OpenMetadata 1.12.
- `/replay` forgets the id before it validates the request (`app.py:763`), so a refused
  replay opens the task for the next redelivery too, which gives a revoked role back.
- Ids of OpenMetadata users are cached for the life of the process (`app.py:317`); a lookup
  of a team that fails counts as a team without members and the request goes to the
  steward (`app.py:406`); an account may exist without its task (`app.py:703`), and a
  second submit then makes another task.
- Four columns called personal in the data document (`voornaam`, `achternaam`, `straat`,
  `huisnummer`) have no mask.
- A schema without an entry needs no purpose, although `auth.md` says no purpose, no access;
  a deployment removes entries only OpenMetadata knows until the next sync; the last
  Doelbinding tag of a schema cannot be taken away by the sync.
- `wia_beoordelaar` together with `ww_handhaver` gives two row filters on `uc11_klantreis`.

Ingestion and the chain:

- A run lost after its append is triggered again, as `csv-upload.md:244` advises, and its
  rows come twice (`csv_to_bronze.py:363`). A CSV that replaces a key while its run is busy
  is moved unloaded (`csv_to_bronze.py:318`), or deleted when it comes between the copy and
  the delete.
- Parallel conversions into one table may replace each other's commit or fail to register;
  nothing keeps a conversion out of a CSV source's table (`airflow-bridge.py:174`,
  `convert_to_delta.py:83`), where it may replace the commit of an ingest run.
- `bronze_factory.py:12-13` speaks of new rows, but every check with rows of the last day
  publishes, and one of a stream without such rows fails. A failed silver run is not
  repeated: a CSV is not announced again, nor is a stream that has gone quiet for a day
  (`stranded`), or that brings a backlog of older rows only.
- The bootstrap: its last task always runs and is the only leaf, so earlier failures are
  hidden (`uc11_full_setup.py:577`); a running seed Job is deleted and none is created
  (line 217, where a comment says delete and re-create); a 409 for the streaming
  application accepts one that has failed; errors of the clean-up are only logged.
- The streaming driver is not restarted by itself; files in an unknown path are skipped
  silently.
- WIA Spark: the docstring promises a SparkApplication per run, but the name is the day
  and the try, so a second run of the day polls the old application; a driver that dies
  between silver's first append and its `CREATE TABLE` leaves files no later run registers;
  an empty bronze counts as success.
- Cloud DAGs: the verifying task accepts any mart; runs are not limited; `find_job` takes a
  failed request for "no such job" (`databricks-upload-notebooks-and-job.py:102`) and a
  second job is created. Two UC-12 seeds side by side overwrite each other; a 409 in
  `fabric-create-shortcut-uc12.py:96` counts as a shortcut that was created.
- `cleanup-superset-uc11-duplicates.py:138` pairs the kept charts with all twelve names: when
  one chart is missing the names and widths after it shift by one.

Portal and agents:

- A cleared DAG run that fails again is not reported in the life of the backend; more than
  twenty failures in the window hide the older ones.
- The bell counts replayed events as unread, also while it is open; after a connection
  that missed events a replay may push out a recent one.
- The palette's backend caches partial and empty answers for thirty seconds; its key
  handler works on the list it was registered with, and ArrowDown on an empty list selects
  item -1.
- Power BI: a refresh that is under way when the selection changes is not cancelled and
  replaces the new report (`PowerBIEmbed.tsx:183`); a failed refresh is not tried again,
  although the comment at 174 says so; the backend's docstring speaks of five minutes where
  the margin is sixty seconds.
- No page shows stars or asks for favourites and recents; `VALID_SERVICES` lacks `powerbi`.
- Learning: a first pull replaces the local map; a module page in a new browser may
  overwrite "done" (`[module].astro:134` says it does not); concurrent edits of other
  attributes are undone (`learn-backend.py:91`).
- Overlapping watcher runs file twice (`watcher.py:93`); fingerprints are searched as
  substrings; `cronjob-watcher.yaml:11` forbids overlap, but when curl gives up the run goes
  on; the background task is not referenced and may be collected.
- Enrichment: `enrich_from_dbt_meta.py:15` says hand edits survive, which an edit between
  the read and the patch does not; a custom property the manifest has
  is overwritten (`merge_extension`), although the docstring at line 316 speaks of existing
  values that are kept; a changed exclusive classification makes OpenMetadata refuse the
  table's patches from then on; labels taken out of dbt are never withdrawn.
- `rotate_jwt.py` may fail to write the mirror Secret and still exit 0.

## 7. Not modelled, and what comes next

- Rendering and navigation of the portal; static data of the site.
- Retention (`bewaartermijn_enforcer.py`) and maintenance: fixed lists of SQL statements.
  Worth a look: retention on `silver.crm.stg_crm_contact` deletes from a staging model that
  dbt builds anew.
- Shell scripts that drive kubectl and helm one after the other; generators of Power BI
  reports, slides, PDFs and documentation; CI checks; data generators: text or data
  without state.
- The observatory's observers beyond their tools: their results are a language model's.
- The batch rules of the OPA package, which decide per element what the single rules decide.
- `cleanup-superset-uc11-duplicates.py` and `fabric-create-shortcut-uc12.py`: repairs by
  hand, one call after the other.

Next: `AccessRequest` composed with `AccessBridge`, so that the approver of a task and its
grant are one state.
