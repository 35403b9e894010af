----------------------------- MODULE DeltaIngest -----------------------------
(***************************************************************************)
(* Files on their way from the staging bucket into a Delta table, through  *)
(* the two loaders that share their steps: csv_to_bronze.py, one run at a  *)
(* time per source, and convert_to_delta.py, started by the portal's       *)
(* airflow-bridge and run several at a time.  A run is a pod that is not   *)
(* retried: it may be lost between any two of its calls, and an operator   *)
(* triggers the DAG again with the same key.                               *)
(***************************************************************************)
EXTENDS Naturals, Sequences, FiniteSets

CONSTANTS
  Runs,          \* DAG runs that can be triggered (a bound)
  CsvKeys,       \* object keys under incoming/<source>/
  UploadKeys,    \* object keys under uploads/<email>/<ts>/
  Files,         \* files that are uploaded, one for every upload
  OffSchema,     \* files that break the schema of the CSV source
  Unreadable,    \* files that a conversion cannot turn into a table
  NoFile,        \* no object under the key
  CsvTable,      \* the bronze table of the CSV source
  SandboxTables, \* tables that conversions write to
  Parallel,      \* max_active_runs of convert_to_delta
  MaxFaults      \* bound: pods lost and calls that fail

Keys   == CsvKeys \union UploadKeys
Tables == {CsvTable} \union SandboxTables
Dags   == {"ingest_csv", "convert_to_delta"}

ASSUME IngestAssumption ==
  /\ Keys # {} /\ CsvKeys \intersect UploadKeys = {} /\ NoFile \notin Files
  /\ OffSchema \subseteq Files /\ Unreadable \subseteq Files /\ CsvTable \notin SandboxTables
  /\ Parallel \in Nat /\ MaxFaults \in Nat /\ IsFiniteSet(Runs)

VARIABLES
  staging,    \* the object under each key of uwv-staging
  processed,  \* [file, by]: objects under processed/
  log,        \* the Delta log of each table: the run of every commit
  hms,        \* tables the Hive Metastore knows
  conf,       \* the DAG and the dag_run.conf of each run
  pc,         \* where a run is, or how it ended
  file,       \* what a run downloaded
  version,    \* the table version a run's commit is based on
  faults,
  uploaded,   \* history: <<key, file>> for every upload
  replaced,   \* history: files another upload replaced in staging
  met,        \* history: [file, by, moved]: uploads under the key of a run half-way
  overtaken   \* history: <<r, s>>: the commit of r was replaced by that of s

stores == <<staging, processed, log, hms>>
tale   == <<uploaded, replaced, met, overtaken>>
vars   == <<stores, conf, pc, file, version, faults, tale>>

\* A run ends with the state Airflow shows, refined by what stopped it.
Failures == {"invalid", "no such key", "unreadable", "other columns", "table exists",
             "pod failed"}
Ended    == {"success"} \union Failures
Midway   == {"open", "commit", "check", "register", "copy", "delete"}
Running  == {"validate", "download", "report"} \union Midway

Confs == [dag : Dags, key : Keys, table : Tables, column : {"", "None"}, portal : BOOLEAN]

Init ==
  /\ staging = [k \in Keys |-> NoFile]
  /\ processed = {} /\ hms = {} /\ faults = 0
  /\ uploaded = {} /\ replaced = {} /\ met = {} /\ overtaken = {}
  /\ log = [t \in Tables |-> <<>>]
  /\ conf = [r \in Runs |-> [dag |-> "convert_to_delta", key |-> CHOOSE k \in Keys : TRUE,
                             table |-> CsvTable, column |-> "", portal |-> FALSE]]
  /\ pc = [r \in Runs |-> "idle"]
  /\ file = [r \in Runs |-> NoFile] /\ version = [r \in Runs |-> 0]

Goto(r, next) == pc' = [pc EXCEPT ![r] = next]
Key(r)        == conf[r].key
Table(r)      == conf[r].table
CsvRun(r)     == conf[r].dag = "ingest_csv"
Active(dag)   == {r \in Runs : conf[r].dag = dag /\ pc[r] \in Running}

-----------------------------------------------------------------------------
\* A PUT of the upload page, of the MinIO console or of `mc cp`: an object that
\* is there under the key is replaced, whatever runs are doing with it.
Upload(k, f) ==
  /\ \A u \in uploaded : u[2] # f
  /\ staging' = [staging EXCEPT ![k] = f]
  /\ uploaded' = uploaded \union {<<k, f>>}
  /\ replaced' = replaced \union ({staging[k]} \ {NoFile})
  /\ met' = met \union {[file |-> f, by |-> r, moved |-> pc[r] = "delete"] :
                         r \in {q \in Runs : pc[q] \in Midway /\ Key(q) = k}}
  /\ UNCHANGED <<processed, log, hms, conf, pc, file, version, faults, overtaken>>

Trigger(r, c) ==
  /\ pc[r] = "idle"
  /\ conf' = [conf EXCEPT ![r] = c]
  /\ Goto(r, "queued")
  /\ UNCHANGED <<stores, file, version, faults, tale>>

\* trigger_convert of the airflow-bridge, as the upload page calls it: the key
\* lies under the caller's uploads/, the table is any identifier, also the name
\* of a source's table, and `partition_col` is null, which the DAG's template
\* renders as the text None.
TriggerFromPortal(r, k, t) ==
  k \in UploadKeys /\ Trigger(r, [dag |-> "convert_to_delta", key |-> k, table |-> t,
                                  column |-> "None", portal |-> TRUE])

\* "Trigger DAG w/ config" in Airflow, with any key and the parameter's default
\* for the partition column; the table of an ingest DAG is that of its source.
TriggerFromAirflow(r, dag, k, t) ==
  /\ dag = "ingest_csv" => t = CsvTable
  /\ Trigger(r, [dag |-> dag, key |-> k, table |-> t, column |-> "", portal |-> FALSE])

-----------------------------------------------------------------------------
\* Slips a change of the loaders could make.
BugDeletesOnly(r) ==
  /\ pc[r] = "copy"
  /\ Goto(r, "delete")
  /\ UNCHANGED <<stores, conf, file, version, faults, tale>>

BugKeepsStaged(r) ==
  /\ pc[r] = "delete"
  /\ Goto(r, "report")
  /\ UNCHANGED <<stores, conf, file, version, faults, tale>>

-----------------------------------------------------------------------------
\* As MaxActiveRuns, the ingest DAG as parallel as the conversions.
BugMaxActiveRuns(dag) == Parallel

\* The scheduler keeps each DAG within its max_active_runs.
MaxActiveRuns(dag) == IF dag = "ingest_csv" THEN 1 ELSE Parallel

StartRun(r) ==
  /\ pc[r] = "queued"
  /\ Cardinality(Active(conf[r].dag)) < MaxActiveRuns(conf[r].dag)
  /\ Goto(r, "validate")
  /\ UNCHANGED <<stores, conf, file, version, faults, tale>>

\* The key lies under the prefix of the source, or under uploads/; a partition
\* column, when there is one, is an identifier, which None is not.
ValidInputs(c) ==
  IF c.dag = "ingest_csv" THEN c.key \in CsvKeys
  ELSE c.key \in UploadKeys /\ c.column # "None"

Validate(r) ==
  /\ pc[r] = "validate"
  /\ Goto(r, IF ValidInputs(conf[r]) THEN "download" ELSE "invalid")
  /\ UNCHANGED <<stores, conf, file, version, faults, tale>>

\* parse_csv and validate_constraints, against the schema in the source's YAML;
\* parse_table and add_metadata: the format that was asked for, at least one
\* row, and the partition column.
Rejected(c) == IF c.dag = "ingest_csv" THEN OffSchema ELSE Unreadable

\* get_object, then parsing and the checks on the rows.
Download(r) ==
  LET found == staging[Key(r)] IN
  /\ pc[r] = "download"
  /\ Goto(r, CASE found = NoFile              -> "no such key"
               [] found \in Rejected(conf[r]) -> "unreadable"
               [] OTHER                       -> "open")
  /\ file' = [file EXCEPT ![r] = found]
  /\ UNCHANGED <<stores, conf, version, faults, tale>>

\* The rows of ingest runs have the columns of the source's YAML; those of a
\* conversion are what the user's file has.
SameColumns(r) == \A i \in DOMAIN log[Table(r)] : CsvRun(r) /\ CsvRun(log[Table(r)][i])

\* write_deltalake in append mode: it works from the version it finds, and
\* refuses rows whose columns are not the table's ...
OpenTable(r) ==
  /\ pc[r] = "open"
  /\ \/ version' = [version EXCEPT ![r] = Len(log[Table(r)])] /\ Goto(r, "commit")
     \/ ~SameColumns(r) /\ Goto(r, "other columns") /\ UNCHANGED version
  /\ UNCHANGED <<stores, conf, file, faults, tale>>

\* ... and renames its commit to the next one.  With unsafe renames nothing
\* notices a commit that is already there: it is replaced.
Commit(r) ==
  LET old == log[Table(r)]  v == version[r] IN
  /\ pc[r] = "commit"
  /\ log' = [log EXCEPT ![Table(r)] =
               IF v < Len(old) THEN [old EXCEPT ![v + 1] = r] ELSE Append(old, r)]
  /\ overtaken' = overtaken \union (IF v < Len(old) THEN {<<old[v + 1], r>>} ELSE {})
  /\ Goto(r, "check")
  /\ UNCHANGED <<staging, processed, hms, conf, file, version, faults, uploaded, replaced, met>>

\* ensure_trino_table: is the table known already?
CheckTable(r) ==
  /\ pc[r] = "check"
  /\ Goto(r, IF Table(r) \in hms THEN "copy" ELSE "register")
  /\ UNCHANGED <<stores, conf, file, version, faults, tale>>

\* system.register_table refuses a table that exists by now.
RegisterTable(r) ==
  /\ pc[r] = "register"
  /\ Goto(r, IF Table(r) \in hms THEN "table exists" ELSE "copy")
  /\ hms' = hms \union {Table(r)}
  /\ UNCHANGED <<staging, processed, log, conf, file, version, faults, tale>>

\* move_to_processed: copy_object under a fresh name ...
CopyObject(r) ==
  LET found == staging[Key(r)] IN
  /\ pc[r] = "copy"
  /\ Goto(r, IF found = NoFile THEN "no such key" ELSE "delete")
  /\ processed' = IF found = NoFile THEN processed
                  ELSE processed \union {[file |-> found, by |-> r]}
  /\ UNCHANGED <<staging, log, hms, conf, file, version, faults, tale>>

\* ... then delete_object, which does not mind a missing key.
DeleteObject(r) ==
  /\ pc[r] = "delete"
  /\ staging' = [staging EXCEPT ![Key(r)] = NoFile]
  /\ Goto(r, "report")
  /\ UNCHANGED <<processed, log, hms, conf, file, version, faults, tale>>

\* The pod's exit reaches Airflow, which updates the bronze Dataset.
Report(r) ==
  /\ pc[r] = "report"
  /\ Goto(r, "success")
  /\ UNCHANGED <<stores, conf, file, version, faults, tale>>

\* A call fails or the pod is lost: nothing is undone and nothing retried.
PodFails(r) ==
  /\ pc[r] \in Running
  /\ faults < MaxFaults
  /\ faults' = faults + 1
  /\ Goto(r, "pod failed")
  /\ UNCHANGED <<stores, conf, file, version, tale>>

RunStep(r) ==
  \/ StartRun(r) \/ Validate(r) \/ Download(r) \/ OpenTable(r) \/ Commit(r) \/ CheckTable(r)
  \/ RegisterTable(r) \/ CopyObject(r) \/ DeleteObject(r) \/ Report(r) \/ PodFails(r)

Next ==
  \/ \E k \in Keys, f \in Files : Upload(k, f)
  \/ \E r \in Runs, k \in UploadKeys, t \in Tables : TriggerFromPortal(r, k, t)
  \/ \E r \in Runs, dag \in Dags, k \in Keys, t \in Tables : TriggerFromAirflow(r, dag, k, t)
  \/ \E r \in Runs : RunStep(r)

Spec == Init /\ [][Next]_vars

-----------------------------------------------------------------------------
TypeOK ==
  /\ staging \in [Keys -> Files \union {NoFile}]
  /\ uploaded \subseteq Keys \X Files /\ replaced \subseteq Files
  /\ met \subseteq [file : Files, by : Runs, moved : BOOLEAN]
  /\ overtaken \subseteq Runs \X Runs
  /\ processed \subseteq [file : Files, by : Runs]
  /\ log \in [Tables -> Seq(Runs)]
  /\ hms \subseteq Tables
  /\ conf \in [Runs -> Confs]
  /\ pc \in [Runs -> {"idle", "queued"} \union Running \union Ended]
  /\ file \in [Runs -> Files \union {NoFile}]
  /\ version \in [Runs -> Nat]
  /\ faults \in 0..MaxFaults

Committed(r)  == \E i \in DOMAIN log[Table(r)] : log[Table(r)][i] = r
Processed(f)  == \E p \in processed : p.file = f
\* r wrote its commit, and if it is not in the log any more another run replaced
\* it: for a run of the source, a conversion into the source's table.
Wrote(r) ==
  Committed(r) \/ \E s \in Runs : <<r, s>> \in overtaken /\ ~(CsvRun(r) /\ CsvRun(s))
\* f came under the key of r between its download and its copy, or after its copy.
CameBetween(f, r, moved) == [file |-> f, by |-> r, moved |-> moved] \in met
LoadedSame(r, s) ==
  CsvRun(r) /\ CsvRun(s) /\ Committed(r) /\ Committed(s) /\ file[r] = file[s]

\* No run loses a file, whatever fails: an uploaded file is under its own key in
\* staging or under processed/, unless another upload replaced it or it came
\* under its key while a run was between the copy and the delete of its move.
NothingVanishes ==
  \A u \in uploaded :
    \/ staging[u[1]] = u[2] \/ Processed(u[2])
    \/ u[2] \in replaced \/ \E r \in Runs : CameBetween(u[2], r, TRUE)

\* What a run moved to processed/ it had loaded into a table that Trino knows:
\* its rows are there unless another run took the version, which no other ingest
\* run of the source does.  The one file it moves unloaded is one that replaced
\* what it had downloaded.
ProcessedWereLoaded ==
  \A p \in processed :
    \/ file[p.by] = p.file /\ Wrote(p.by) /\ Table(p.by) \in hms
    \/ CameBetween(p.file, p.by, FALSE)

\* Rows come twice only after a failure: of two ingest runs that loaded the same
\* CSV at least one failed half-way, however often the key is triggered.
RepeatsFollowFailures ==
  \A r, s \in Runs : LoadedSame(r, s) /\ r # s => pc[r] \in Failures \/ pc[s] \in Failures

\* "Als geen partition_col is opgegeven, voeg `event_date` toe en gebruik dat": a
\* conversion that the portal started passes the loader's own validation.
PortalRunsAreValid == \A r \in Runs : conf[r].portal => pc[r] # "invalid"
=============================================================================
