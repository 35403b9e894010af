---------------------------- MODULE DatasetChain ----------------------------
(***************************************************************************)
(* The chain bronze -> silver -> gold of platform/11-airflow: the          *)
(* factories of include/ and the bootstrap DAG uc11_full_setup.  A DAG     *)
(* with a dataset schedule runs when each of its datasets was updated      *)
(* since its last run; a task updates its outlets when it succeeds.        *)
(*                                                                         *)
(* One use case, so one gold DAG.  Data is a version: the number of loads  *)
(* a layer has taken in.  Cosmos is installed (airflowcluster.yaml); the   *)
(* datasets it makes up for itself are left out, as no schedule names them.*)
(***************************************************************************)
EXTENDS Naturals, Sequences

CONSTANTS
    Sources,    \* of the use case, in the registry
    Csv,        \* csv_batch: loaded by hand, not watched
    Batch,      \* watched, and allowed to have no rows today
    Anchor,     \* persona_created, whose rows wait_for_bronze counts
    MaxBatches, \* bound on the loads of a streamed source
    MaxCsvLoads \* and of a CSV source

ChainAssumption == "gold" \notin Sources /\ {MaxBatches, MaxCsvLoads} \subseteq Nat

VARIABLES
    bronze,     \* bronze[s] = loads in the bronze table of s
    recent,     \* streamed sources with rows of today or yesterday in bronze
    told,       \* told[s] = history: bronze[s] at the last update of its dataset
    silver,     \* silver[s] = loads in its staging model
    gold,       \* gold[s] = loads of s in the marts
    updated,    \* updated[d] = datasets updated since d's last run
    asked,      \* DAGs with a run queued by the bootstrap DAG
    run,        \* run[d] = the active run of d (max_active_runs is 1)
    stranded,   \* history: sources whose last silver run left announced loads behind
    setup       \* the bootstrap DAG

data == <<bronze, recent, silver, gold>>
airflow == <<updated, asked, run>>
vars == <<data, told, airflow, stranded, setup>>

Dags == Sources \cup {"gold"}

NoRun == [at |-> "none", bySetup |-> FALSE]

\* ensure_streaming >> ensure_seed >> wait_bronze >> silver_triggers >> ...; the
\* three tasks between gold and dashboard fill OpenMetadata and touch no table.
Steps == <<"streaming", "seed", "wait", "silver", "gold", "catalogue", "dashboard">>

Init ==
    /\ bronze = [s \in Sources |-> 0] /\ recent = {} /\ told = bronze
    /\ silver = bronze /\ gold = bronze
    /\ updated = [d \in Dags |-> {}]
    /\ asked = {} /\ run = [d \in Dags |-> NoRun]
    /\ stranded = {}
    /\ setup = [step |-> 0, todo |-> {}, smooth |-> TRUE]

-----------------------------------------------------------------------------
(* Datasets *)

\* bronze_dataset(source), or silver_datasets_for_use_case.
Schedule(d) == IF d = "gold" THEN {<<"silver", s>> : s \in Sources} ELSE {<<"bronze", d>>}

\* As Outlets, without those of the CSV loader's pod.
BugOutlets(task, s) == IF task = "check" THEN {<<"bronze", s>>} ELSE {}

\* The check of bronze_watch and the CSV loader name the source's dataset; the
\* DAGs that Cosmos renders name none.
Outlets(task, s) == IF task \in {"check", "csv"} THEN {<<"bronze", s>>} ELSE {}

Updates(ds) == updated' = [d \in Dags |-> updated[d] \cup (ds \cap Schedule(d))]

-----------------------------------------------------------------------------
(* Bronze *)

MaxLoads(s) == IF s \in Csv THEN MaxCsvLoads ELSE MaxBatches

Loaded(s) ==
    /\ bronze[s] < MaxLoads(s)
    /\ bronze' = [bronze EXCEPT ![s] = @ + 1]

\* A micro-batch of the streaming job: no Airflow task knows of it.  Its rows
\* carry the date of their file, which in a backlog is days ago.
StreamLoad(s) ==
    /\ s \notin Csv /\ Loaded(s)
    /\ recent' \in {recent, recent \cup {s}}
    /\ UNCHANGED <<told, silver, gold, airflow, stranded, setup>>

\* ingest_csv_<source>; it may also fail after its append.
CsvLoad(s) ==
    /\ s \in Csv /\ Loaded(s)
    /\ told' = [told EXCEPT ![s] = bronze'[s]]
    /\ Updates(Outlets("csv", s))
    /\ UNCHANGED <<recent, silver, gold, asked, run, stranded, setup>>

CsvLoadFails(s) ==
    /\ s \in Csv /\ Loaded(s)
    /\ UNCHANGED <<recent, told, silver, gold, airflow, stranded, setup>>

\* Nothing came for a day: the last rows leave the window of the check.
LeavesWindow(s) ==
    /\ s \in recent /\ recent' = recent \ {s}
    /\ UNCHANGED <<bronze, silver, gold, told, airflow, stranded, setup>>

\* check_<source> of bronze_watch, every five minutes: of a table without rows
\* in the window it raises, unless the source is a batch.  It does not ask
\* whether the rows are new.
Check(s) ==
    /\ s \notin Csv /\ bronze[s] > 0
    /\ s \in recent \/ s \in Batch
    /\ told' = [told EXCEPT ![s] = bronze[s]]
    /\ Updates(Outlets("check", s))
    /\ UNCHANGED <<data, asked, run, stranded, setup>>

-----------------------------------------------------------------------------
(* The scheduler, and the runs of the silver and gold DAGs. *)

CreateRun(d) ==
    /\ run[d] = NoRun
    /\ \/ /\ Schedule(d) \subseteq updated[d]
          /\ updated' = [updated EXCEPT ![d] = {}]
          /\ run' = [run EXCEPT ![d] = [at |-> "running", bySetup |-> FALSE]]
          /\ UNCHANGED asked
       \/ /\ d \in asked /\ asked' = asked \ {d}
          /\ run' = [run EXCEPT ![d] = [at |-> "running", bySetup |-> TRUE]]
          /\ UNCHANGED updated
    /\ UNCHANGED <<data, told, stranded, setup>>

\* dbt run: a model reads what the layer below holds by then; the bronze table
\* exists once something was loaded.
BuildModels(d) ==
    /\ run[d].at = "running"
    /\ IF d = "gold"
       THEN gold' = silver /\ UNCHANGED <<silver, stranded>>
       ELSE /\ bronze[d] > 0
            /\ silver' = [silver EXCEPT ![d] = bronze[d]]
            /\ stranded' = stranded \ {d} /\ UNCHANGED gold
    /\ run' = [run EXCEPT ![d].at = "built"]
    /\ UNCHANGED <<bronze, recent, told, updated, asked, setup>>

\* The run is over: the bootstrap DAG that waits for it takes any end state.
Over(d) == run' = [run EXCEPT ![d] = NoRun]

\* dbt test after each model: a test that fails makes the run a failure.
RunEnds(d) ==
    /\ run[d].at = "built" /\ Over(d)
    /\ Updates(Outlets("cosmos", d)) \/ UNCHANGED updated
    /\ setup' = IF run[d].bySetup THEN [setup EXCEPT !.todo = @ \ {d}] ELSE setup
    /\ UNCHANGED <<data, told, asked, stranded>>

\* Both tries fail before the models are built.
RunFails(d) ==
    /\ run[d].at = "running" /\ Over(d)
    /\ stranded' = stranded \cup {s \in Sources \cap {d} : silver[s] < told[s]}
    /\ setup' = IF run[d].bySetup THEN [setup EXCEPT !.todo = @ \ {d}, !.smooth = FALSE]
                ELSE setup
    /\ UNCHANGED <<data, told, updated, asked>>

-----------------------------------------------------------------------------
(* uc11_full_setup *)

At(step) == setup.step > 0 /\ setup.step =< Len(Steps) /\ Steps[setup.step] = step

Triggered(step) == CASE step = "silver" -> Sources [] step = "gold" -> {"gold"} [] OTHER -> {}

\* As AwaitedRuns, a trigger that does not wait for its run.
BugAwaitedRuns(ds) == {}

\* wait_for_completion=True
AwaitedRuns(ds) == ds

\* The next task starts; a TriggerDagRunOperator queues its run.
StartStep(n) ==
    LET ds == IF n =< Len(Steps) THEN Triggered(Steps[n]) ELSE {}
    IN  /\ setup' = [setup EXCEPT !.step = n, !.todo = AwaitedRuns(ds)]
        /\ asked' = asked \cup ds
        /\ UNCHANGED <<data, told, updated, run, stranded>>

\* Triggered by hand, on a fresh cluster.
StartSetup == setup.step = 0 /\ StartStep(1)

\* The task's pod exits with 0, or the triggered runs are over; the dashboard
\* job is the last.
StepSucceeds ==
    /\ setup.step \in 1..Len(Steps) /\ setup.todo = {}
    /\ At("wait") => bronze[Anchor] > 0
    /\ StartStep(setup.step + 1)

\* The tasks behind it become upstream_failed, only the dashboard's has ALL_DONE.
StepFails ==
    /\ setup.step \in 1..(Len(Steps) - 1)
    /\ setup' = [step |-> Len(Steps), todo |-> {}, smooth |-> FALSE]
    /\ UNCHANGED <<data, told, airflow, stranded>>

Next ==
    \/ \E s \in Sources : StreamLoad(s) \/ CsvLoad(s) \/ CsvLoadFails(s)
                         \/ LeavesWindow(s) \/ Check(s)
    \/ \E d \in Dags : CreateRun(d) \/ BuildModels(d) \/ RunEnds(d) \/ RunFails(d)
    \/ StartSetup \/ StepSucceeds \/ StepFails

\* bronze_watch goes on, the scheduler creates runs, and they end; a run that
\* is tried again and again builds at last.
Fairness ==
    /\ \A s \in Sources : WF_vars(Check(s))
    /\ \A d \in Dags : WF_vars(CreateRun(d)) /\ SF_vars(BuildModels(d)) /\ WF_vars(RunEnds(d))

Spec == Init /\ [][Next]_vars /\ Fairness

-----------------------------------------------------------------------------
\* Type invariant of the chain: no layer is ahead of the one below, and the
\* bootstrap waits only for runs that are queued or active.
ChainTypeOK ==
    /\ \A s \in Sources : /\ bronze[s] \in 0..MaxLoads(s) /\ told[s] \in 0..bronze[s]
                          /\ silver[s] \in 0..bronze[s] /\ gold[s] \in 0..silver[s]
    /\ \A d \in Dags : updated[d] \subseteq Schedule(d)
    /\ asked \subseteq Dags /\ stranded \subseteq Sources /\ recent \subseteq Sources \ Csv
    /\ run \in [Dags -> [at : {"none", "running", "built"}, bySetup : BOOLEAN]]
    /\ setup \in [step : 0..(Len(Steps) + 1), todo : SUBSET Dags, smooth : BOOLEAN]
    /\ \A d \in setup.todo : d \in asked \/ run[d].bySetup

\* Again and again silver has all that bronze_watch or a CSV load announced, also
\* what was announced in the middle of a silver run, or has a failed run behind it
\* and nothing that announces it again: it came by CSV, or the stream is quiet
\* for a day (bronze_factory.py:43-61, csv_ingest_factory.py:163,
\* silver_factory.py:122).  A source with rows in the window recovers by itself.
SilverFollowsBronze ==
    \A s \in Sources : []<>(silver[s] >= told[s] \/ s \in stranded \ recent)

\* When no task of the bootstrap failed and every run it triggered built its
\* models, the marts hold rows of every source before the dashboard is built
\* (uc11_full_setup.py:392 and 580-590).
SetupBuildsMarts ==
    setup.step >= Len(Steps) /\ setup.smooth => \A s \in Sources : gold[s] > 0

\* "Output = silver-Dataset bij succesvolle dbt run" (silver_factory.py:4): when
\* silver holds rows of all sources, the gold DAG follows.
GoldFollowsSilver ==
    (\A s \in Sources : silver[s] > 0) ~> (\A s \in Sources : gold[s] > 0)
=============================================================================
