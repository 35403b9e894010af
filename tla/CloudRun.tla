------------------------------- MODULE CloudRun -------------------------------
(***************************************************************************)
(* The DAGs uc11_fabric and uc11_databricks: synthetic bronze and silver   *)
(* are made by notebooks in the cloud, the gold mart by dbt, and a last    *)
(* task looks whether the mart is there.  A task starts the remote work    *)
(* and polls it; when polling ends with an error or a timeout the work     *)
(* goes on.  Neither DAG limits its active runs, so runs overlap; on       *)
(* Databricks the job itself runs once at a time (max_concurrent_runs).    *)
(*                                                                         *)
(* A zone has a table for each of the source domains, and the notebooks    *)
(* overwrite one after the other; the mart is made of all of silver.  A    *)
(* table is abstracted to the number of the seeding it was made from.      *)
(***************************************************************************)
EXTENDS Naturals

CONSTANTS
    Runs,    \* DAG runs
    Domains  \* the source domains in the order of the notebooks, 1..n; 7 in the code

CloudAssumption ==
    1 \in Domains /\ \A d \in Domains : d \in Nat \ {0} /\ 1..d \subseteq Domains

VARIABLES
    vendor,  \* the DAG the behaviour is about
    lake,    \* lake[z][d] = the seeding table d of zone z was made from, 0 without it
    seeds,   \* seedings so far
    work,    \* work[r] = the notebook or job r started last
    run      \* run[r] = the task r is at, and what the property needs

vars == <<vendor, lake, seeds, work, run>>

Empty == [d \in Domains |-> 0]
NoWork == [does |-> "none", at |-> "none", gen |-> 0, table |-> 1, read |-> 0]
NoRun == [at |-> "none", gen |-> 0, read |-> Empty, seen |-> Empty,
          mixed |-> FALSE, late |-> FALSE]

Init ==
    /\ vendor \in {"fabric", "databricks"}
    /\ lake = [z \in {"bronze", "silver", "gold"} |-> Empty]
    /\ seeds = 0
    /\ work = [r \in Runs |-> NoWork]
    /\ run = [r \in Runs |-> NoRun]

-----------------------------------------------------------------------------
(* The cloud *)

Busy(r) == work[r].at \in {"seed", "read", "write"}

\* What r's own run notes, and the runs between their first call and their dbt.
Noted(r, own) ==
    [q \in Runs |-> IF q = r THEN own
                    ELSE [run[q] EXCEPT !.mixed = @ \/ run[q].at \in {"seed", "silver", "wait", "dbt"}]]

\* The work after a table: the next table, or what the notebook is followed by.
After(w, first, then) ==
    IF w.table + 1 \in Domains THEN [w EXCEPT !.at = first, !.table = @ + 1]
    ELSE [w EXCEPT !.at = then, !.table = 1, !.read = 0]

\* uc11_seed_bronze overwrites a table of bronze; in the Databricks job silver
\* follows.  A seeding makes the same rows every time (seed 42).
SeedTable(r) ==
    /\ work[r].at = "seed"
    /\ LET d == work[r].table
           gen == IF d = 1 THEN seeds + 1 ELSE work[r].gen
       IN  /\ seeds' = IF d = 1 THEN seeds + 1 ELSE seeds
           /\ lake' = [lake EXCEPT !["bronze"][d] = gen]
           /\ work' = [work EXCEPT ![r] =
                         After([@ EXCEPT !.gen = gen], "seed",
                               IF @.does = "job" THEN "read" ELSE "done")]
           /\ run' = Noted(r, [run[r] EXCEPT !.gen = gen])
    /\ UNCHANGED vendor

\* transform of uc11_silver reads a table of bronze as it is now ...
ReadTable(r) ==
    /\ work[r].at = "read" /\ lake["bronze"][work[r].table] > 0
    /\ work' = [work EXCEPT ![r].read = lake["bronze"][work[r].table], ![r].at = "write"]
    /\ UNCHANGED <<vendor, lake, seeds, run>>

\* ... and overwrites the one of silver.
WriteTable(r) ==
    /\ work[r].at = "write"
    /\ lake' = [lake EXCEPT !["silver"][work[r].table] = work[r].read]
    /\ work' = [work EXCEPT ![r] = After(@, "read", "done")]
    /\ run' = Noted(r, run[r])
    /\ UNCHANGED <<vendor, seeds>>

\* The tables written so far stay.
WorkFails(r) ==
    /\ Busy(r) /\ work' = [work EXCEPT ![r] = [NoWork EXCEPT !.at = "failed"]]
    /\ UNCHANGED <<vendor, lake, seeds, run>>

-----------------------------------------------------------------------------
(* The tasks of a run *)

Goto(r, at) == run' = [run EXCEPT ![r].at = at]

\* A run is triggered by hand, whatever other runs do.
Trigger(r) ==
    /\ run[r].at = "none"
    /\ Goto(r, IF vendor = "fabric" THEN "bootstrap" ELSE "seed")
    /\ UNCHANGED <<vendor, lake, seeds, work>>

\* _resolve_notebook_ids: both notebooks have an id.
Bootstrap(r) ==
    /\ run[r].at = "bootstrap" /\ Goto(r, "seed")
    /\ UNCHANGED <<vendor, lake, seeds, work>>

\* trigger_notebook, run_job.  Work is refused as "deduped" or SKIPPED: by the
\* job when it runs already, by Fabric at its discretion when the notebook does.
Working(does) == \E q \in Runs : Busy(q) /\ work[q].does = does

\* Mutant: a job that may run several times at once.
BugRefused(does) == {FALSE}

Refused(does) == IF ~Working(does) THEN {FALSE} ELSE IF does = "job" THEN {TRUE} ELSE BOOLEAN

Start(r) ==
    /\ run[r].at \in {"seed", "silver"}
    /\ LET does == IF vendor = "databricks" THEN "job" ELSE run[r].at IN
       \E refused \in Refused(does) :
          work' = [work EXCEPT ![r] =
                     [NoWork EXCEPT !.does = does,
                      !.at = IF refused THEN "refused" ELSE IF run[r].at = "seed" THEN "seed" ELSE "read"]]
    \* The answer may be lost: the work goes on without the run.
    /\ \E at \in {"wait", "failed"} : Goto(r, at)
    /\ UNCHANGED <<vendor, lake, seeds>>

\* wait_for_operation, wait_for_run: a final state.
Wait(r) ==
    /\ run[r].at = "wait" /\ work[r].at \in {"done", "failed", "refused"}
    /\ Goto(r, IF work[r].at # "done" THEN "failed"
               ELSE IF work[r].does = "seed" THEN "silver" ELSE "dbt")
    /\ UNCHANGED <<vendor, lake, seeds, work>>

\* dbt run: the mart is built from what silver is when it is read.
DbtReads(r) ==
    /\ run[r].at = "dbt" /\ \A d \in Domains : lake["silver"][d] > 0
    /\ run' = [run EXCEPT ![r].read = lake["silver"], ![r].at = "build"]
    /\ UNCHANGED <<vendor, lake, seeds, work>>

DbtBuilds(r) ==
    /\ run[r].at = "build"
    /\ lake' = [lake EXCEPT !["gold"] = run[r].read]
    /\ run' = [q \in Runs |-> IF q = r THEN [run[q] EXCEPT !.at = "verify"]
                              ELSE [run[q] EXCEPT !.late = @ \/ run[q].at = "verify"]]
    /\ UNCHANGED <<vendor, seeds, work>>

\* _verify_gold_mart: the mart is there.
Verify(r) ==
    /\ run[r].at = "verify" /\ lake["gold"] # Empty
    /\ run' = [run EXCEPT ![r].at = "success", ![r].seen = lake["gold"]]
    /\ UNCHANGED <<vendor, lake, seeds, work>>

\* A call that raises, a poll that runs out of time (30 or 60 minutes), a pod
\* that fails; an answer other than 200 ends the waiting on Databricks only.
RunFails(r) ==
    /\ run[r].at \notin {"none", "success", "failed"} /\ Goto(r, "failed")
    /\ UNCHANGED <<vendor, lake, seeds, work>>

Next == \E r \in Runs :
    \/ SeedTable(r) \/ ReadTable(r) \/ WriteTable(r) \/ WorkFails(r)
    \/ Trigger(r) \/ Bootstrap(r) \/ Start(r) \/ Wait(r)
    \/ DbtReads(r) \/ DbtBuilds(r) \/ Verify(r) \/ RunFails(r)

Spec == Init /\ [][Next]_vars

-----------------------------------------------------------------------------
\* Type invariant of the cloud pipelines.
CloudTypeOK ==
    /\ vendor \in {"fabric", "databricks"} /\ seeds \in Nat
    /\ lake \in [{"bronze", "silver", "gold"} -> [Domains -> 0..seeds]]
    /\ work \in [Runs -> [does : {"none", "seed", "silver", "job"}, gen : 0..seeds,
                          table : Domains, read : 0..seeds,
                          at : {"none", "refused", "seed", "read", "write", "done", "failed"}]]
    /\ run \in [Runs -> [at : {"none", "bootstrap", "seed", "silver", "wait", "dbt", "build",
                               "verify", "success", "failed"},
                         gen : 0..seeds, read : [Domains -> 0..seeds], seen : [Domains -> 0..seeds],
                         mixed : BOOLEAN, late : BOOLEAN]]

\* A run that ends well saw a mart all of whose sources come from its own
\* seeding or a later one, though notebooks fail between two tables, unless
\* another run's dbt replaced the mart just before - and, on Fabric only, unless
\* other work wrote bronze or silver between the run's start and its dbt.  On
\* Databricks work that was left behind and runs that overlap do no harm, as the
\* job runs once at a time.  The verifying task cannot tell: it accepts any mart
\* (uc11_fabric.py:129, uc11_databricks.py:118).
CloudRunsBuild ==
    \A r \in Runs : run[r].at = "success" /\ ~run[r].late
                    /\ (vendor = "databricks" \/ ~run[r].mixed) =>
        \A d \in Domains : run[r].seen[d] >= run[r].gen
=============================================================================
