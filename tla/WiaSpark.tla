------------------------------ MODULE WiaSpark ------------------------------
(***************************************************************************)
(* The Spark path for WIA: dags/transform_wia_spark.py launches a silver   *)
(* and then a gold SparkApplication and polls each; batch_silver_wia.py    *)
(* and batch_gold_wia.py are what they do, seed_bronze_wia.py fills bronze *)
(* beside them.  An application outlives the task that stopped waiting for *)
(* it, and its name is the logical date and the try: a second run of the   *)
(* day, or one after a failed delete, meets the application of the first.  *)
(*                                                                         *)
(* Rows are abstracted to the number of the seed they reflect: every seed  *)
(* writes the same ids, and the last event of an id wins.  That two first  *)
(* writes side by side leave every id twice is not told apart.             *)
(***************************************************************************)
EXTENDS Naturals

CONSTANTS
    Days,      \* logical dates (ds_nodash)
    MaxTries,  \* bound: tries of one task
    MaxRuns,   \* bound: runs that are triggered and tasks that are cleared
    MaxSeeds   \* bound: seeds of bronze

WiaAssumption == MaxTries \in Nat \ {0} /\ MaxSeeds \in Nat

RunLabels == Days \X (1..MaxTries)      \* ds_nodash-try_number
Names == {"silver", "gold"} \X RunLabels   \* the names of SparkApplications

VARIABLES
    lake,   \* lake[z] = the table of zone z: rows on storage, known to the metastore
    apps,   \* apps[n] = the custom resource n and its driver
    seeder, \* the seed-bronze-wia application
    dag,    \* the DAG run in progress, or the last one
    count,  \* bound: runs and cleared tasks so far
    orphan  \* history: a driver died between silver's first write and its registration

vars == <<lake, apps, seeder, dag, count, orphan>>

Empty == [rows |-> 0, known |-> FALSE]
NoApp == [phase |-> "none", at |-> "none", read |-> 0]
NoRun == [at |-> "none", layer |-> "silver", label |-> <<0, 1>>,
          since |-> 0, own |-> TRUE, alone |-> TRUE]

Running(n) == apps[n].phase = "Running"

\* Bronze may be empty and registered: rows past their retention are deleted.
Init ==
    /\ \E known \in BOOLEAN :
          lake = [z \in {"bronze", "silver", "gold"} |->
                    [rows |-> 0, known |-> z = "bronze" /\ known]]
    /\ apps = [n \in Names |-> NoApp]
    /\ seeder = "none" /\ dag = NoRun /\ count = 0 /\ orphan = FALSE

-----------------------------------------------------------------------------
(* seed_bronze_wia.py, applied by hand at any time *)

SeedDrops ==
    /\ seeder = "none" /\ lake["bronze"].rows < MaxSeeds
    /\ lake' = [lake EXCEPT !["bronze"].known = FALSE]
    /\ seeder' = "append"
    /\ UNCHANGED <<apps, dag, count, orphan>>

SeedAppends ==
    /\ seeder = "append"
    /\ lake' = [lake EXCEPT !["bronze"].rows = @ + 1]
    /\ seeder' = "create"
    /\ UNCHANGED <<apps, dag, count, orphan>>

SeedCreates ==
    /\ seeder = "create"
    /\ lake' = [lake EXCEPT !["bronze"].known = TRUE]
    /\ seeder' = "none"
    /\ UNCHANGED <<apps, dag, count, orphan>>

SeederDies ==
    /\ seeder # "none" /\ seeder' = "none"
    /\ UNCHANGED <<lake, apps, dag, count, orphan>>

-----------------------------------------------------------------------------
(* The drivers.  What another run's application writes is noted. *)

Mine(n) == n = <<dag.layer, dag.label>>

Move(n, at) == apps' = [apps EXCEPT ![n].at = at]

Writes(n) == dag' = [dag EXCEPT !.alone = @ /\ Mine(n)]

End(n, phase) == apps' = [apps EXCEPT ![n] = [NoApp EXCEPT !.phase = phase]]

Source(n) == IF n[1] = "silver" THEN "bronze" ELSE "silver"

\* spark.table and count: an unknown table raises, an empty one is success.
ReadSource(n) ==
    /\ Running(n) /\ apps[n].at = "read"
    /\ LET src == lake[Source(n)] IN
       IF ~src.known THEN End(n, "Failed")
       ELSE IF src.rows = 0 THEN End(n, "Succeeded")
       ELSE apps' = [apps EXCEPT ![n].read = src.rows,
                                 ![n].at = IF n[1] = "silver" THEN "look" ELSE "overwrite"]
    /\ UNCHANGED <<lake, seeder, dag, count, orphan>>

\* isDeltaTable
Look(n) ==
    /\ Running(n) /\ apps[n].at = "look"
    /\ Move(n, IF lake["silver"].rows > 0 THEN "merge" ELSE "append")
    /\ UNCHANGED <<lake, seeder, dag, count, orphan>>

\* The MERGE updates what it matches, also with older events.
Merge(n) ==
    /\ Running(n) /\ apps[n].at = "merge"
    /\ lake' = [lake EXCEPT !["silver"].rows = apps[n].read]
    /\ Move(n, "count") /\ Writes(n)
    /\ UNCHANGED <<seeder, count, orphan>>

\* The first write of silver appends, gold's write replaces the table.
WriteTable(n) ==
    /\ Running(n) /\ apps[n].at \in {"append", "overwrite"}
    /\ lake' = [lake EXCEPT ![n[1]].rows = apps[n].read]
    /\ Move(n, "drop") /\ Writes(n)
    /\ UNCHANGED <<seeder, count, orphan>>

DropTable(n) ==
    /\ Running(n) /\ apps[n].at = "drop"
    /\ lake' = [lake EXCEPT ![n[1]].known = FALSE]
    /\ Move(n, "create") /\ Writes(n)
    /\ UNCHANGED <<seeder, count, orphan>>

CreateTable(n) ==
    /\ Running(n) /\ apps[n].at = "create"
    /\ lake' = [lake EXCEPT ![n[1]].known = TRUE]
    /\ Move(n, "count") /\ Writes(n)
    /\ UNCHANGED <<seeder, count, orphan>>

\* The closing count reads the table by its name.
Count(n) ==
    /\ Running(n) /\ apps[n].at = "count"
    /\ End(n, IF lake[n[1]].known THEN "Succeeded" ELSE "Failed")
    /\ UNCHANGED <<lake, seeder, dag, count, orphan>>

\* The driver is lost, or a statement or commit fails.
Dies(n) ==
    /\ Running(n) /\ End(n, "Failed")
    /\ orphan' = (orphan \/ (n[1] = "silver" /\ apps[n].at \in {"drop", "create"}))
    /\ UNCHANGED <<lake, seeder, dag, count>>

-----------------------------------------------------------------------------
(* The DAG: max_active_runs = 1, retries = 0 *)

Active == dag.at \in {"apply", "poll"}

Trigger(d) ==
    /\ ~Active /\ count < MaxRuns
    /\ dag' = [NoRun EXCEPT !.at = "apply", !.label = <<d, 1>>, !.since = lake["bronze"].rows]
    /\ count' = count + 1
    /\ UNCHANGED <<lake, apps, seeder, orphan>>

\* An operator clears the failed task: its next try.
Clear ==
    /\ dag.at = "failed" /\ dag.label[2] < MaxTries /\ count < MaxRuns
    /\ dag' = [dag EXCEPT !.at = "apply", !.label[2] = @ + 1]
    /\ count' = count + 1
    /\ UNCHANGED <<lake, apps, seeder, orphan>>

\* What kubectl apply makes of a resource: one that exists stays as it is.
Created(a) == IF a.phase = "none" THEN [a EXCEPT !.phase = "Running", !.at = "read"] ELSE a

\* sed | kubectl apply, for the layer's application.
Apply ==
    /\ dag.at = "apply"
    /\ LET n == <<dag.layer, dag.label>> IN
       /\ apps' = [apps EXCEPT ![n] = Created(@)]
       /\ dag' = [dag EXCEPT !.at = "poll", !.own = @ /\ apps[n].phase = "none"]
    /\ UNCHANGED <<lake, seeder, count, orphan>>

\* Mutant: an application that runs counts as finished.
BugFinished(phase) == phase \in {"Succeeded", "Running"}

Finished(phase) == phase = "Succeeded"

\* Succeeded: the resource is deleted, or not (|| true), and the task that
\* follows starts; after gold the run is a success.
PollSucceeded ==
    /\ dag.at = "poll"
    /\ LET n == <<dag.layer, dag.label>> IN
       /\ Finished(apps[n].phase)
       /\ apps' \in {apps, [apps EXCEPT ![n] = NoApp]}
    /\ dag' = IF dag.layer = "gold" THEN [dag EXCEPT !.at = "success"]
              ELSE [dag EXCEPT !.layer = "gold", !.at = "apply", !.label[2] = 1]
    /\ UNCHANGED <<lake, seeder, count, orphan>>

\* Failed: the resource stays; a timeout, a lost pod or a failing kubectl ends
\* the task as well, and the application goes on.
TaskFails ==
    /\ Active /\ dag' = [dag EXCEPT !.at = "failed"]
    /\ UNCHANGED <<lake, apps, seeder, count, orphan>>

Next ==
    \/ SeedDrops \/ SeedAppends \/ SeedCreates \/ SeederDies
    \/ \E n \in Names :
          \/ ReadSource(n) \/ Look(n) \/ Merge(n) \/ WriteTable(n)
          \/ DropTable(n) \/ CreateTable(n) \/ Count(n) \/ Dies(n)
    \/ \E d \in Days : Trigger(d)
    \/ Clear \/ Apply \/ PollSucceeded \/ TaskFails

Spec == Init /\ [][Next]_vars

-----------------------------------------------------------------------------
\* Type invariant of the Spark path; silver is registered only with rows.
WiaTypeOK ==
    /\ lake \in [{"bronze", "silver", "gold"} -> [rows : 0..MaxSeeds, known : BOOLEAN]]
    /\ apps \in [Names -> [phase : {"none", "Running", "Succeeded", "Failed"},
                           at : {"none", "read", "look", "merge", "append", "overwrite",
                                 "drop", "create", "count"},
                           read : 0..MaxSeeds]]
    /\ seeder \in {"none", "append", "create"}
    /\ dag.at \in {"none", "apply", "poll", "success", "failed"}
    /\ lake["silver"].known => lake["silver"].rows > 0

\* A run whose two applications are its own, and beside which no older
\* application wrote, ends with a gold table that queries find and that
\* reflects every row bronze had when the run began; and silver's files are
\* without a registration only while it is made, or after a driver died before
\* it was - a table that no later run repairs, as it merges into the files and
\* registers nothing (batch_silver_wia.py:133-154).
WiaRunsRefresh ==
    /\ dag.at = "success" /\ dag.own /\ dag.alone /\ dag.since > 0 =>
          /\ lake["gold"].known /\ lake["gold"].rows >= dag.since
    /\ lake["silver"].rows > 0 /\ ~lake["silver"].known =>
          \/ orphan
          \/ \E n \in Names : n[1] = "silver" /\ apps[n].at \in {"drop", "create"}
=============================================================================
