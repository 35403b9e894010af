----------------------------- MODULE CloudDeploy -----------------------------
(***************************************************************************)
(* The upload scripts of the cloud variants: fabric-upload-notebooks.py,   *)
(* fabric-upload-powerbi.py and databricks-upload-notebooks-and-job.py.    *)
(* Each looks up by name what the workspace holds, updates or creates it,  *)
(* and the first and last remove deprecated notebooks.  Operators run them *)
(* by hand, possibly side by side; Fabric answers 202 and finishes later,  *)
(* also when the script has stopped waiting.  Databricks knows jobs with   *)
(* equal names, and Airflow starts the one an operator wrote in a variable.*)
(***************************************************************************)
EXTENDS Integers, Sequences, FiniteSets

CONSTANTS Uploads  \* uploads, numbered: the version of the files each carries

VARIABLES
    kind,      \* the script the behaviour is about
    items,     \* items[n] = the version of item n in the workspace, 0 if absent
    jobs,      \* jobs[i] = the version of the settings of job i
    variable,  \* Airflow's databricks_uc11_job_id, 0 if not set
    ops,       \* Fabric operations under way
    up,        \* up[u] = how far upload u is
    blind      \* history: a job was created although one was there

vars == <<kind, items, jobs, variable, ops, up, blind>>

Kinds == {"fabric", "powerbi", "databricks"}

\* NOTEBOOK_FILES, NOTEBOOKS; semantic model and report.
Actives == IF kind = "powerbi" THEN <<"model", "report">> ELSE <<"seed", "silver">>
Deprecated == IF kind = "powerbi" THEN {} ELSE {"dbt_gold"}
Artefacts == {"seed", "silver", "dbt_gold", "model", "report"}

Idle == [at |-> "none", todo |-> <<>>, known |-> {}, job |-> 0, alone |-> TRUE]

\* Before the first upload there may be a workspace of an older checkout (-1).
Init ==
    /\ kind \in Kinds
    /\ \E there \in SUBSET (Deprecated \cup {Actives[1]}) :
          items = [n \in Artefacts |-> IF n \in there THEN -1 ELSE 0]
    /\ jobs = <<>> /\ variable = 0 /\ ops = {}
    /\ up = [u \in Uploads |-> Idle]
    /\ blind = FALSE

-----------------------------------------------------------------------------
Active(u) == up[u].at \notin {"none", "done", "failed"}

Present == {n \in Artefacts : items[n] # 0}

\* The script starts; from now on no other upload is alone.
Start(u) ==
    /\ up[u].at = "none"
    /\ up' = [v \in Uploads |->
                IF v # u THEN [up[v] EXCEPT !.alone = FALSE]
                ELSE [Idle EXCEPT !.at = IF kind = "databricks" THEN "put" ELSE "list",
                                  !.todo = Actives,
                                  !.alone = ops = {} /\ \A w \in Uploads \ {u} : ~Active(w)]]
    /\ UNCHANGED <<kind, items, jobs, variable, ops, blind>>

\* list_items, once, or for Power BI before every item; list_workspace_notebooks
\* before the deprecated ones.
List(u) ==
    /\ up[u].at \in {"list", "relist"}
    /\ up' = [up EXCEPT ![u].known = Present,
                        ![u].at = IF @ = "relist" THEN "delete" ELSE "put"]
    /\ UNCHANGED <<kind, items, jobs, variable, ops, blind>>

Put(n, u) == [items EXCEPT ![n] = u]

\* import_notebook overwrites.
ImportNotebook(u) ==
    /\ kind = "databricks" /\ up[u].at = "put" /\ up[u].todo # <<>>
    /\ items' = Put(Head(up[u].todo), u)
    /\ up' = [up EXCEPT ![u].todo = Tail(@)]
    /\ UNCHANGED <<kind, jobs, variable, ops, blind>>

\* create_notebook, update_notebook, _create_or_update: an item that is listed
\* is updated by its id, another one is created; Fabric refuses a second item
\* of a name.  The change is carried out now or by an operation.
PutItem(u) ==
    /\ kind # "databricks" /\ up[u].at = "put" /\ up[u].todo # <<>>
    /\ LET n == Head(up[u].todo) IN
       /\ (n \in up[u].known) <=> (n \in Present)
       /\ \/ items' = Put(n, u) /\ UNCHANGED ops
             /\ up' = [up EXCEPT ![u].todo = Tail(@),
                                 ![u].at = IF kind = "powerbi" THEN "list" ELSE "put"]
          \/ ops' = ops \cup {<<u, n>>} /\ UNCHANGED items
             /\ up' = [up EXCEPT ![u].at = "wait"]
    /\ UNCHANGED <<kind, jobs, variable, blind>>

\* wait_for_operation
Waited(u) == \A n \in Artefacts : <<u, n>> \notin ops

OperationEnds(u, n) ==
    /\ <<u, n>> \in ops /\ ops' = ops \ {<<u, n>>}
    /\ items' = Put(n, u)
    /\ UNCHANGED <<kind, jobs, variable, up, blind>>

Wait(u) ==
    /\ up[u].at = "wait" /\ Waited(u)
    /\ up' = [up EXCEPT ![u].todo = Tail(@),
                        ![u].at = IF kind = "powerbi" THEN "list" ELSE "put"]
    /\ UNCHANGED <<kind, items, jobs, variable, ops, blind>>

\* All active items are in: the deprecated ones are next.
PutsDone(u) ==
    /\ up[u].at \in {"put", "list"} /\ up[u].todo = <<>>
    /\ up' = [up EXCEPT ![u].at = CASE kind = "fabric" -> "delete"
                                    [] kind = "powerbi" -> "done"
                                    [] OTHER -> "relist"]
    /\ UNCHANGED <<kind, items, jobs, variable, ops, blind>>

\* delete_notebook, delete_workspace_object; an id that is gone is an error.
DeleteDeprecated(u) ==
    /\ up[u].at = "delete"
    /\ up[u].known \cap Deprecated \subseteq Present
    /\ items' = [n \in Artefacts |-> IF n \in up[u].known \cap Deprecated THEN 0 ELSE items[n]]
    /\ up' = [up EXCEPT ![u].at = IF kind = "databricks" THEN "find" ELSE "done"]
    /\ UNCHANGED <<kind, jobs, variable, ops, blind>>

\* find_job: any answer but 200 counts as "no such job".
FindJob(u) ==
    /\ up[u].at = "find"
    /\ \E j \in {0} \cup DOMAIN jobs :
          /\ up' = [up EXCEPT ![u].job = j, ![u].at = "job"]
          /\ blind' = (blind \/ (j = 0 /\ jobs # <<>>))
    /\ UNCHANGED <<kind, items, jobs, variable, ops>>

\* Mutant: always jobs/create.
BugSettings(u, j) == Append(jobs, u)

\* jobs/reset of the job that was found, or jobs/create.
Settings(u, j) == IF j = 0 THEN Append(jobs, u) ELSE [jobs EXCEPT ![j] = u]

PutJob(u) ==
    /\ up[u].at = "job"
    /\ jobs' = Settings(u, up[u].job)
    /\ blind' = (blind \/ (up[u].job = 0 /\ jobs # <<>>))
    /\ up' = [up EXCEPT ![u].at = "done", ![u].job = IF @ = 0 THEN Len(jobs) + 1 ELSE @]
    /\ UNCHANGED <<kind, items, variable, ops>>

\* airflow variables set, with the id the script printed.
SetVariable(u) ==
    /\ kind = "databricks" /\ up[u].at = "done" /\ variable # up[u].job
    /\ variable' = up[u].job
    /\ UNCHANGED <<kind, items, jobs, ops, up, blind>>

\* A request fails, an answer is lost or does not come in time.
UploadFails(u) ==
    /\ Active(u) /\ up' = [up EXCEPT ![u].at = "failed"]
    /\ UNCHANGED <<kind, items, jobs, variable, ops, blind>>

Next == \E u \in Uploads :
    \/ Start(u) \/ List(u) \/ ImportNotebook(u) \/ PutItem(u) \/ Wait(u) \/ PutsDone(u)
    \/ DeleteDeprecated(u) \/ FindJob(u) \/ PutJob(u) \/ SetVariable(u) \/ UploadFails(u)
    \/ \E n \in Artefacts : OperationEnds(u, n)

Spec == Init /\ [][Next]_vars

-----------------------------------------------------------------------------
\* Type invariant of the uploads.
DeployTypeOK ==
    /\ kind \in Kinds /\ items \in [Artefacts -> Uploads \cup {0, -1}]
    /\ jobs \in Seq(Uploads) /\ variable \in 0..Len(jobs)
    /\ ops \subseteq Uploads \X Artefacts
    /\ \A u \in Uploads : up[u].job \in 0..Len(jobs) /\ up[u].known \subseteq Artefacts

\* When an upload has ended without an error, and no other one ran or had an
\* operation under way beside it, the workspace holds its version of every
\* active item and no deprecated one, and the job Airflow starts, if it has
\* one, has its settings - unless a job had been created beside an existing
\* one: find_job takes a failed request for "no such job", and from then on
\* uploads may update a job that Airflow does not run
\* (databricks-upload-notebooks-and-job.py:99-107).
UploadsTakeHold ==
    \A u \in Uploads : up[u].at = "done" /\ up[u].alone =>
        /\ \A n \in Deprecated : items[n] = 0
        /\ \A k \in DOMAIN Actives : items[Actives[k]] = u
        /\ variable # 0 /\ ~blind => jobs[variable] = u
=============================================================================
