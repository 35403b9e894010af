----------------------------- MODULE CloudProofs ---------------------------
(***************************************************************************)
(* The parts of Services that bring data and dashboards to where they are  *)
(* shown: the cloud DAGs, their upload scripts, the UC-12 seed and the     *)
(* bootstrap.  For each, an inductive invariant, a lemma per action, and   *)
(* the theorem that Services keeps the property, for every value of the    *)
(* constants.  At the end, the type invariant of all parts.                *)
(***************************************************************************)
EXTENDS PortalProofs, JobsProofs, Services, FiniteSetTheorems, SequenceTheorems, TLAPS

\* The variables of Services by the names they have in the part's own module.
vendor == v1
cloudLake == v2
seeds == v3
work == v4
run == v5

kind == v1
items == v2
jobs == v3
variable == v4
ops == v5
up == v6
blind == v7

app == v1
seedJob == v2
setupRaw == v3
rows == v4
marts == v5
manifest == v6
dups == v7
dash == v8
built == v9
setupRun == v10

file == v1
notebook == v2
pending == v3
tables == v4
notebookJob == v5
seed == v6

USE DEF vendor, cloudLake, seeds, work, run, kind, items, jobs, variable, ops, up,
        blind, app, seedJob, setupRaw, rows, marts, manifest, dups, dash, built,
        setupRun, file, notebook, pending, tables, notebookJob, seed

-----------------------------------------------------------------------------
\* Services starts as the part it is about starts.
LEMMA CloudStart ==
    Init => /\ part = "cloud" => Cloud!Init
            /\ part = "deploy" => Deploy!Init
            /\ part = "setup" => Setup!Init
            /\ part = "focus" => Focus!Init
  BY DEF Init

\* A step of Services is a step of the part it is about, or changes nothing there.
LEMMA CloudStep ==
    [Next]_vars => /\ part' = part
                   /\ part = "cloud" => [Cloud!Next]_(Cloud!vars)
                   /\ part = "deploy" => [Deploy!Next]_(Deploy!vars)
                   /\ part = "setup" => [Setup!Next]_(Setup!vars)
                   /\ part = "focus" => [Focus!Next]_(Focus!vars)
  <1>0. Next => part' = part
    BY DEF Next
  <1>1. part = "cloud" /\ [Next]_vars => [Cloud!Next]_(Cloud!vars)
    BY DEF Next, vars, Cloud!vars
  <1>2. part = "deploy" /\ [Next]_vars => [Deploy!Next]_(Deploy!vars)
    BY DEF Next, vars, Deploy!vars
  <1>3. part = "setup" /\ [Next]_vars => [Setup!Next]_(Setup!vars)
    BY DEF Next, vars, Setup!vars
  <1>4. part = "focus" /\ [Next]_vars => [Focus!Next]_(Focus!vars)
    BY DEF Next, vars, Focus!vars
  <1>. QED
    BY <1>0, <1>1, <1>2, <1>3, <1>4 DEF vars

-----------------------------------------------------------------------------
(* SetupTasks: the bootstrap DAG and the Job that builds the dashboards *)

\* The states of the Job that builds the dashboards.
DashboardJobs ==
    [at : {"none", "running", "succeeded", "failed"}, dying : BOOLEAN, saw : Nat]

\* Types; marts are counted by the runs, and dashboards by the marts.
SetupTyped ==
    /\ app \in {"none", "up", "failed"}
    /\ seedJob \in {"none", "running", "succeeded", "failed"}
    /\ setupRaw \in BOOLEAN /\ rows \in BOOLEAN /\ manifest \in BOOLEAN
    /\ dups \subseteq {"bronze", "silver"}
    /\ setupRun \in [no : 0..MaxSetups,
                     at : Setup!Prepare \cup Setup!Rebuild \cup {"none", "success", "failed"}]
    /\ marts \in 0..setupRun.no /\ built \in 0..marts
    /\ dash \in DashboardJobs /\ dash.saw <= marts

\* A Job that succeeded built the dashboards, and none did so since.
JobBuiltThem ==
    /\ dash.at = "none" => dash = Setup!NoJob
    /\ dash.at = "succeeded" => built = dash.saw

\* A Job that is there while the run polls, or after, saw the marts as they are.
PolledJobIsNew ==
    setupRun.at \in {"poll", "success"} /\ dash.at # "none" => dash.saw = marts

\* Inductive: a run that succeeds leaves dashboards of its marts.
SetupInv == SetupTyped /\ JobBuiltThem /\ PolledJobIsNew /\ Setup!DashboardsFollowMarts

\* No Job, and one that starts now.
LEMMA JobValues ==
    /\ Setup!NoJob \in DashboardJobs /\ Setup!NoJob.at = "none" /\ Setup!NoJob.saw = 0
    /\ marts \in Nat => Setup!FreshJob \in DashboardJobs
    /\ Setup!FreshJob.at = "running" /\ Setup!FreshJob.saw = marts
  BY DEF Setup!NoJob, Setup!FreshJob, DashboardJobs

\* Nothing has run.
LEMMA SetupInit == Setup!SetupAssumption /\ Setup!Init => SetupInv
  <1>. SUFFICES ASSUME Setup!SetupAssumption, Setup!Init PROVE SetupInv
    OBVIOUS
  <1>1. /\ app = "none" /\ seedJob = "none" /\ setupRaw = FALSE /\ rows = FALSE
        /\ manifest = FALSE /\ dups = {} /\ marts = 0 /\ built = 0
        /\ setupRun = [no |-> 0, at |-> "none"] /\ dash = Setup!NoJob
    BY DEF Setup!Init
  <1>2. /\ setupRun \in [no : 0..MaxSetups,
                     at : Setup!Prepare \cup Setup!Rebuild \cup {"none", "success", "failed"}]
        /\ setupRun.no = 0 /\ setupRun.at = "none"
    BY <1>1 DEF Setup!SetupAssumption
  <1>3. SetupTyped
    <2>1. dash \in DashboardJobs /\ dash.saw <= marts
      BY <1>1, JobValues
    <2>2. marts \in 0..setupRun.no /\ built \in 0..marts
      BY <1>1, <1>2
    <2>3. app \in {"none", "up", "failed"} /\ dups \subseteq {"bronze", "silver"}
      BY <1>1
    <2>. QED
      BY <1>1, <1>2, <2>1, <2>2, <2>3 DEF SetupTyped
  <1>. QED
    BY <1>1, <1>2, <1>3, JobValues DEF SetupInv, JobBuiltThem, PolledJobIsNew,
                                       Setup!DashboardsFollowMarts

\* A step that leaves the marts, the dashboards and their Job alone and, when it
\* is one of the run, does not end in "poll" or "success".
LEMMA SetupFramePreserves ==
    ASSUME SetupInv, UNCHANGED <<marts, dash, built>>,
           /\ app' \in {"none", "up", "failed"}
           /\ seedJob' \in {"none", "running", "succeeded", "failed"}
           /\ setupRaw' \in BOOLEAN /\ rows' \in BOOLEAN /\ manifest' \in BOOLEAN
           /\ dups' \subseteq {"bronze", "silver"},
           \/ setupRun' = setupRun
           \/ \E task \in Setup!Prepare \cup Setup!Rebuild \cup {"failed"} :
                 task # "poll" /\ setupRun' = [setupRun EXCEPT !.at = task]
    PROVE  SetupInv'
  <1>1. /\ setupRun' \in [no : 0..MaxSetups,
                     at : Setup!Prepare \cup Setup!Rebuild \cup {"none", "success", "failed"}]
        /\ setupRun'.no = setupRun.no
        /\ setupRun' = setupRun \/ setupRun'.at \notin {"poll", "success"}
    BY DEF SetupInv, SetupTyped, Setup!Prepare, Setup!Rebuild
  <1>2. SetupTyped'
    BY <1>1 DEF SetupInv, SetupTyped
  <1>3. JobBuiltThem' /\ PolledJobIsNew' /\ Setup!DashboardsFollowMarts'
    BY <1>1 DEF SetupInv, JobBuiltThem, PolledJobIsNew, Setup!DashboardsFollowMarts
  <1>. QED
    BY <1>2, <1>3 DEF SetupInv

\* What operators and the streaming loader do beside the run.
LEMMA ClusterPreserves ==
    ASSUME SetupInv, Setup!MakeSeed \/ Setup!SeedJobRuns \/ Setup!StreamingRuns
    PROVE  SetupInv'
  <1>. USE DEF Setup!MakeSeed, Setup!SeedJobRuns, Setup!StreamingRuns, Setup!lake, Setup!meta,
               Setup!superset
  <1>1. UNCHANGED <<marts, dash, built, setupRun>>
    OBVIOUS
  <1>2. /\ app' \in {"none", "up", "failed"}
        /\ seedJob' \in {"none", "running", "succeeded", "failed"}
        /\ setupRaw' \in BOOLEAN /\ rows' \in BOOLEAN /\ manifest' \in BOOLEAN
        /\ dups' \subseteq {"bronze", "silver"}
    BY DEF SetupInv, SetupTyped
  <1>. QED
    BY <1>1, <1>2, SetupFramePreserves

\* The Job of the dashboards: applied, run, deleted.
LEMMA DashboardJobPreserves ==
    ASSUME SetupInv, Setup!ApplyDashboards \/ Setup!DashboardsRun \/ Setup!DashboardsGone
    PROVE  SetupInv'
  <1>. USE DEF SetupInv, Setup!lake, Setup!meta
  <1>1. UNCHANGED <<app, seedJob, setupRaw, rows, manifest, dups, marts, setupRun>>
    BY DEF Setup!ApplyDashboards, Setup!DashboardsRun, Setup!DashboardsGone
  <1>2. CASE Setup!ApplyDashboards
    <2>1. dash' = Setup!FreshJob /\ built' = built
      BY <1>2 DEF Setup!ApplyDashboards
    <2>2. dash' \in DashboardJobs /\ dash'.at = "running" /\ dash'.saw = marts
      BY <2>1, JobValues DEF SetupTyped
    <2>3. SetupTyped'
      BY <1>1, <2>1, <2>2 DEF SetupTyped
    <2>. QED
      BY <1>1, <2>1, <2>2, <2>3 DEF JobBuiltThem, PolledJobIsNew, Setup!DashboardsFollowMarts
  <1>3. CASE Setup!DashboardsRun
    <2>1. /\ dash.at = "running"
          /\ \/ dash' = [dash EXCEPT !.at = "succeeded"] /\ built' = dash.saw
             \/ dash' = [dash EXCEPT !.at = "failed"] /\ built' = built
      BY <1>3 DEF Setup!DashboardsRun
    <2>2. /\ dash' \in DashboardJobs /\ dash'.saw = dash.saw
          /\ dash'.at \in {"succeeded", "failed"}
          /\ dash'.at = "succeeded" => built' = dash.saw
          /\ built' \in {built, dash.saw}
      BY <2>1 DEF SetupTyped, DashboardJobs
    <2>3. SetupTyped'
      BY <1>1, <2>2 DEF SetupTyped, DashboardJobs
    <2>4. JobBuiltThem' /\ PolledJobIsNew'
      BY <1>1, <2>1, <2>2 DEF SetupTyped, JobBuiltThem, PolledJobIsNew
    <2>5. Setup!DashboardsFollowMarts'
      BY <1>1, <2>1 DEF PolledJobIsNew, Setup!DashboardsFollowMarts
    <2>. QED
      BY <2>3, <2>4, <2>5
  <1>4. CASE Setup!DashboardsGone
    <2>1. dash' = Setup!NoJob /\ built' = built
      BY <1>4 DEF Setup!DashboardsGone
    <2>2. SetupTyped'
      BY <1>1, <2>1, JobValues DEF SetupTyped
    <2>. QED
      BY <1>1, <2>1, <2>2, JobValues DEF JobBuiltThem, PolledJobIsNew,
                                         Setup!DashboardsFollowMarts
  <1>. QED
    BY <1>2, <1>3, <1>4

\* The tasks of the run that have nothing to do with the dashboards.
LEMMA PreparePreserves ==
    ASSUME SetupInv,
           \/ Setup!PrepareFails \/ Setup!EnsureStreaming \/ Setup!EnsureSeed
           \/ Setup!WaitForBronze \/ Setup!RenderManifest \/ Setup!IngestMetadata
           \/ Setup!CleanupDuplicates \/ Setup!AwaitDeletion
    PROVE  SetupInv'
  <1>. USE DEF Setup!PrepareFails, Setup!EnsureStreaming, Setup!EnsureSeed, Setup!WaitForBronze,
               Setup!RenderManifest, Setup!IngestMetadata, Setup!CleanupDuplicates,
               Setup!AwaitDeletion, Setup!lake, Setup!meta, Setup!superset, Setup!GoTo
  <1>1. UNCHANGED <<marts, dash, built>>
    OBVIOUS
  <1>2. /\ app' \in {"none", "up", "failed"}
        /\ seedJob' \in {"none", "running", "succeeded", "failed"}
        /\ setupRaw' \in BOOLEAN /\ rows' \in BOOLEAN /\ manifest' \in BOOLEAN
        /\ dups' \subseteq {"bronze", "silver"}
    BY DEF SetupInv, SetupTyped
  <1>3. \E task \in Setup!Prepare \cup Setup!Rebuild \cup {"failed"} :
           task # "poll" /\ setupRun' = [setupRun EXCEPT !.at = task]
    BY DEF Setup!Prepare, Setup!Rebuild
  <1>. QED
    BY <1>1, <1>2, <1>3, SetupFramePreserves

\* A run is triggered: the marts are those of runs before it.
LEMMA StartPreserves == ASSUME SetupInv, Setup!SetupAssumption, Setup!StartSetup PROVE SetupInv'
  <1>. USE DEF Setup!StartSetup, Setup!lake, Setup!meta, Setup!superset, Setup!SetupAssumption
  <1>1. UNCHANGED <<app, seedJob, setupRaw, rows, manifest, dups, marts, dash, built>>
    OBVIOUS
  <1>2. setupRun' = [no |-> setupRun.no + 1, at |-> "streaming"] /\ setupRun.no < MaxSetups
    OBVIOUS
  <1>3. SetupTyped'
    <2>1. /\ setupRun' \in [no : 0..MaxSetups,
                     at : Setup!Prepare \cup Setup!Rebuild \cup {"none", "success", "failed"}]
          /\ setupRun'.no = setupRun.no + 1
      BY <1>2 DEF SetupInv, SetupTyped, Setup!Prepare
    <2>2. setupRun.no \in Nat /\ marts \in Nat /\ marts <= setupRun.no
      BY DEF SetupInv, SetupTyped
    <2>. QED
      BY <1>1, <2>1, <2>2 DEF SetupInv, SetupTyped
  <1>. QED
    BY <1>1, <1>2, <1>3 DEF SetupInv, JobBuiltThem, PolledJobIsNew, Setup!DashboardsFollowMarts

\* The gold build: newer marts, while the run is far from its dashboards.
LEMMA BuildPreserves == ASSUME SetupInv, Setup!BuildMarts PROVE SetupInv'
  <1>. USE DEF Setup!BuildMarts, Setup!meta, Setup!superset, Setup!GoTo
  <1>1. UNCHANGED <<app, seedJob, setupRaw, rows, manifest, dups, dash, built>>
    OBVIOUS
  <1>2. marts' \in {marts, setupRun.no} /\ setupRun' = [setupRun EXCEPT !.at = "manifest"]
    OBVIOUS
  <1>3. /\ setupRun' \in [no : 0..MaxSetups,
                     at : Setup!Prepare \cup Setup!Rebuild \cup {"none", "success", "failed"}]
        /\ setupRun'.no = setupRun.no /\ setupRun'.at = "manifest"
    BY <1>2 DEF SetupInv, SetupTyped, Setup!Prepare
  <1>4. marts' \in 0..setupRun.no /\ 0..marts \subseteq 0..marts'
    BY <1>2 DEF SetupInv, SetupTyped
  <1>5. SetupTyped'
    BY <1>1, <1>3, <1>4 DEF SetupInv, SetupTyped, DashboardJobs
  <1>. QED
    BY <1>1, <1>3, <1>5 DEF SetupInv, JobBuiltThem, PolledJobIsNew, Setup!DashboardsFollowMarts

\* The last task: the Job is deleted, created anew and polled.
LEMMA RebuildPreserves ==
    ASSUME SetupInv,
           Setup!DeleteDashboards \/ Setup!CreateDashboards \/ Setup!PollDashboards
    PROVE  SetupInv'
  <1>. USE DEF SetupInv, Setup!lake, Setup!meta, Setup!superset, Setup!GoTo
  <1>1. UNCHANGED <<app, seedJob, setupRaw, rows, manifest, dups, marts, built>>
    BY DEF Setup!DeleteDashboards, Setup!CreateDashboards, Setup!PollDashboards
  <1>2. ASSUME NEW task \in Setup!Rebuild \cup {"success", "failed"},
               setupRun' = [setupRun EXCEPT !.at = task]
        PROVE  /\ setupRun' \in [no : 0..MaxSetups,
                     at : Setup!Prepare \cup Setup!Rebuild \cup {"none", "success", "failed"}]
               /\ setupRun'.no = setupRun.no /\ setupRun'.at = task
    BY <1>2 DEF SetupTyped
  <1>3. CASE Setup!DeleteDashboards
    <2>1. PICK task \in {"gone", "failed"} : setupRun' = [setupRun EXCEPT !.at = task]
      BY <1>3 DEF Setup!DeleteDashboards
    <2>2. /\ setupRun' \in [no : 0..MaxSetups,
                     at : Setup!Prepare \cup Setup!Rebuild \cup {"none", "success", "failed"}]
          /\ setupRun'.no = setupRun.no /\ setupRun'.at \in {"gone", "failed"}
      BY <1>2, <2>1 DEF Setup!Rebuild
    <2>3. dash' = dash \/ (dash # Setup!NoJob /\ dash' = [dash EXCEPT !.dying = TRUE])
      BY <1>3 DEF Setup!DeleteDashboards
    <2>4. dash' \in DashboardJobs /\ dash'.at = dash.at /\ dash'.saw = dash.saw
      BY <2>3 DEF SetupTyped, DashboardJobs
    <2>5. SetupTyped'
      BY <1>1, <2>2, <2>4 DEF SetupTyped
    <2>6. JobBuiltThem'
      BY <1>1, <2>3, <2>4, JobValues DEF JobBuiltThem
    <2>. QED
      BY <1>1, <2>2, <2>4, <2>5, <2>6 DEF PolledJobIsNew, Setup!DashboardsFollowMarts
  <1>4. CASE Setup!CreateDashboards
    <2>1. dash' = dash \/ dash' = Setup!FreshJob
      BY <1>4 DEF Setup!CreateDashboards
    <2>2. \/ dash' = Setup!FreshJob /\ setupRun' = [setupRun EXCEPT !.at = "poll"]
          \/ setupRun' = [setupRun EXCEPT !.at = "failed"]
      BY <1>4 DEF Setup!CreateDashboards
    <2>3. /\ setupRun' \in [no : 0..MaxSetups,
                     at : Setup!Prepare \cup Setup!Rebuild \cup {"none", "success", "failed"}]
          /\ setupRun'.no = setupRun.no
          /\ setupRun'.at = "failed" \/ (dash' = Setup!FreshJob /\ setupRun'.at = "poll")
      BY <1>2, <2>2 DEF Setup!Rebuild
    <2>4. /\ dash' \in DashboardJobs /\ dash'.saw <= marts
          /\ dash' = dash \/ (dash'.at = "running" /\ dash'.saw = marts)
      BY <2>1, JobValues DEF SetupTyped
    <2>5. SetupTyped' /\ JobBuiltThem'
      BY <1>1, <2>3, <2>4 DEF SetupTyped, JobBuiltThem
    <2>6. setupRun'.at = "poll" => dash'.saw = marts
      BY <2>1, <2>3, JobValues
    <2>. QED
      BY <1>1, <2>3, <2>5, <2>6 DEF PolledJobIsNew, Setup!DashboardsFollowMarts
  <1>5. CASE Setup!PollDashboards
    <2>1. /\ dash' = dash /\ setupRun.at = "poll"
          /\ \/ dash.at = "succeeded" /\ setupRun' = [setupRun EXCEPT !.at = "success"]
             \/ setupRun' = [setupRun EXCEPT !.at = "failed"]
      BY <1>5 DEF Setup!PollDashboards, Setup!At
    <2>2. /\ setupRun' \in [no : 0..MaxSetups,
                     at : Setup!Prepare \cup Setup!Rebuild \cup {"none", "success", "failed"}]
          /\ setupRun'.no = setupRun.no
          /\ setupRun'.at = "failed" \/ (dash.at = "succeeded" /\ setupRun'.at = "success")
      BY <1>2, <2>1
    <2>3. SetupTyped' /\ JobBuiltThem'
      BY <1>1, <2>1, <2>2 DEF SetupTyped, JobBuiltThem
    <2>. QED
      BY <1>1, <2>1, <2>2, <2>3 DEF JobBuiltThem, PolledJobIsNew, Setup!DashboardsFollowMarts
  <1>. QED
    BY <1>3, <1>4, <1>5

\* Every step of the DAG and of what it shares.
LEMMA SetupPreserved ==
    ASSUME Setup!SetupAssumption, SetupInv, [Setup!Next]_(Setup!vars) PROVE SetupInv'
  <1>1. CASE UNCHANGED Setup!vars
    BY <1>1 DEF Setup!vars, SetupInv, SetupTyped, JobBuiltThem, PolledJobIsNew,
                Setup!DashboardsFollowMarts
  <1>. QED
    BY <1>1, ClusterPreserves, DashboardJobPreserves, PreparePreserves, StartPreserves,
       BuildPreserves, RebuildPreserves DEF Setup!Next

\* The values of the variables are those SetupTypeOK names.
LEMMA SetupTypes == Setup!SetupAssumption /\ SetupInv => Setup!SetupTypeOK
  <1>. SUFFICES ASSUME Setup!SetupAssumption, SetupInv PROVE Setup!SetupTypeOK
    OBVIOUS
  <1>. USE DEF SetupInv, SetupTyped, Setup!SetupAssumption, DashboardJobs
  <1>1. marts \in 0..MaxSetups /\ built \in 0..marts /\ dash.saw \in 0..marts
    OBVIOUS
  <1>2. dash.dying \in BOOLEAN /\ setupRun.at \in Setup!Prepare \cup Setup!Rebuild
                                              \cup {"none", "success", "failed"}
    OBVIOUS
  <1>. QED
    BY <1>1, <1>2 DEF Setup!SetupTypeOK

\* "rebuild_superset_dashboard" comes last so that the dashboards are built after
\* the gold marts exist (uc11_full_setup.py, the comment above
\* REBUILD_DASHBOARD_SCRIPT): however often the DAG runs, whatever fails before
\* and whoever applies or deletes the Job meanwhile, a run that ends well has
\* dashboards of the marts as they are.
THEOREM SetupDashboardsAreCurrent == Spec => []DashboardsFollowMarts
  <1>. DEFINE Inv == part = "setup" => SetupInv
  <1>1. Init => Inv
    BY CloudStart, SetupInit, ServicesAssumption
  <1>2. Inv /\ [Next]_vars => Inv'
    BY CloudStep, SetupPreserved, ServicesAssumption
  <1>3. Inv => DashboardsFollowMarts
    BY DEF SetupInv, DashboardsFollowMarts
  <1>. QED
    BY <1>1, <1>2, <1>3, PTL DEF Spec

-----------------------------------------------------------------------------
(* FocusSeed: the seed of UC-12 *)

\* The steps of a seed, and the runs of its notebook.
Steps == {"none", "create", "append", "flush", "list", "put", "settle", "trigger", "wait",
          "refresh", "verify", "done", "failed"}
NotebookRuns == [at : {"none", "queued", "running", "completed", "failed"},
                 code : Seeds \cup {0}, todo : SUBSET Marts]

SeedRuns == [at : Steps, known : BOOLEAN, alone : BOOLEAN, followed : BOOLEAN]

\* Types.
FocusTyped ==
    /\ file \in [data : Seeds \cup {0}, staged : Seeds \cup {0}]
    /\ notebook \in Seeds \cup {0} /\ pending \subseteq Seeds
    /\ tables \in [Marts -> (Seeds \cup {0}) \X (Seeds \cup {0})]
    /\ notebookJob \in [Seeds -> NotebookRuns]
    /\ seed \in [Seeds -> SeedRuns]

\* What Fabric does for a seed, by how far the seed is.
WorkOf(s) ==
    /\ s \in pending =>
           \/ seed[s].at \in {"settle", "failed"}
           \/ /\ ~seed[s].followed
              /\ seed[s].at \in {"trigger", "wait", "refresh", "verify", "done"}
    /\ notebookJob[s].at # "none" =>
           seed[s].at \in {"wait", "refresh", "verify", "done", "failed"}
    /\ seed[s].at \in {"refresh", "verify", "done"} => notebookJob[s].at = "completed"

\* A seed beside which no other has run so far.
Solo(s) == seed[s].alone /\ seed[s].at \notin {"none", "failed"}

\* Nothing of seed t goes on.
AtRest(t) == ~Focus!Active(t) /\ ~Focus!Working(t)

\* What such a seed has achieved: file, notebook and marts are its own.
Progress(s) ==
    /\ seed[s].at = "flush" => file.staged = s
    /\ seed[s].at \in {"list", "put", "settle", "trigger", "wait", "refresh", "verify", "done"}
           => file.data = s
    /\ seed[s].at = "settle" => s \in pending \/ notebook = s
    /\ seed[s].at \in {"trigger", "wait", "refresh", "verify", "done"} =>
           (seed[s].followed => notebook = s)
    /\ seed[s].at \in {"wait", "refresh", "verify", "done"} =>
           /\ seed[s].followed => notebookJob[s].code = s
           /\ notebookJob[s].at = "queued" => notebookJob[s].todo = Marts
           /\ notebookJob[s].at = "completed" => notebookJob[s].todo = {}
           /\ notebookJob[s].at \in {"running", "completed"} =>
                  \A m \in Marts \ notebookJob[s].todo : tables[m] = <<notebookJob[s].code, s>>

\* Inductive: a seed that is alone has achieved what its step says.
FocusInv ==
    /\ FocusTyped
    /\ \A s \in Seeds : WorkOf(s)
    /\ \A s \in Seeds : Solo(s) =>
           Progress(s) /\ \A t \in Seeds \ {s} : AtRest(t)

\* Before the first seed.
LEMMA FocusInit == Focus!Init => FocusInv
  <1>. SUFFICES ASSUME Focus!Init PROVE FocusInv
    OBVIOUS
  <1>. USE DEF Focus!Init, Focus!Idle, Focus!NoJob, Focus!Missing
  <1>1. FocusTyped
    BY DEF FocusTyped, Steps, NotebookRuns, SeedRuns
  <1>2. \A s \in Seeds : WorkOf(s) /\ ~Solo(s)
    BY DEF WorkOf, Solo
  <1>. QED
    BY <1>1, <1>2 DEF FocusInv

\* Only a seed that is alone, or none, is disturbed by what a seed does: it is
\* enough to look at that one.
LEMMA SeedFrame ==
    ASSUME FocusInv, NEW s \in Seeds, Focus!Active(s) \/ Focus!Working(s),
           \A t \in Seeds \ {s} : /\ seed'[t] = seed[t]
                                  /\ notebookJob'[t] = notebookJob[t]
                                  /\ t \in pending' <=> t \in pending,
           FocusTyped', WorkOf(s)',
           Solo(s)' => Solo(s), Solo(s) /\ Solo(s)' => Progress(s)'
    PROVE  FocusInv'
  <1>1. \A t \in Seeds : WorkOf(t)'
    BY DEF FocusInv, WorkOf
  <1>2. \A t \in Seeds \ {s} : ~Solo(t)'
    BY DEF FocusInv, Solo, AtRest
  <1>3. ASSUME Solo(s)', NEW t \in Seeds \ {s} PROVE AtRest(t)'
    BY <1>3 DEF FocusInv, AtRest, Focus!Active, Focus!Working
  <1>. QED
    BY <1>1, <1>2, <1>3 DEF FocusInv

\* What Fabric does for a seed.
LEMMA FabricPreserves ==
    ASSUME FocusInv, NEW s \in Seeds,
           Focus!DefinitionLands(s) \/ Focus!JobReads(s) \/ Focus!JobWrites(s) \/ Focus!JobFails(s)
    PROVE  FocusInv'
  <1>1. CASE Focus!DefinitionLands(s)
    <2>. USE <1>1 DEF Focus!DefinitionLands
    <2>1. Focus!Working(s)
      BY DEF Focus!Working
    <2>2. FocusTyped' /\ WorkOf(s)'
      BY DEF FocusInv, FocusTyped, WorkOf
    <2>3. Solo(s)' => Solo(s)
      BY DEF Solo
    <2>4. Solo(s) => Progress(s)'
      BY DEF FocusInv, Progress, WorkOf
    <2>. QED
      BY <2>1, <2>2, <2>3, <2>4, SeedFrame
  <1>2. CASE Focus!JobReads(s) \/ Focus!JobFails(s)
    <2>. USE DEF Focus!JobReads, Focus!JobFails
    <2>0. UNCHANGED <<file, notebook, pending, tables, seed>>
      BY <1>2
    <2>1. Focus!Working(s) /\ notebookJob[s].at \in {"queued", "running"}
      BY <1>2 DEF Focus!Working
    <2>2. PICK at \in {"running", "failed"} :
             /\ notebookJob' = [notebookJob EXCEPT ![s].at = at]
             /\ at = "running" => notebookJob[s].at = "queued"
      BY <1>2
    <2>3. /\ notebookJob' \in [Seeds -> NotebookRuns]
          /\ notebookJob'[s].at = at
          /\ notebookJob'[s].code = notebookJob[s].code
          /\ notebookJob'[s].todo = notebookJob[s].todo
          /\ \A t \in Seeds \ {s} : notebookJob'[t] = notebookJob[t]
      BY <2>2 DEF FocusInv, FocusTyped, NotebookRuns
    <2>4. FocusTyped' /\ WorkOf(s)'
      BY <2>0, <2>1, <2>3 DEF FocusInv, FocusTyped, WorkOf
    <2>5. Solo(s)' => Solo(s)
      BY <2>0 DEF Solo
    <2>6. Solo(s) => Progress(s)'
      BY <2>0, <2>2, <2>3 DEF FocusInv, Progress, WorkOf
    <2>. QED
      BY <2>0, <2>1, <2>3, <2>4, <2>5, <2>6, SeedFrame
  <1>3. CASE Focus!JobWrites(s)
    <2>. USE DEF Focus!JobWrites
    <2>0. UNCHANGED <<file, notebook, pending, seed>> /\ notebookJob[s].at = "running"
      BY <1>3
    <2>1. Focus!Working(s)
      BY <2>0 DEF Focus!Working
    <2>2. PICK m \in notebookJob[s].todo :
             /\ tables' = [tables EXCEPT ![m] = <<notebookJob[s].code, file.data>>]
             /\ notebookJob' = [notebookJob EXCEPT
                     ![s].todo = @ \ {m},
                     ![s].at = IF notebookJob[s].todo = {m} THEN "completed" ELSE "running"]
      BY <1>3
    <2>. DEFINE at == IF notebookJob[s].todo = {m} THEN "completed" ELSE "running"
                j == [notebookJob[s] EXCEPT !.todo = @ \ {m}, !.at = at]
    <2>. HIDE DEF at
    <2>3. /\ notebookJob' \in [Seeds -> NotebookRuns]
          /\ notebookJob'[s].at = at
          /\ notebookJob'[s].code = notebookJob[s].code
          /\ notebookJob'[s].todo = notebookJob[s].todo \ {m}
          /\ \A t \in Seeds \ {s} : notebookJob'[t] = notebookJob[t]
      <3>1. notebookJob[s] \in NotebookRuns /\ at \in {"completed", "running"}
        BY DEF FocusInv, FocusTyped, at
      <3>2. /\ j \in NotebookRuns /\ j.at = at /\ j.code = notebookJob[s].code
            /\ j.todo = notebookJob[s].todo \ {m}
        BY <3>1 DEF NotebookRuns
      <3>3. notebookJob' = [notebookJob EXCEPT ![s] = j]
        BY <2>2 DEF at
      <3>. HIDE DEF j
      <3>4. /\ notebookJob' \in [Seeds -> NotebookRuns] /\ notebookJob'[s] = j
            /\ \A t \in Seeds \ {s} : notebookJob'[t] = notebookJob[t]
        BY <3>2, <3>3 DEF FocusInv, FocusTyped
      <3>. QED
        BY <3>2, <3>4
    <2>4. /\ tables' \in [Marts -> (Seeds \cup {0}) \X (Seeds \cup {0})]
          /\ m \in Marts /\ tables'[m] = <<notebookJob[s].code, file.data>>
          /\ \A n \in Marts \ {m} : tables'[n] = tables[n]
      BY <2>2 DEF FocusInv, FocusTyped, NotebookRuns
    <2>5. FocusTyped' /\ WorkOf(s)'
      BY <2>0, <2>3, <2>4 DEF FocusInv, FocusTyped, WorkOf, at
    <2>6. Solo(s)' => Solo(s)
      BY <2>0 DEF Solo
    <2>7. Solo(s) => Progress(s)'
      <3>. SUFFICES ASSUME Solo(s) PROVE Progress(s)'
        OBVIOUS
      <3>1. seed[s].at \in {"wait", "refresh", "verify", "done"}
        BY <2>0 DEF FocusInv, WorkOf, Solo
      <3>2. (seed[s].followed => notebookJob[s].code = s) /\ file.data = s
        BY <3>1 DEF FocusInv, Progress
      <3>3. \A n \in Marts \ notebookJob'[s].todo : tables'[n] = <<notebookJob'[s].code, s>>
        BY <2>0, <2>3, <2>4, <3>1, <3>2 DEF FocusInv, Progress
      <3>. QED
        BY <2>0, <2>3, <3>2, <3>3 DEF FocusInv, Progress, at
    <2>. QED
      BY <2>0, <2>1, <2>3, <2>5, <2>6, <2>7, SeedFrame
  <1>. QED
    BY <1>1, <1>2, <1>3

\* A seed goes one step further: the rest of its record and the other seeds stay.
LEMMA SeedMoves ==
    ASSUME FocusTyped, NEW s \in Seeds, NEW at \in Steps, Focus!GoTo(s, at)
    PROVE  /\ seed' \in [Seeds -> SeedRuns]
           /\ seed'[s].at = at /\ seed'[s].alone = seed[s].alone
           /\ seed'[s].followed = seed[s].followed
           /\ \A t \in Seeds \ {s} : seed'[t] = seed[t]
  BY DEF FocusTyped, Focus!GoTo, SeedRuns

\* The start of a seed, which takes the others their being alone.
LEMMA StartSeedPreserves ==
    ASSUME FocusInv, NEW s \in Seeds, Focus!Start(s) PROVE FocusInv'
  <1>. USE DEF Focus!Start, Focus!onelake, Focus!At
  <1>1. UNCHANGED <<file, notebook, pending, tables, notebookJob>> /\ seed[s].at = "none"
    OBVIOUS
  <1>2. ASSUME NEW t \in Seeds \ {s}
        PROVE  /\ seed'[t] \in SeedRuns
               /\ seed'[t].at = seed[t].at /\ ~seed'[t].alone
               /\ seed'[t].followed = seed[t].followed
    BY DEF FocusInv, FocusTyped, SeedRuns
  <1>3. /\ seed'[s] \in SeedRuns
        /\ seed'[s].at = "create"
        /\ seed'[s].alone => \A t \in Seeds \ {s} : AtRest(t)
    BY DEF Focus!Idle, Steps, SeedRuns, AtRest
  <1>4. FocusTyped'
    <2>1. seed' = [t \in Seeds |-> seed'[t]]
      OBVIOUS
    <2>2. \A t \in Seeds : seed'[t] \in SeedRuns
      BY <1>2, <1>3
    <2>3. seed' \in [Seeds -> SeedRuns]
      BY <2>1, <2>2
    <2>. QED
      BY <1>1, <2>3 DEF FocusInv, FocusTyped
  <1>5. \A t \in Seeds : WorkOf(t)'
    <2>1. WorkOf(s)'
      BY <1>1, <1>3 DEF FocusInv, WorkOf
    <2>2. ASSUME NEW t \in Seeds \ {s} PROVE WorkOf(t)'
      BY <1>1, <1>2 DEF FocusInv, WorkOf
    <2>. QED
      BY <2>1, <2>2
  <1>6. \A t \in Seeds \ {s} : ~Solo(t)'
    BY <1>2 DEF Solo
  <1>7. Progress(s)'
    BY <1>3 DEF Progress
  <1>8. Solo(s)' => \A t \in Seeds \ {s} : AtRest(t)'
    BY <1>1, <1>2, <1>3 DEF Solo, AtRest, Focus!Active, Focus!Working
  <1>. QED
    BY <1>4, <1>5, <1>6, <1>7, <1>8 DEF FocusInv

\* The upload, and the end of a script at any point of it.
LEMMA UploadPreserves ==
    ASSUME FocusInv, NEW s \in Seeds,
           \/ Focus!GiveUp(s) \/ Focus!CreateFile(s) \/ Focus!AppendFile(s) \/ Focus!FlushFile(s)
    PROVE  FocusInv'
  <1>. USE DEF Focus!GiveUp, Focus!CreateFile, Focus!AppendFile, Focus!FlushFile, Focus!At,
               Focus!onelake
  <1>1. UNCHANGED <<notebook, pending, tables, notebookJob>>
    OBVIOUS
  <1>2. Focus!Active(s)
    BY DEF Focus!Active
  <1>3. PICK at \in {"failed", "append", "flush", "list"} : Focus!GoTo(s, at)
    OBVIOUS
  <1>4. /\ seed' \in [Seeds -> SeedRuns]
        /\ seed'[s].at = at /\ seed'[s].alone = seed[s].alone
        /\ seed'[s].followed = seed[s].followed
        /\ \A t \in Seeds \ {s} : seed'[t] = seed[t]
    <2>1. at \in Steps
      BY DEF Steps
    <2>. QED
      BY <1>3, <2>1, SeedMoves DEF FocusInv
  <1>5. file' \in [data : Seeds \cup {0}, staged : Seeds \cup {0}]
    BY DEF FocusInv, FocusTyped
  <1>6. FocusTyped'
    BY <1>1, <1>4, <1>5 DEF FocusInv, FocusTyped
  <1>7. CASE Focus!GiveUp(s)
    <2>1. seed'[s].at = "failed"
      BY <1>7, SeedMoves DEF FocusInv, Steps
    <2>2. WorkOf(s)' /\ ~Solo(s)'
      BY <1>1, <2>1, <1>7 DEF FocusInv, WorkOf, Solo
    <2>. QED
      BY <1>1, <1>2, <1>4, <1>6, <2>2, SeedFrame
  <1>8. CASE Focus!CreateFile(s)
    <2>1. seed'[s].at = "append" /\ seed[s].at = "create"
      BY <1>8, SeedMoves DEF FocusInv, Steps
    <2>2. WorkOf(s)' /\ Progress(s)'
      BY <1>1, <2>1 DEF FocusInv, WorkOf, Progress
    <2>3. Solo(s)' => Solo(s)
      BY <1>4, <2>1 DEF Solo
    <2>. QED
      BY <1>1, <1>2, <1>4, <1>6, <2>2, <2>3, SeedFrame
  <1>9. CASE Focus!AppendFile(s)
    <2>1. seed'[s].at = "flush" /\ seed[s].at = "append"
      BY <1>9, SeedMoves DEF FocusInv, Steps
    <2>2. file'.staged = s
      BY <1>9 DEF FocusInv, FocusTyped
    <2>3. WorkOf(s)' /\ Progress(s)'
      BY <1>1, <2>1, <2>2 DEF FocusInv, WorkOf, Progress
    <2>4. Solo(s)' => Solo(s)
      BY <1>4, <2>1 DEF Solo
    <2>. QED
      BY <1>1, <1>2, <1>4, <1>6, <2>3, <2>4, SeedFrame
  <1>10. CASE Focus!FlushFile(s)
    <2>1. seed'[s].at = "list" /\ seed[s].at = "flush"
      BY <1>10, SeedMoves DEF FocusInv, Steps
    <2>2. file'.data = file.staged
      BY <1>10 DEF FocusInv, FocusTyped
    <2>3. WorkOf(s)'
      BY <1>1, <2>1 DEF FocusInv, WorkOf
    <2>4. Solo(s) => Progress(s)'
      BY <2>1, <2>2 DEF FocusInv, Progress
    <2>5. Solo(s)' => Solo(s)
      BY <1>4, <2>1 DEF Solo
    <2>. QED
      BY <1>1, <1>2, <1>4, <1>6, <2>3, <2>4, <2>5, SeedFrame
  <1>. QED
    BY <1>7, <1>8, <1>9, <1>10

\* From the listing to the start of the notebook.
LEMMA NotebookPreserves ==
    ASSUME FocusInv, NEW s \in Seeds,
           \/ Focus!ListNotebooks(s) \/ Focus!PutNotebook(s) \/ Focus!AwaitDefinition(s)
           \/ Focus!TriggerNotebook(s)
    PROVE  FocusInv'
  <1>. USE DEF Focus!At, Focus!onelake
  <1>0. file' = file /\ tables' = tables /\ Focus!Active(s)
    BY DEF Focus!ListNotebooks, Focus!PutNotebook, Focus!AwaitDefinition,
           Focus!TriggerNotebook, Focus!Active
  <1>1. CASE Focus!ListNotebooks(s)
    <2>1. UNCHANGED <<notebook, pending, notebookJob>> /\ seed[s].at = "list"
      BY <1>1 DEF Focus!ListNotebooks
    <2>2. /\ seed' \in [Seeds -> SeedRuns]
          /\ seed'[s].at = "put" /\ seed'[s].alone = seed[s].alone
          /\ seed'[s].followed = seed[s].followed
          /\ \A t \in Seeds \ {s} : seed'[t] = seed[t]
      BY <1>1 DEF Focus!ListNotebooks, FocusInv, FocusTyped, Steps, SeedRuns
    <2>3. FocusTyped' /\ WorkOf(s)'
      BY <1>0, <2>1, <2>2 DEF FocusInv, FocusTyped, WorkOf
    <2>4. Solo(s) => Progress(s)'
      BY <1>0, <2>1, <2>2 DEF FocusInv, Progress
    <2>5. Solo(s)' => Solo(s)
      BY <2>1, <2>2 DEF Solo
    <2>. QED
      BY <1>0, <2>1, <2>2, <2>3, <2>4, <2>5, SeedFrame
  <1>2. CASE Focus!PutNotebook(s)
    <2>1. /\ notebookJob' = notebookJob /\ seed[s].at = "put"
          /\ \/ notebook' = s /\ pending' = pending /\ Focus!GoTo(s, "trigger")
             \/ pending' = pending \cup {s} /\ notebook' = notebook /\ Focus!GoTo(s, "settle")
             \/ /\ pending' = pending \cup {s} /\ notebook' = notebook
                /\ seed' = [seed EXCEPT ![s].at = "trigger", ![s].followed = FALSE]
      BY <1>2 DEF Focus!PutNotebook
    <2>2. /\ seed' \in [Seeds -> SeedRuns]
          /\ \/ notebook' = s /\ pending' = pending /\ seed'[s].at = "trigger"
             \/ s \in pending' /\ seed'[s].at = "settle"
             \/ seed'[s].at = "trigger" /\ ~seed'[s].followed
          /\ seed'[s].alone = seed[s].alone
          /\ \A t \in Seeds \ {s} : seed'[t] = seed[t]
      <3>1. ASSUME NEW at \in {"trigger", "settle"}, Focus!GoTo(s, at)
            PROVE  /\ seed' \in [Seeds -> SeedRuns] /\ seed'[s].at = at
                   /\ seed'[s].alone = seed[s].alone
                   /\ \A t \in Seeds \ {s} : seed'[t] = seed[t]
        BY <3>1, SeedMoves DEF FocusInv, Steps
      <3>2. ASSUME seed' = [seed EXCEPT ![s].at = "trigger", ![s].followed = FALSE]
            PROVE  /\ seed' \in [Seeds -> SeedRuns] /\ seed'[s].at = "trigger"
                   /\ ~seed'[s].followed /\ seed'[s].alone = seed[s].alone
                   /\ \A t \in Seeds \ {s} : seed'[t] = seed[t]
        BY <3>2 DEF FocusInv, FocusTyped, SeedRuns, Steps
      <3>. QED
        BY <2>1, <3>1, <3>2
    <2>3. pending' \in SUBSET Seeds /\ notebook' \in Seeds \cup {0}
      BY <2>1 DEF FocusInv, FocusTyped
    <2>4. FocusTyped'
      BY <1>0, <2>1, <2>2, <2>3 DEF FocusInv, FocusTyped
    <2>5. WorkOf(s)'
      BY <1>0, <2>1, <2>2 DEF FocusInv, WorkOf
    <2>6. Solo(s) => Progress(s)'
      BY <1>0, <2>1, <2>2 DEF FocusInv, Progress
    <2>7. Solo(s)' => Solo(s)
      BY <2>1, <2>2 DEF Solo
    <2>8. \A t \in Seeds \ {s} : t \in pending' <=> t \in pending
      BY <2>1
    <2>. QED
      BY <1>0, <2>1, <2>2, <2>4, <2>5, <2>6, <2>7, <2>8, SeedFrame
  <1>3. CASE Focus!AwaitDefinition(s)
    <2>1. /\ UNCHANGED <<notebook, pending, notebookJob>> /\ seed[s].at = "settle"
          /\ s \notin pending /\ Focus!GoTo(s, "trigger")
      BY <1>3 DEF Focus!AwaitDefinition
    <2>2. /\ seed' \in [Seeds -> SeedRuns]
          /\ seed'[s].at = "trigger" /\ seed'[s].alone = seed[s].alone
          /\ seed'[s].followed = seed[s].followed
          /\ \A t \in Seeds \ {s} : seed'[t] = seed[t]
      BY <2>1, SeedMoves DEF FocusInv, Steps
    <2>3. FocusTyped' /\ WorkOf(s)'
      BY <1>0, <2>1, <2>2 DEF FocusInv, FocusTyped, WorkOf
    <2>4. Solo(s) => Progress(s)'
      BY <1>0, <2>1, <2>2 DEF FocusInv, Progress
    <2>5. Solo(s)' => Solo(s)
      BY <2>1, <2>2 DEF Solo
    <2>. QED
      BY <1>0, <2>1, <2>2, <2>3, <2>4, <2>5, SeedFrame
  <1>4. CASE Focus!TriggerNotebook(s)
    <2>. DEFINE j == [Focus!NoJob EXCEPT !.at = "queued", !.code = notebook, !.todo = Marts]
    <2>1. /\ UNCHANGED <<notebook, pending>> /\ seed[s].at = "trigger"
          /\ Focus!GoTo(s, "wait") /\ notebookJob' = [notebookJob EXCEPT ![s] = j]
      BY <1>4 DEF Focus!TriggerNotebook
    <2>2. /\ seed' \in [Seeds -> SeedRuns]
          /\ seed'[s].at = "wait" /\ seed'[s].alone = seed[s].alone
          /\ seed'[s].followed = seed[s].followed
          /\ \A t \in Seeds \ {s} : seed'[t] = seed[t]
      BY <2>1, SeedMoves DEF FocusInv, Steps
    <2>3. j \in NotebookRuns /\ j.at = "queued" /\ j.code = notebook /\ j.todo = Marts
      BY DEF FocusInv, FocusTyped, NotebookRuns, Focus!NoJob
    <2>. HIDE DEF j
    <2>4. /\ notebookJob' \in [Seeds -> NotebookRuns]
          /\ notebookJob'[s] = j
          /\ \A t \in Seeds \ {s} : notebookJob'[t] = notebookJob[t]
      BY <2>1, <2>3 DEF FocusInv, FocusTyped
    <2>5. FocusTyped' /\ WorkOf(s)'
      BY <1>0, <2>1, <2>2, <2>3, <2>4 DEF FocusInv, FocusTyped, WorkOf
    <2>6. Solo(s) => Progress(s)'
      BY <1>0, <2>1, <2>2, <2>3, <2>4 DEF FocusInv, Progress
    <2>7. Solo(s)' => Solo(s)
      BY <2>1, <2>2 DEF Solo
    <2>. QED
      BY <1>0, <2>1, <2>2, <2>4, <2>5, <2>6, <2>7, SeedFrame
  <1>. QED
    BY <1>1, <1>2, <1>3, <1>4

\* The end of the script: wait, reframe, look at the tables.
LEMMA EndPreserves ==
    ASSUME FocusInv, NEW s \in Seeds,
           Focus!AwaitNotebook(s) \/ Focus!RefreshModel(s) \/ Focus!Verify(s)
    PROVE  FocusInv'
  <1>. USE DEF Focus!AwaitNotebook, Focus!RefreshModel, Focus!Verify, Focus!At, Focus!onelake
  <1>1. UNCHANGED <<file, notebook, pending, tables, notebookJob>>
    OBVIOUS
  <1>2. Focus!Active(s)
    BY DEF Focus!Active
  <1>3. PICK at \in {"refresh", "verify", "done"} : Focus!GoTo(s, at)
    OBVIOUS
  <1>4. /\ seed' \in [Seeds -> SeedRuns]
        /\ seed'[s].at = at /\ seed'[s].alone = seed[s].alone
        /\ seed'[s].followed = seed[s].followed
        /\ \A t \in Seeds \ {s} : seed'[t] = seed[t]
    <2>1. at \in Steps
      BY DEF Steps
    <2>. QED
      BY <1>3, <2>1, SeedMoves DEF FocusInv
  <1>5. seed[s].at \in {"wait", "refresh", "verify"} /\ notebookJob[s].at = "completed"
    BY DEF FocusInv, WorkOf
  <1>6. FocusTyped' /\ WorkOf(s)'
    BY <1>1, <1>4, <1>5 DEF FocusInv, FocusTyped, WorkOf
  <1>7. Solo(s) => Progress(s)'
    BY <1>1, <1>4, <1>5 DEF FocusInv, Progress
  <1>8. Solo(s)' => Solo(s)
    BY <1>4, <1>5 DEF Solo
  <1>. QED
    BY <1>1, <1>2, <1>4, <1>6, <1>7, <1>8, SeedFrame

\* Every step of the seeds and of Fabric.
LEMMA FocusPreserved == ASSUME FocusInv, [Focus!Next]_(Focus!vars) PROVE FocusInv'
  <1>1. CASE UNCHANGED Focus!vars
    BY <1>1 DEF Focus!vars, FocusInv, FocusTyped, WorkOf, Solo, Progress, AtRest,
                Focus!Active, Focus!Working
  <1>. QED
    BY <1>1, FabricPreserves, StartSeedPreserves, UploadPreserves, NotebookPreserves,
       EndPreserves DEF Focus!Next

\* A seed that ends well alone left its own files in every mart.
LEMMA SeedsAreComplete == FocusInv => Focus!SeedsBuildTheirMarts
  <1>. SUFFICES ASSUME FocusInv, NEW s \in Seeds, seed[s].at = "done", seed[s].alone,
                       NEW m \in Marts
                PROVE  tables[m][2] = s /\ (seed[s].followed => tables[m][1] = s)
    BY DEF Focus!SeedsBuildTheirMarts
  <1>1. Progress(s) /\ notebookJob[s].at = "completed"
    BY DEF FocusInv, Solo, WorkOf
  <1>2. /\ tables[m] = <<notebookJob[s].code, s>>
        /\ seed[s].followed => notebookJob[s].code = s
    BY <1>1 DEF Progress
  <1>. QED
    BY <1>2

\* The values of the variables are those FocusTypeOK names.
LEMMA FocusTypes == FocusInv => Focus!FocusTypeOK
  BY DEF FocusInv, FocusTyped, NotebookRuns, SeedRuns, Focus!FocusTypeOK

-----------------------------------------------------------------------------
(* CloudRun: the Databricks and Fabric DAGs *)

\* What is counted per domain, and the records of runs and of their work in the cloud.
Tables == [Domains -> Nat]
WorkRecords ==
    [does : {"none", "seed", "silver", "job"}, gen : Nat, table : Domains, read : Nat,
     at : {"none", "refused", "seed", "read", "write", "done", "failed"}]
RunRecords ==
    [at : {"none", "bootstrap", "seed", "silver", "wait", "dbt", "build", "verify", "success",
           "failed"},
     gen : Nat, read : Tables, seen : Tables, mixed : BOOLEAN, late : BOOLEAN]

\* Types.
CloudTyped ==
    /\ vendor \in {"fabric", "databricks"} /\ seeds \in Nat
    /\ cloudLake \in [{"bronze", "silver", "gold"} -> Tables]
    /\ work \in [Runs -> WorkRecords] /\ run \in [Runs -> RunRecords]

\* The zones of the lake.
bronze == cloudLake["bronze"]
silver == cloudLake["silver"]
gold == cloudLake["gold"]

\* No table and no note is newer than the last seeding.
Bounded ==
    /\ \A d \in Domains : bronze[d] <= seeds /\ silver[d] <= seeds /\ gold[d] <= seeds
    /\ \A r \in Runs :
          /\ work[r].gen <= seeds /\ work[r].read <= seeds /\ run[r].gen <= seeds
          /\ \A d \in Domains : run[r].read[d] <= seeds /\ run[r].seen[d] <= seeds

\* Which work a run has in the cloud, by how far the run is.
Linked(r) ==
    /\ Cloud!Busy(r) => run[r].at \in {"wait", "failed"}
    /\ run[r].at \in {"none", "bootstrap", "seed"} => run[r].gen = 0
    /\ work[r].at = "seed" => work[r].does \in {"seed", "job"}
    /\ work[r].at \in {"read", "write"} => work[r].does \in {"silver", "job"}
    /\ work[r].at = "done" => work[r].does # "none"
    /\ vendor = "databricks" => work[r].does \in {"none", "job"}
    /\ vendor = "fabric" => work[r].does # "job"

\* On Databricks one job runs at a time, so that no table gets older.
OneJob ==
    vendor = "databricks" =>
        /\ \A p, q \in Runs : Cloud!Busy(p) /\ Cloud!Busy(q) => p = q
        /\ \A d \in Domains : silver[d] <= bronze[d]
        /\ \A p \in Runs :
              /\ work[p].at = "seed" /\ work[p].table > 1 => work[p].gen = seeds
              /\ work[p].at = "write" => work[p].read = bronze[work[p].table]

\* Nobody else wrote bronze or silver for this run, or only what is newer.
Unmixed(r) == vendor = "databricks" \/ ~run[r].mixed

\* What is at least as new as the run's own seeding, by how far the run is.
Fresh(r) ==
    /\ run[r].at = "wait" /\ work[r].at = "seed" =>
           /\ work[r].gen = run[r].gen
           /\ \A d \in Domains : d < work[r].table => bronze[d] >= run[r].gen
    /\ run[r].at = "wait" /\ work[r].at = "done" /\ work[r].does = "seed" =>
           \A d \in Domains : bronze[d] >= run[r].gen
    /\ run[r].at = "silver" => \A d \in Domains : bronze[d] >= run[r].gen
    /\ run[r].at = "wait" /\ work[r].at \in {"read", "write"} =>
           /\ \A d \in Domains : bronze[d] >= run[r].gen
           /\ \A d \in Domains : d < work[r].table => silver[d] >= run[r].gen
           /\ work[r].at = "write" => work[r].read >= run[r].gen
    /\ run[r].at = "wait" /\ work[r].at = "done" /\ work[r].does # "seed" =>
           \A d \in Domains : silver[d] >= run[r].gen
    /\ run[r].at = "dbt" => \A d \in Domains : silver[d] >= run[r].gen
    /\ run[r].at = "build" => \A d \in Domains : run[r].read[d] >= run[r].gen
    /\ run[r].at = "verify" /\ ~run[r].late => \A d \in Domains : gold[d] >= run[r].gen
    /\ run[r].at = "success" /\ ~run[r].late => \A d \in Domains : run[r].seen[d] >= run[r].gen

\* Inductive: what a run verifies is at least as new as its own seeding.
CloudInv ==
    /\ CloudTyped /\ Bounded /\ OneJob
    /\ \A r \in Runs : Linked(r) /\ (Unmixed(r) => Fresh(r))

-----------------------------------------------------------------------------
\* Before the first run.
LEMMA CloudInit == Cloud!CloudAssumption /\ Cloud!Init => CloudInv
  <1>. SUFFICES ASSUME Cloud!CloudAssumption, Cloud!Init PROVE CloudInv
    OBVIOUS
  <1>. USE DEF Cloud!Init, Cloud!Empty, Cloud!NoWork, Cloud!NoRun, bronze, silver, gold
  <1>1. 1 \in Domains
    BY DEF Cloud!CloudAssumption
  <1>2. CloudTyped
    BY <1>1 DEF CloudTyped, Tables, WorkRecords, RunRecords
  <1>3. Bounded /\ OneJob
    BY DEF Bounded, OneJob, Cloud!Busy
  <1>4. \A r \in Runs : Linked(r) /\ Fresh(r)
    BY DEF Linked, Fresh, Cloud!Busy
  <1>. QED
    BY <1>2, <1>3, <1>4 DEF CloudInv

\* One table of a zone is overwritten.
LEMMA PutTable ==
    ASSUME CloudTyped, NEW z \in {"bronze", "silver"}, NEW d \in Domains, NEW n \in Nat,
           cloudLake' = [cloudLake EXCEPT ![z][d] = n]
    PROVE  /\ cloudLake' \in [{"bronze", "silver", "gold"} -> Tables]
           /\ cloudLake'[z][d] = n
           /\ \A e \in Domains \ {d} : cloudLake'[z][e] = cloudLake[z][e]
           /\ \A y \in {"bronze", "silver", "gold"} \ {z} : cloudLake'[y] = cloudLake[y]
  <1>. DEFINE t == [cloudLake[z] EXCEPT ![d] = n]
  <1>1. cloudLake[z] \in [Domains -> Nat]
    BY DEF CloudTyped, Tables
  <1>2. t \in [Domains -> Nat] /\ t[d] = n /\ \A e \in Domains \ {d} : t[e] = cloudLake[z][e]
    BY <1>1
  <1>3. cloudLake' = [cloudLake EXCEPT ![z] = t]
    OBVIOUS
  <1>. HIDE DEF t
  <1>4. /\ cloudLake' \in [{"bronze", "silver", "gold"} -> Tables]
        /\ cloudLake'[z] = t
        /\ \A y \in {"bronze", "silver", "gold"} \ {z} : cloudLake'[y] = cloudLake[y]
    BY <1>2, <1>3 DEF CloudTyped, Tables
  <1>. QED
    BY <1>2, <1>4

\* The next table, or the end of a notebook.
LEMMA AfterTable ==
    ASSUME Cloud!CloudAssumption, NEW w \in WorkRecords,
           NEW first \in {"seed", "read"}, NEW then \in {"read", "done"}
    PROVE  /\ Cloud!After(w, first, then) \in WorkRecords
           /\ Cloud!After(w, first, then).does = w.does
           /\ Cloud!After(w, first, then).gen = w.gen
           /\ \/ /\ Cloud!After(w, first, then).at = first
                 /\ Cloud!After(w, first, then).table = w.table + 1
                 /\ Cloud!After(w, first, then).read = w.read
              \/ /\ Cloud!After(w, first, then).at = then
                 /\ Cloud!After(w, first, then).table = 1
                 /\ Cloud!After(w, first, then).read = 0
                 /\ \A d \in Domains : d <= w.table
  <1>1. 1 \in Domains /\ \A d \in Domains : d \in Nat \ {0} /\ 1..d \subseteq Domains
    BY DEF Cloud!CloudAssumption
  <1>2. w.table \in Domains /\ w.table \in Nat \ {0}
    BY <1>1 DEF WorkRecords
  <1>3. CASE w.table + 1 \in Domains
    <2>1. Cloud!After(w, first, then) = [w EXCEPT !.at = first, !.table = @ + 1]
      BY <1>3 DEF Cloud!After
    <2>. QED
      BY <1>3, <2>1 DEF WorkRecords
  <1>4. CASE w.table + 1 \notin Domains
    <2>1. Cloud!After(w, first, then) = [w EXCEPT !.at = then, !.table = 1, !.read = 0]
      BY <1>4 DEF Cloud!After
    <2>2. 1 \in Domains /\ \A d \in Domains : d <= w.table
      <3>1. ASSUME NEW d \in Domains, ~(d <= w.table) PROVE FALSE
        <4>1. w.table + 1 \in 1..d
          BY <1>1, <1>2, <3>1
        <4>. QED
          BY <1>1, <1>4, <4>1
      <3>. QED
        BY <1>1, <3>1
    <2>3. 1 \in Domains /\ 0 \in Nat /\ then \in {"read", "done"}
      BY <2>2
    <2>. DEFINE a == [w EXCEPT !.at = then, !.table = 1, !.read = 0]
    <2>4. a.does = w.does /\ a.gen = w.gen /\ a.at = then /\ a.table = 1 /\ a.read = 0
      BY DEF WorkRecords
    <2>5. a \in WorkRecords
      BY <2>3 DEF WorkRecords
    <2>. QED
      BY <2>1, <2>2, <2>4, <2>5
  <1>. QED
    BY <1>3, <1>4

\* What r's own step and the others' runs note.
LEMMA NotedRuns ==
    ASSUME CloudTyped, NEW p \in Runs, NEW own \in RunRecords, run' = Cloud!Noted(p, own)
    PROVE  /\ run' \in [Runs -> RunRecords]
           /\ run'[p] = own
           /\ \A q \in Runs \ {p} :
                 /\ run'[q].at = run[q].at /\ run'[q].gen = run[q].gen
                 /\ run'[q].read = run[q].read /\ run'[q].seen = run[q].seen
                 /\ run'[q].late = run[q].late
                 /\ run[q].mixed => run'[q].mixed
                 /\ run[q].at \in {"seed", "silver", "wait", "dbt"} => run'[q].mixed
  <1>. DEFINE note(q) == [run[q] EXCEPT
                !.mixed = run[q].mixed \/ run[q].at \in {"seed", "silver", "wait", "dbt"}]
  <1>1. ASSUME NEW q \in Runs
        PROVE  /\ note(q) \in RunRecords
               /\ note(q).at = run[q].at /\ note(q).gen = run[q].gen
               /\ note(q).read = run[q].read /\ note(q).seen = run[q].seen
               /\ note(q).late = run[q].late
               /\ note(q).mixed = (\/ run[q].mixed
                                   \/ run[q].at \in {"seed", "silver", "wait", "dbt"})
    <2>1. run[q] \in RunRecords
      BY DEF CloudTyped
    <2>2. (run[q].mixed \/ run[q].at \in {"seed", "silver", "wait", "dbt"}) \in BOOLEAN
      BY <2>1 DEF RunRecords
    <2>. DEFINE b == run[q].mixed \/ run[q].at \in {"seed", "silver", "wait", "dbt"}
    <2>. HIDE DEF b
    <2>3. /\ [run[q] EXCEPT !.mixed = b] \in RunRecords
          /\ [run[q] EXCEPT !.mixed = b].at = run[q].at
          /\ [run[q] EXCEPT !.mixed = b].gen = run[q].gen
          /\ [run[q] EXCEPT !.mixed = b].read = run[q].read
          /\ [run[q] EXCEPT !.mixed = b].seen = run[q].seen
          /\ [run[q] EXCEPT !.mixed = b].late = run[q].late
          /\ [run[q] EXCEPT !.mixed = b].mixed = b
      <3>1. b \in BOOLEAN
        BY <2>2 DEF b
      <3>. QED
        BY <2>1, <3>1 DEF RunRecords
    <2>. QED
      BY <2>3 DEF b
  <1>2. run' = [q \in Runs |-> IF q = p THEN own ELSE note(q)]
    BY DEF Cloud!Noted
  <1>. HIDE DEF note
  <1>3. run' \in [Runs -> RunRecords] /\ run'[p] = own /\ \A q \in Runs \ {p} : run'[q] = note(q)
    BY <1>1, <1>2
  <1>4. ASSUME NEW q \in Runs \ {p}
        PROVE  /\ run'[q].at = run[q].at /\ run'[q].gen = run[q].gen
               /\ run'[q].read = run[q].read /\ run'[q].seen = run[q].seen
               /\ run'[q].late = run[q].late
               /\ run[q].mixed => run'[q].mixed
               /\ run[q].at \in {"seed", "silver", "wait", "dbt"} => run'[q].mixed
    BY <1>1, <1>3
  <1>. QED
    BY <1>3, <1>4

\* A run that only watches stays as fresh as it was, when no table it still needs
\* gets older.
LEMMA FreshKept ==
    ASSUME CloudTyped, CloudTyped', NEW q \in Runs, Fresh(q),
           work'[q] = work[q], run'[q].at = run[q].at, run'[q].gen = run[q].gen,
           run'[q].read = run[q].read, run'[q].seen = run[q].seen,
           run[q].at \in {"silver", "wait", "dbt"} =>
               \A d \in Domains : bronze'[d] >= bronze[d] /\ silver'[d] >= silver[d],
           run[q].at = "verify" /\ ~run'[q].late => ~run[q].late /\ gold' = gold,
           run[q].at = "success" /\ ~run'[q].late => ~run[q].late
    PROVE  Fresh(q)'
  <1>1. run[q].gen \in Nat /\ \A d \in Domains :
           /\ bronze[d] \in Nat /\ silver[d] \in Nat /\ gold[d] \in Nat
           /\ bronze'[d] \in Nat /\ silver'[d] \in Nat
    BY DEF CloudTyped, Tables, RunRecords, bronze, silver, gold
  <1>. QED
    BY <1>1 DEF Fresh

\* When one run and its work change, the others only watch.
LEMMA CloudFrame ==
    ASSUME CloudInv, NEW p \in Runs, CloudTyped', Bounded', OneJob', Linked(p)',
           Unmixed(p)' => Fresh(p)', vendor' = vendor,
           \A q \in Runs \ {p} :
              /\ work'[q] = work[q] /\ run'[q].at = run[q].at /\ run'[q].gen = run[q].gen
              /\ run'[q].read = run[q].read /\ run'[q].seen = run[q].seen
              /\ run[q].mixed => run'[q].mixed
              /\ Unmixed(q)' /\ run[q].at \in {"silver", "wait", "dbt"} =>
                    \A d \in Domains : bronze'[d] >= bronze[d] /\ silver'[d] >= silver[d]
              /\ run[q].at = "verify" /\ ~run'[q].late => ~run[q].late /\ gold' = gold
              /\ run[q].at = "success" /\ ~run'[q].late => ~run[q].late
    PROVE  CloudInv'
  <1>1. ASSUME NEW q \in Runs \ {p} PROVE Linked(q)' /\ (Unmixed(q)' => Fresh(q)')
    <2>1. Linked(q)'
      BY DEF CloudInv, Linked, Cloud!Busy
    <2>2. ASSUME Unmixed(q)' PROVE Fresh(q)'
      <3>1. Unmixed(q)
        BY <2>2 DEF Unmixed
      <3>2. Fresh(q) /\ CloudTyped
        BY <3>1 DEF CloudInv
      <3>. QED
        BY <2>2, <3>2, FreshKept
    <2>. QED
      BY <2>1, <2>2
  <1>. QED
    BY <1>1 DEF CloudInv

\* What the types say of one run, its work and the tables.
LEMMA CloudNumbers ==
    ASSUME CloudTyped
    PROVE  /\ seeds \in Nat
           /\ \A d \in Domains : bronze[d] \in Nat /\ silver[d] \in Nat /\ gold[d] \in Nat
           /\ \A r \in Runs :
                 /\ work[r] \in WorkRecords /\ run[r] \in RunRecords
                 /\ work[r].gen \in Nat /\ work[r].read \in Nat /\ work[r].table \in Domains
                 /\ run[r].gen \in Nat
                 /\ \A d \in Domains : run[r].read[d] \in Nat /\ run[r].seen[d] \in Nat
  BY DEF CloudTyped, Tables, WorkRecords, RunRecords, bronze, silver, gold

\* The tables are numbered from 1 on.
LEMMA TableNumbers ==
    ASSUME Cloud!CloudAssumption
    PROVE  1 \in Domains /\ \A d \in Domains : d \in Nat /\ d >= 1
  BY DEF Cloud!CloudAssumption

\* A run's record without the tables: only where it is changes.
LEMMA RunMoves ==
    ASSUME CloudTyped, NEW r \in Runs,
           NEW at \in {"none", "bootstrap", "seed", "silver", "wait", "dbt", "build", "verify",
                       "success", "failed"},
           Cloud!Goto(r, at)
    PROVE  /\ run' \in [Runs -> RunRecords]
           /\ run'[r].at = at /\ run'[r].gen = run[r].gen
           /\ run'[r].read = run[r].read /\ run'[r].seen = run[r].seen
           /\ run'[r].mixed = run[r].mixed /\ run'[r].late = run[r].late
           /\ \A q \in Runs \ {r} : run'[q] = run[q]
  <1>1. run[r] \in RunRecords
    BY DEF CloudTyped
  <1>. DEFINE own == [run[r] EXCEPT !.at = at]
  <1>2. /\ own \in RunRecords
        /\ own.at = at /\ own.gen = run[r].gen /\ own.read = run[r].read
        /\ own.seen = run[r].seen /\ own.mixed = run[r].mixed /\ own.late = run[r].late
    BY <1>1 DEF RunRecords
  <1>3. run' = [run EXCEPT ![r] = own] /\ run \in [Runs -> RunRecords]
    BY DEF Cloud!Goto, CloudTyped
  <1>. HIDE DEF own
  <1>4. run' \in [Runs -> RunRecords] /\ run'[r] = own /\ \A q \in Runs \ {r} : run'[q] = run[q]
    BY <1>2, <1>3
  <1>. QED
    BY <1>2, <1>4

\* A table of bronze is seeded: with the newest number there is.
LEMMA SeedTablePreserves ==
    ASSUME Cloud!CloudAssumption, CloudInv, NEW r \in Runs, Cloud!SeedTable(r)
    PROVE  CloudInv'
  <1>. DEFINE d == work[r].table
              gen == IF d = 1 THEN seeds + 1 ELSE work[r].gen
              then == IF work[r].does = "job" THEN "read" ELSE "done"
              w == [work[r] EXCEPT !.gen = gen]
              own == [run[r] EXCEPT !.gen = gen]
  <1>1. /\ work[r].at = "seed" /\ vendor' = vendor
        /\ seeds' = IF d = 1 THEN seeds + 1 ELSE seeds
        /\ cloudLake' = [cloudLake EXCEPT !["bronze"][d] = gen]
        /\ work' = [work EXCEPT ![r] = Cloud!After(w, "seed", then)]
        /\ run' = Cloud!Noted(r, own)
    <2>1. w.does = work[r].does
      BY CloudNumbers DEF CloudInv, WorkRecords
    <2>. QED
      BY <2>1 DEF Cloud!SeedTable
  <1>2. d \in Domains /\ gen \in Nat /\ d \in Nat /\ d >= 1 /\ gen <= seeds' /\ seeds <= seeds'
        /\ seeds' \in Nat
    BY <1>1, CloudNumbers, TableNumbers DEF CloudInv, Bounded
  <1>3. /\ w \in WorkRecords /\ w.does = work[r].does /\ w.gen = gen /\ w.table = d
        /\ w.read = work[r].read
    BY <1>2, CloudNumbers DEF CloudInv, WorkRecords
  <1>4. /\ own \in RunRecords /\ own.at = run[r].at /\ own.gen = gen /\ own.read = run[r].read
        /\ own.seen = run[r].seen /\ own.mixed = run[r].mixed /\ own.late = run[r].late
    BY <1>2, CloudNumbers DEF CloudInv, RunRecords
  <1>5. then \in {"read", "done"} /\ (then = "read" <=> work[r].does = "job")
    OBVIOUS
  <1>. HIDE DEF w, own, then
  <1>6. /\ cloudLake' \in [{"bronze", "silver", "gold"} -> Tables]
        /\ bronze'[d] = gen /\ \A e \in Domains \ {d} : bronze'[e] = bronze[e]
        /\ silver' = silver /\ gold' = gold
    <2>1. CloudTyped
      BY DEF CloudInv
    <2>. HIDE DEF gen, d
    <2>2. /\ cloudLake' \in [{"bronze", "silver", "gold"} -> Tables]
          /\ cloudLake'["bronze"][d] = gen
          /\ \A e \in Domains \ {d} : cloudLake'["bronze"][e] = cloudLake["bronze"][e]
          /\ \A y \in {"bronze", "silver", "gold"} \ {"bronze"} : cloudLake'[y] = cloudLake[y]
      BY <1>1, <1>2, <2>1, PutTable
    <2>. QED
      BY <2>2 DEF bronze, silver, gold
  <1>7. /\ run' \in [Runs -> RunRecords] /\ run'[r] = own
        /\ \A q \in Runs \ {r} :
              /\ run'[q].at = run[q].at /\ run'[q].gen = run[q].gen
              /\ run'[q].read = run[q].read /\ run'[q].seen = run[q].seen
              /\ run'[q].late = run[q].late
              /\ run[q].mixed => run'[q].mixed
              /\ run[q].at \in {"seed", "silver", "wait", "dbt"} => run'[q].mixed
    <2>1. CloudTyped
      BY DEF CloudInv
    <2>. QED
      BY <1>1, <1>4, <2>1, NotedRuns
  <1>8. /\ work' \in [Runs -> WorkRecords]
        /\ work'[r].does = work[r].does /\ work'[r].gen = gen
        /\ \/ /\ work'[r].at = "seed" /\ work'[r].table = d + 1 /\ work'[r].read = work[r].read
           \/ /\ work'[r].at = then /\ work'[r].table = 1 /\ work'[r].read = 0
              /\ \A e \in Domains : e <= d
        /\ \A q \in Runs \ {r} : work'[q] = work[q]
    <2>. DEFINE a == Cloud!After(w, "seed", then)
    <2>1. /\ a \in WorkRecords /\ a.does = work[r].does /\ a.gen = gen
          /\ \/ a.at = "seed" /\ a.table = d + 1 /\ a.read = work[r].read
             \/ a.at = then /\ a.table = 1 /\ a.read = 0 /\ \A e \in Domains : e <= d
      BY <1>3, <1>5, AfterTable
    <2>2. work \in [Runs -> WorkRecords] /\ work' = [work EXCEPT ![r] = a]
      BY <1>1 DEF CloudInv, CloudTyped
    <2>. HIDE DEF a
    <2>3. /\ work' \in [Runs -> WorkRecords] /\ work'[r] = a
          /\ \A q \in Runs \ {r} : work'[q] = work[q]
      BY <2>1, <2>2
    <2>. QED
      BY <2>1, <2>3
  <1>9. CloudTyped'
    BY <1>1, <1>2, <1>6, <1>7, <1>8 DEF CloudInv, CloudTyped
  <1>10. Bounded'
    <2>1. \A e \in Domains : bronze'[e] <= seeds' /\ silver'[e] <= seeds' /\ gold'[e] <= seeds'
      <3>1. \A e \in Domains : bronze[e] <= seeds' /\ silver[e] <= seeds' /\ gold[e] <= seeds'
        BY <1>2, CloudNumbers DEF CloudInv, Bounded
      <3>. QED
        BY <1>2, <1>6, <3>1
    <2>2. ASSUME NEW q \in Runs
          PROVE  /\ work'[q].gen <= seeds' /\ work'[q].read <= seeds' /\ run'[q].gen <= seeds'
                 /\ \A e \in Domains : run'[q].read[e] <= seeds' /\ run'[q].seen[e] <= seeds'
      <3>1. /\ work[q].gen <= seeds' /\ work[q].read <= seeds' /\ run[q].gen <= seeds'
            /\ \A e \in Domains : run[q].read[e] <= seeds' /\ run[q].seen[e] <= seeds'
        BY <1>2, CloudNumbers DEF CloudInv, Bounded
      <3>2. work'[q].gen \in {work[q].gen, gen} /\ work'[q].read \in {work[q].read, 0}
        BY <1>8
      <3>3. /\ run'[q].gen \in {run[q].gen, gen}
            /\ run'[q].read = run[q].read /\ run'[q].seen = run[q].seen
        BY <1>4, <1>7
      <3>. QED
        BY <1>2, <3>1, <3>2, <3>3
    <2>. QED
      BY <2>1, <2>2 DEF Bounded
  <1>11. Linked(r)'
    BY <1>1, <1>4, <1>5, <1>7, <1>8 DEF CloudInv, Linked, Cloud!Busy
  <1>12. Cloud!Busy(r)
    BY <1>1 DEF Cloud!Busy
  <1>13. OneJob'
    <2>. SUFFICES ASSUME vendor = "databricks" PROVE OneJob'
      BY <1>1 DEF OneJob
    <2>1. /\ \A q \in Runs \ {r} : ~Cloud!Busy(q)
          /\ \A e \in Domains : silver[e] <= bronze[e]
          /\ d > 1 => gen = seeds
      BY <1>1, <1>2, <1>12 DEF CloudInv, OneJob
    <2>2. \A q \in Runs \ {r} : ~Cloud!Busy(q)'
      BY <1>8, <2>1 DEF Cloud!Busy
    <2>3. \A p, q \in Runs : Cloud!Busy(p)' /\ Cloud!Busy(q)' => p = q
      BY <2>2
    <2>4. gen = seeds'
      BY <1>1, <1>2, <2>1
    <2>5. \A e \in Domains : silver'[e] <= bronze'[e]
      BY <1>2, <1>6, <2>1, <2>4, CloudNumbers DEF CloudInv, Bounded
    <2>6. ASSUME NEW p \in Runs
          PROVE  /\ work'[p].at = "seed" /\ work'[p].table > 1 => work'[p].gen = seeds'
                 /\ work'[p].at # "write" \/ p # r
      BY <1>5, <1>8, <2>2, <2>4 DEF Cloud!Busy
    <2>7. \A p \in Runs : work'[p].at = "write" => p = r
      BY <2>2 DEF Cloud!Busy
    <2>. QED
      BY <2>3, <2>5, <2>6, <2>7 DEF OneJob
  <1>14. Unmixed(r)' => Fresh(r)'
    <2>. SUFFICES ASSUME Unmixed(r)' PROVE Fresh(r)'
      OBVIOUS
    <2>1. Fresh(r)
      BY <1>1, <1>4, <1>7 DEF CloudInv, Unmixed
    <2>2. run[r].at \in {"wait", "failed"}
      BY <1>12 DEF CloudInv, Linked
    <2>3. run[r].at = "failed" => Fresh(r)'
      BY <1>4, <1>7 DEF Fresh
    <2>4. ASSUME run[r].at = "wait" PROVE Fresh(r)'
      <3>1. \A e \in Domains : e < d => bronze'[e] >= gen
        <4>1. d # 1 => gen = run[r].gen /\ \A e \in Domains : e < d => bronze[e] >= gen
          BY <1>1, <2>1, <2>4 DEF Fresh
        <4>. QED
          BY <1>2, <1>6, <4>1, TableNumbers
      <3>2. \A e \in Domains : e < d + 1 => bronze'[e] >= gen
        BY <1>2, <1>6, <3>1, TableNumbers
      <3>3. run'[r].gen = gen /\ run'[r].at = "wait"
        BY <1>4, <1>7, <2>4
      <3>4. CASE work'[r].at = "seed" /\ work'[r].table = d + 1
        BY <1>8, <3>2, <3>3, <3>4 DEF Fresh
      <3>5. CASE work'[r].at = then /\ work'[r].table = 1 /\ \A e \in Domains : e <= d
        <4>1. \A e \in Domains : bronze'[e] >= gen
          BY <1>2, <3>2, <3>5, TableNumbers
        <4>2. work[r].does \in {"seed", "job"}
          BY <1>1 DEF CloudInv, Linked
        <4>3. \A e \in Domains : ~(e < 1)
          BY TableNumbers
        <4>. QED
          BY <1>5, <1>8, <3>3, <3>5, <4>1, <4>2, <4>3 DEF Fresh
      <3>. QED
        BY <1>8, <3>4, <3>5
    <2>. QED
      BY <2>2, <2>3, <2>4
  <1>15. ASSUME NEW q \in Runs \ {r}, Unmixed(q)', run[q].at \in {"silver", "wait", "dbt"},
                NEW e \in Domains
         PROVE  bronze'[e] >= bronze[e] /\ silver'[e] >= silver[e]
    <2>1. vendor = "databricks"
      BY <1>1, <1>7, <1>15 DEF Unmixed
    <2>2. gen >= seeds
      BY <1>1, <1>2, <2>1, CloudNumbers DEF CloudInv, OneJob
    <2>3. bronze[e] <= seeds /\ bronze[e] \in Nat /\ silver[e] \in Nat /\ seeds \in Nat
      BY CloudNumbers DEF CloudInv, Bounded
    <2>. QED
      BY <1>2, <1>6, <2>2, <2>3
  <1>. HIDE DEF gen, d
  <1>16. \A q \in Runs \ {r} :
              /\ work'[q] = work[q] /\ run'[q].at = run[q].at /\ run'[q].gen = run[q].gen
              /\ run'[q].read = run[q].read /\ run'[q].seen = run[q].seen
              /\ run[q].mixed => run'[q].mixed
              /\ Unmixed(q)' /\ run[q].at \in {"silver", "wait", "dbt"} =>
                    \A e \in Domains : bronze'[e] >= bronze[e] /\ silver'[e] >= silver[e]
              /\ run[q].at = "verify" /\ ~run'[q].late => ~run[q].late /\ gold' = gold
              /\ run[q].at = "success" /\ ~run'[q].late => ~run[q].late
    BY <1>6, <1>7, <1>8, <1>15
  <1>. QED
    BY <1>1, <1>9, <1>10, <1>11, <1>13, <1>14, <1>16, CloudFrame

\* A step that writes no table: only one run and its work change.
LEMMA QuietFrame ==
    ASSUME CloudInv, NEW r \in Runs, UNCHANGED <<vendor, cloudLake, seeds>>,
           work' \in [Runs -> WorkRecords], run' \in [Runs -> RunRecords],
           \A q \in Runs \ {r} : work'[q] = work[q] /\ run'[q] = run[q],
           work'[r].gen <= seeds, work'[r].read <= seeds, run'[r].gen <= seeds,
           \A d \in Domains : run'[r].read[d] <= seeds /\ run'[r].seen[d] <= seeds,
           OneJob', Linked(r)', Unmixed(r)' => Fresh(r)'
    PROVE  CloudInv'
  <1>1. bronze' = bronze /\ silver' = silver /\ gold' = gold
    BY DEF bronze, silver, gold
  <1>2. CloudTyped'
    BY DEF CloudInv, CloudTyped
  <1>3. Bounded'
    BY <1>1 DEF CloudInv, Bounded
  <1>4. ASSUME NEW d \in Domains PROVE bronze'[d] >= bronze[d] /\ silver'[d] >= silver[d]
    BY <1>1, CloudNumbers DEF CloudInv
  <1>. QED
    BY <1>1, <1>2, <1>3, <1>4, CloudFrame

\* No work starts, and none but r's changes: still one job at a time.
LEMMA OneJobKept ==
    ASSUME CloudInv, NEW r \in Runs, UNCHANGED <<vendor, cloudLake, seeds>>,
           \A q \in Runs \ {r} : work'[q] = work[q],
           Cloud!Busy(r)' => Cloud!Busy(r),
           work'[r].at = "seed" => work'[r] = work[r],
           work'[r].at = "write" => work'[r] = work[r] \/ work'[r].read = bronze[work'[r].table]
    PROVE  OneJob'
  <1>1. bronze' = bronze /\ silver' = silver
    BY DEF bronze, silver
  <1>2. \A q \in Runs : Cloud!Busy(q)' => Cloud!Busy(q)
    BY DEF Cloud!Busy
  <1>. QED
    BY <1>1, <1>2 DEF CloudInv, OneJob

\* Silver reads a table of bronze.
LEMMA ReadTablePreserves ==
    ASSUME CloudInv, NEW r \in Runs, Cloud!ReadTable(r) PROVE CloudInv'
  <1>. DEFINE d == work[r].table
              w == [work[r] EXCEPT !.read = bronze[d], !.at = "write"]
  <1>1. /\ work[r].at = "read" /\ UNCHANGED <<vendor, cloudLake, seeds, run>>
        /\ work' = [work EXCEPT ![r] = w]
    BY DEF Cloud!ReadTable, bronze
  <1>2. d \in Domains /\ bronze[d] \in Nat /\ bronze[d] <= seeds
    BY CloudNumbers DEF CloudInv, Bounded
  <1>3. /\ w \in WorkRecords /\ w.at = "write" /\ w.read = bronze[d] /\ w.table = d
        /\ w.gen = work[r].gen /\ w.does = work[r].does
    BY <1>2, CloudNumbers DEF CloudInv, WorkRecords
  <1>. HIDE DEF w
  <1>4. /\ work' \in [Runs -> WorkRecords] /\ work'[r] = w
        /\ \A q \in Runs \ {r} : work'[q] = work[q]
    BY <1>1, <1>3 DEF CloudInv, CloudTyped
  <1>5. OneJob'
    BY <1>1, <1>3, <1>4, OneJobKept DEF Cloud!Busy
  <1>6. Linked(r)'
    BY <1>1, <1>3, <1>4 DEF CloudInv, Linked, Cloud!Busy
  <1>7. bronze' = bronze /\ silver' = silver /\ gold' = gold
    BY <1>1 DEF bronze, silver, gold
  <1>8. Unmixed(r)' => Fresh(r)'
    <2>1. Unmixed(r)' => Fresh(r)
      BY <1>1 DEF CloudInv, Unmixed
    <2>2. Fresh(r) => Fresh(r)'
      BY <1>1, <1>2, <1>3, <1>4, <1>7 DEF Fresh
    <2>. QED
      BY <2>1, <2>2
  <1>9. /\ run' \in [Runs -> RunRecords] /\ \A q \in Runs \ {r} : run'[q] = run[q]
        /\ run'[r].gen <= seeds
        /\ \A e \in Domains : run'[r].read[e] <= seeds /\ run'[r].seen[e] <= seeds
        /\ work'[r].gen <= seeds /\ work'[r].read <= seeds
    BY <1>1, <1>2, <1>3, <1>4 DEF CloudInv, CloudTyped, Bounded
  <1>. QED
    BY <1>1, <1>4, <1>5, <1>6, <1>8, <1>9, QuietFrame

\* Silver overwrites a table with what it read.
LEMMA WriteTablePreserves ==
    ASSUME Cloud!CloudAssumption, CloudInv, NEW r \in Runs, Cloud!WriteTable(r)
    PROVE  CloudInv'
  <1>. DEFINE d == work[r].table
              n == work[r].read
              a == Cloud!After(work[r], "read", "done")
  <1>1. /\ work[r].at = "write" /\ vendor' = vendor /\ seeds' = seeds
        /\ cloudLake' = [cloudLake EXCEPT !["silver"][d] = n]
        /\ work' = [work EXCEPT ![r] = a]
        /\ run' = Cloud!Noted(r, run[r])
    BY DEF Cloud!WriteTable
  <1>2. d \in Domains /\ n \in Nat /\ n <= seeds /\ d \in Nat
    BY CloudNumbers, TableNumbers DEF CloudInv, Bounded
  <1>3. /\ a \in WorkRecords /\ a.does = work[r].does /\ a.gen = work[r].gen
        /\ \/ a.at = "read" /\ a.table = d + 1 /\ a.read = n
           \/ a.at = "done" /\ a.table = 1 /\ a.read = 0 /\ \A e \in Domains : e <= d
    BY CloudNumbers, AfterTable DEF CloudInv
  <1>. HIDE DEF a
  <1>4. /\ work' \in [Runs -> WorkRecords] /\ work'[r] = a
        /\ \A q \in Runs \ {r} : work'[q] = work[q]
    BY <1>1, <1>3 DEF CloudInv, CloudTyped
  <1>5. /\ cloudLake' \in [{"bronze", "silver", "gold"} -> Tables]
        /\ silver'[d] = n /\ \A e \in Domains \ {d} : silver'[e] = silver[e]
        /\ bronze' = bronze /\ gold' = gold
    <2>1. CloudTyped
      BY DEF CloudInv
    <2>. HIDE DEF n, d
    <2>2. /\ cloudLake' \in [{"bronze", "silver", "gold"} -> Tables]
          /\ cloudLake'["silver"][d] = n
          /\ \A e \in Domains \ {d} : cloudLake'["silver"][e] = cloudLake["silver"][e]
          /\ \A y \in {"bronze", "silver", "gold"} \ {"silver"} : cloudLake'[y] = cloudLake[y]
      BY <1>1, <1>2, <2>1, PutTable
    <2>. QED
      BY <2>2 DEF bronze, silver, gold
  <1>6. /\ run' \in [Runs -> RunRecords] /\ run'[r] = run[r]
        /\ \A q \in Runs \ {r} :
              /\ run'[q].at = run[q].at /\ run'[q].gen = run[q].gen
              /\ run'[q].read = run[q].read /\ run'[q].seen = run[q].seen
              /\ run'[q].late = run[q].late
              /\ run[q].mixed => run'[q].mixed
              /\ run[q].at \in {"seed", "silver", "wait", "dbt"} => run'[q].mixed
    <2>1. CloudTyped /\ run[r] \in RunRecords
      BY CloudNumbers DEF CloudInv
    <2>. QED
      BY <1>1, <2>1, NotedRuns
  <1>7. CloudTyped'
    BY <1>1, <1>4, <1>5, <1>6 DEF CloudInv, CloudTyped
  <1>8. Bounded'
    <2>1. \A e \in Domains : bronze'[e] <= seeds /\ silver'[e] <= seeds /\ gold'[e] <= seeds
      BY <1>2, <1>5 DEF CloudInv, Bounded
    <2>2. ASSUME NEW q \in Runs
          PROVE  /\ work'[q].gen <= seeds /\ work'[q].read <= seeds /\ run'[q].gen <= seeds
                 /\ \A e \in Domains : run'[q].read[e] <= seeds /\ run'[q].seen[e] <= seeds
      <3>1. /\ work[q].gen <= seeds /\ work[q].read <= seeds /\ run[q].gen <= seeds
            /\ \A e \in Domains : run[q].read[e] <= seeds /\ run[q].seen[e] <= seeds
        BY DEF CloudInv, Bounded
      <3>2. work'[q].gen = work[q].gen /\ work'[q].read \in {work[q].read, 0}
        BY <1>3, <1>4
      <3>3. run'[q].gen = run[q].gen /\ run'[q].read = run[q].read /\ run'[q].seen = run[q].seen
        BY <1>6
      <3>4. 0 <= seeds
        BY CloudNumbers DEF CloudInv
      <3>. QED
        BY <3>1, <3>2, <3>3, <3>4
    <2>. QED
      BY <1>1, <2>1, <2>2 DEF Bounded
  <1>9. Linked(r)'
    BY <1>1, <1>3, <1>4, <1>6 DEF CloudInv, Linked, Cloud!Busy
  <1>10. Cloud!Busy(r)
    BY <1>1 DEF Cloud!Busy
  <1>11. ASSUME vendor = "databricks"
         PROVE  n = bronze[d] /\ \A e \in Domains : silver[e] <= bronze[e]
    BY <1>1, <1>11 DEF CloudInv, OneJob
  <1>12. OneJob'
    <2>. SUFFICES ASSUME vendor = "databricks" PROVE OneJob'
      BY <1>1 DEF OneJob
    <2>1. \A q \in Runs \ {r} : ~Cloud!Busy(q)
      BY <1>10 DEF CloudInv, OneJob
    <2>2. \A q \in Runs \ {r} : ~Cloud!Busy(q)'
      BY <1>4, <2>1 DEF Cloud!Busy
    <2>3. \A e \in Domains : silver'[e] <= bronze'[e]
      BY <1>2, <1>5, <1>11, CloudNumbers DEF CloudInv
    <2>4. \A p \in Runs : work'[p].at \notin {"seed", "write"}
      BY <1>3, <1>4, <2>2 DEF Cloud!Busy
    <2>. QED
      BY <2>2, <2>3, <2>4 DEF OneJob
  <1>13. Unmixed(r)' => Fresh(r)'
    <2>. SUFFICES ASSUME Unmixed(r)' PROVE Fresh(r)'
      OBVIOUS
    <2>1. Fresh(r)
      BY <1>1, <1>6 DEF CloudInv, Unmixed
    <2>2. run[r].at \in {"wait", "failed"}
      BY <1>10 DEF CloudInv, Linked
    <2>3. run[r].at = "failed" => Fresh(r)'
      BY <1>6 DEF Fresh
    <2>4. ASSUME run[r].at = "wait" PROVE Fresh(r)'
      <3>1. /\ n >= run[r].gen /\ \A e \in Domains : bronze[e] >= run[r].gen
            /\ \A e \in Domains : e < d => silver[e] >= run[r].gen
        BY <1>1, <2>1, <2>4 DEF Fresh
      <3>2. \A e \in Domains : e < d + 1 => silver'[e] >= run[r].gen
        BY <1>2, <1>5, <3>1, TableNumbers
      <3>3. work[r].does # "seed"
        BY <1>1 DEF CloudInv, Linked
      <3>4. CASE a.at = "read" /\ a.table = d + 1
        BY <1>4, <1>5, <1>6, <2>4, <3>1, <3>2, <3>4 DEF Fresh
      <3>5. CASE a.at = "done" /\ \A e \in Domains : e <= d
        <4>1. \A e \in Domains : silver'[e] >= run[r].gen
          BY <1>2, <3>2, <3>5, TableNumbers
        <4>. QED
          BY <1>3, <1>4, <1>6, <2>4, <3>3, <3>5, <4>1 DEF Fresh
      <3>. QED
        BY <1>3, <3>4, <3>5
    <2>. QED
      BY <2>2, <2>3, <2>4
  <1>14. ASSUME NEW q \in Runs \ {r}, Unmixed(q)', run[q].at \in {"silver", "wait", "dbt"},
                NEW e \in Domains
         PROVE  bronze'[e] >= bronze[e] /\ silver'[e] >= silver[e]
    <2>1. vendor = "databricks"
      BY <1>1, <1>6, <1>14 DEF Unmixed
    <2>2. bronze[e] \in Nat /\ silver[e] \in Nat
      BY CloudNumbers DEF CloudInv
    <2>. QED
      BY <1>5, <1>11, <2>1, <2>2
  <1>15. \A q \in Runs \ {r} :
              /\ work'[q] = work[q] /\ run'[q].at = run[q].at /\ run'[q].gen = run[q].gen
              /\ run'[q].read = run[q].read /\ run'[q].seen = run[q].seen
              /\ run[q].mixed => run'[q].mixed
              /\ Unmixed(q)' /\ run[q].at \in {"silver", "wait", "dbt"} =>
                    \A e \in Domains : bronze'[e] >= bronze[e] /\ silver'[e] >= silver[e]
              /\ run[q].at = "verify" /\ ~run'[q].late => ~run[q].late /\ gold' = gold
              /\ run[q].at = "success" /\ ~run'[q].late => ~run[q].late
    BY <1>4, <1>5, <1>6, <1>14
  <1>. QED
    BY <1>1, <1>7, <1>8, <1>9, <1>12, <1>13, <1>15, CloudFrame

\* Work fails, and what it wrote stays.
LEMMA WorkFailsPreserves ==
    ASSUME Cloud!CloudAssumption, CloudInv, NEW r \in Runs, Cloud!WorkFails(r)
    PROVE  CloudInv'
  <1>. DEFINE w == [Cloud!NoWork EXCEPT !.at = "failed"]
  <1>1. /\ Cloud!Busy(r) /\ UNCHANGED <<vendor, cloudLake, seeds, run>>
        /\ work' = [work EXCEPT ![r] = w]
    BY DEF Cloud!WorkFails
  <1>2. /\ w \in WorkRecords /\ w.at = "failed" /\ w.read = 0 /\ w.gen = 0 /\ w.does = "none"
    BY TableNumbers DEF Cloud!NoWork, WorkRecords
  <1>. HIDE DEF w
  <1>3. /\ work' \in [Runs -> WorkRecords] /\ work'[r] = w
        /\ \A q \in Runs \ {r} : work'[q] = work[q]
    BY <1>1, <1>2 DEF CloudInv, CloudTyped
  <1>4. OneJob'
    BY <1>1, <1>2, <1>3, OneJobKept DEF Cloud!Busy
  <1>5. Linked(r)'
    BY <1>1, <1>2, <1>3 DEF CloudInv, Linked, Cloud!Busy
  <1>6. run[r].at \in {"wait", "failed"}
    BY <1>1 DEF CloudInv, Linked
  <1>7. Fresh(r)'
    BY <1>1, <1>2, <1>3, <1>6 DEF Fresh
  <1>8. /\ run' \in [Runs -> RunRecords] /\ \A q \in Runs \ {r} : run'[q] = run[q]
        /\ run'[r].gen <= seeds
        /\ \A e \in Domains : run'[r].read[e] <= seeds /\ run'[r].seen[e] <= seeds
        /\ work'[r].gen <= seeds /\ work'[r].read <= seeds
    BY <1>1, <1>2, <1>3, CloudNumbers DEF CloudInv, CloudTyped, Bounded
  <1>. QED
    BY <1>1, <1>3, <1>4, <1>5, <1>7, <1>8, QuietFrame

\* A run goes on and calls nobody.
LEMMA TaskPreserves ==
    ASSUME CloudInv, NEW r \in Runs,
           \/ Cloud!Trigger(r) \/ Cloud!Bootstrap(r) \/ Cloud!RunFails(r) \/ Cloud!Wait(r)
    PROVE  CloudInv'
  <1>1. UNCHANGED <<vendor, cloudLake, seeds, work>>
    BY DEF Cloud!Trigger, Cloud!Bootstrap, Cloud!RunFails, Cloud!Wait
  <1>2. PICK at \in {"bootstrap", "seed", "failed", "silver", "dbt"} :
           /\ Cloud!Goto(r, at)
           /\ at \in {"bootstrap", "seed"} => run[r].at \in {"none", "bootstrap"}
           /\ at \in {"silver", "dbt"} =>
                 /\ run[r].at = "wait" /\ work[r].at = "done"
                 /\ at = "silver" <=> work[r].does = "seed"
           /\ at # "failed" => ~Cloud!Busy(r)
    <2>1. CASE Cloud!Trigger(r) \/ Cloud!Bootstrap(r)
      BY <2>1 DEF Cloud!Trigger, Cloud!Bootstrap, CloudInv, Linked
    <2>2. CASE Cloud!RunFails(r)
      BY <2>2 DEF Cloud!RunFails
    <2>3. CASE Cloud!Wait(r)
      BY <2>3 DEF Cloud!Wait, Cloud!Busy
    <2>. QED
      BY <2>1, <2>2, <2>3
  <1>3. /\ run' \in [Runs -> RunRecords]
        /\ run'[r].at = at /\ run'[r].gen = run[r].gen
        /\ run'[r].read = run[r].read /\ run'[r].seen = run[r].seen
        /\ run'[r].mixed = run[r].mixed /\ run'[r].late = run[r].late
        /\ \A q \in Runs \ {r} : run'[q] = run[q]
    <2>1. CloudTyped
      BY DEF CloudInv
    <2>. QED
      BY <1>2, <2>1, RunMoves
  <1>4. OneJob'
    BY <1>1, OneJobKept DEF Cloud!Busy
  <1>5. Linked(r)'
    BY <1>1, <1>2, <1>3 DEF CloudInv, Linked, Cloud!Busy
  <1>6. bronze' = bronze /\ silver' = silver /\ gold' = gold
    BY <1>1 DEF bronze, silver, gold
  <1>7. Unmixed(r)' => Fresh(r)'
    <2>1. Unmixed(r)' => Fresh(r)
      BY <1>1, <1>3 DEF CloudInv, Unmixed
    <2>2. Fresh(r) => Fresh(r)'
      BY <1>1, <1>2, <1>3, <1>6 DEF Fresh
    <2>. QED
      BY <2>1, <2>2
  <1>8. /\ work' \in [Runs -> WorkRecords] /\ \A q \in Runs \ {r} : work'[q] = work[q]
        /\ run'[r].gen <= seeds
        /\ \A e \in Domains : run'[r].read[e] <= seeds /\ run'[r].seen[e] <= seeds
        /\ work'[r].gen <= seeds /\ work'[r].read <= seeds
    BY <1>1, <1>3 DEF CloudInv, CloudTyped, Bounded
  <1>. QED
    BY <1>1, <1>3, <1>4, <1>5, <1>7, <1>8, QuietFrame

\* A run starts work, which may be refused or go on without the run.
LEMMA StartWorkPreserves ==
    ASSUME Cloud!CloudAssumption, CloudInv, NEW r \in Runs, Cloud!Start(r)
    PROVE  CloudInv'
  <1>. DEFINE does == IF vendor = "databricks" THEN "job" ELSE run[r].at
  <1>1. PICK refused \in Cloud!Refused(does) :
           work' = [work EXCEPT ![r] =
                     [Cloud!NoWork EXCEPT !.does = does,
                      !.at = IF refused THEN "refused"
                             ELSE IF run[r].at = "seed" THEN "seed" ELSE "read"]]
    BY DEF Cloud!Start
  <1>2. PICK at \in {"wait", "failed"} : Cloud!Goto(r, at)
    BY DEF Cloud!Start
  <1>3. run[r].at \in {"seed", "silver"} /\ UNCHANGED <<vendor, cloudLake, seeds>>
    BY DEF Cloud!Start
  <1>4. does \in {"seed", "silver", "job"} /\ vendor \in {"fabric", "databricks"}
    BY <1>3 DEF CloudInv, CloudTyped
  <1>5. vendor = "databricks" /\ ~refused => \A q \in Runs : ~Cloud!Busy(q)
    <2>. SUFFICES ASSUME vendor = "databricks", ~refused, NEW q \in Runs, Cloud!Busy(q)
                  PROVE  FALSE
      OBVIOUS
    <2>1. Cloud!Working("job")
      <3>1. work[q].does = "job"
        BY <1>4 DEF CloudInv, Linked, Cloud!Busy
      <3>. QED
        BY <3>1 DEF Cloud!Working
    <2>. QED
      BY <1>1, <2>1 DEF Cloud!Refused
  <1>. DEFINE start == IF refused THEN "refused"
                       ELSE IF run[r].at = "seed" THEN "seed" ELSE "read"
              w == [Cloud!NoWork EXCEPT !.does = does, !.at = start]
  <1>6. start \in {"refused", "seed", "read"} /\ (start # "refused" => ~refused)
        /\ (start = "seed" => run[r].at = "seed") /\ (start = "read" => run[r].at = "silver")
    BY <1>3
  <1>. HIDE DEF start
  <1>7. /\ w \in WorkRecords /\ w.at = start /\ w.read = 0 /\ w.gen = 0 /\ w.does = does
        /\ w.table = 1
    BY <1>4, <1>6, TableNumbers DEF Cloud!NoWork, WorkRecords
  <1>8. work' = [work EXCEPT ![r] = w]
    BY <1>1 DEF start
  <1>. HIDE DEF w
  <1>9. /\ work' \in [Runs -> WorkRecords] /\ work'[r] = w
        /\ \A q \in Runs \ {r} : work'[q] = work[q]
    BY <1>7, <1>8 DEF CloudInv, CloudTyped
  <1>10. /\ run' \in [Runs -> RunRecords]
         /\ run'[r].at = at /\ run'[r].gen = run[r].gen
         /\ run'[r].read = run[r].read /\ run'[r].seen = run[r].seen
         /\ run'[r].mixed = run[r].mixed /\ run'[r].late = run[r].late
         /\ \A q \in Runs \ {r} : run'[q] = run[q]
    <2>1. CloudTyped
      BY DEF CloudInv
    <2>. QED
      BY <1>2, <2>1, RunMoves
  <1>11. bronze' = bronze /\ silver' = silver /\ gold' = gold
    BY <1>3 DEF bronze, silver, gold
  <1>12. OneJob'
    <2>. SUFFICES ASSUME vendor = "databricks" PROVE OneJob'
      BY <1>3 DEF OneJob
    <2>1. \A p, q \in Runs : Cloud!Busy(p)' /\ Cloud!Busy(q)' => p = q
      <3>1. CASE refused
        <4>1. ~Cloud!Busy(r)'
          BY <1>7, <1>9, <3>1 DEF Cloud!Busy, start
        <4>. QED
          BY <1>9, <4>1 DEF CloudInv, OneJob, Cloud!Busy
      <3>2. CASE ~refused
        BY <1>5, <1>9, <3>2 DEF Cloud!Busy
      <3>. QED
        BY <3>1, <3>2
    <2>2. \A d \in Domains : silver'[d] <= bronze'[d]
      BY <1>11 DEF CloudInv, OneJob
    <2>3. ASSUME NEW p \in Runs
          PROVE  /\ work'[p].at = "seed" /\ work'[p].table > 1 => work'[p].gen = seeds
                 /\ work'[p].at = "write" => work'[p].read = bronze[work'[p].table]
      BY <1>6, <1>7, <1>9 DEF CloudInv, OneJob
    <2>. QED
      BY <1>3, <1>11, <2>1, <2>2, <2>3 DEF OneJob
  <1>13. Linked(r)'
    <2>1. start = "seed" => does \in {"seed", "job"}
      BY <1>6
    <2>2. start = "read" => does \in {"silver", "job"}
      BY <1>6
    <2>3. vendor = "fabric" => does # "job"
      BY <1>3
    <2>. QED
      BY <1>2, <1>3, <1>6, <1>7, <1>9, <1>10, <2>1, <2>2, <2>3 DEF Linked, Cloud!Busy
  <1>14. Unmixed(r)' => Fresh(r)'
    <2>1. Unmixed(r)' => Fresh(r)
      BY <1>3, <1>10 DEF CloudInv, Unmixed
    <2>2. run[r].at = "seed" => run[r].gen = 0
      BY DEF CloudInv, Linked
    <2>3. \A d \in Domains : ~(d < 1)
      BY TableNumbers
    <2>4. Fresh(r) => Fresh(r)'
      BY <1>2, <1>6, <1>7, <1>9, <1>10, <1>11, <2>2, <2>3 DEF Fresh
    <2>. QED
      BY <2>1, <2>4
  <1>15. /\ run'[r].gen <= seeds
         /\ \A e \in Domains : run'[r].read[e] <= seeds /\ run'[r].seen[e] <= seeds
         /\ work'[r].gen <= seeds /\ work'[r].read <= seeds
    BY <1>7, <1>9, <1>10, CloudNumbers DEF CloudInv, Bounded
  <1>. QED
    BY <1>3, <1>9, <1>10, <1>12, <1>13, <1>14, <1>15, QuietFrame

\* dbt reads silver as it is.
LEMMA DbtReadsPreserves ==
    ASSUME CloudInv, NEW r \in Runs, Cloud!DbtReads(r) PROVE CloudInv'
  <1>. DEFINE own == [run[r] EXCEPT !.read = silver, !.at = "build"]
  <1>1. /\ run[r].at = "dbt" /\ UNCHANGED <<vendor, cloudLake, seeds, work>>
        /\ run' = [run EXCEPT ![r] = own]
    BY DEF Cloud!DbtReads, silver
  <1>2. silver \in Tables
    BY DEF CloudInv, CloudTyped, silver
  <1>3. /\ own \in RunRecords /\ own.at = "build" /\ own.read = silver /\ own.gen = run[r].gen
        /\ own.seen = run[r].seen /\ own.mixed = run[r].mixed /\ own.late = run[r].late
    BY <1>2, CloudNumbers DEF CloudInv, RunRecords
  <1>. HIDE DEF own
  <1>4. /\ run' \in [Runs -> RunRecords] /\ run'[r] = own
        /\ \A q \in Runs \ {r} : run'[q] = run[q]
    BY <1>1, <1>3 DEF CloudInv, CloudTyped
  <1>5. OneJob'
    BY <1>1, OneJobKept DEF Cloud!Busy
  <1>6. Linked(r)'
    BY <1>1, <1>3, <1>4 DEF CloudInv, Linked, Cloud!Busy
  <1>7. Unmixed(r)' => Fresh(r)'
    <2>1. Unmixed(r)' => Fresh(r)
      BY <1>1, <1>3, <1>4 DEF CloudInv, Unmixed
    <2>2. Fresh(r) => Fresh(r)'
      BY <1>1, <1>3, <1>4 DEF Fresh
    <2>. QED
      BY <2>1, <2>2
  <1>8. /\ work' \in [Runs -> WorkRecords] /\ \A q \in Runs \ {r} : work'[q] = work[q]
        /\ run'[r].gen <= seeds
        /\ \A e \in Domains : run'[r].read[e] <= seeds /\ run'[r].seen[e] <= seeds
        /\ work'[r].gen <= seeds /\ work'[r].read <= seeds
    BY <1>1, <1>3, <1>4 DEF CloudInv, CloudTyped, Bounded
  <1>. QED
    BY <1>1, <1>4, <1>5, <1>6, <1>7, <1>8, QuietFrame

\* dbt replaces the mart, under the eyes of runs that were about to look at theirs.
LEMMA DbtBuildsPreserves ==
    ASSUME CloudInv, NEW r \in Runs, Cloud!DbtBuilds(r) PROVE CloudInv'
  <1>. DEFINE own == [run[r] EXCEPT !.at = "verify"]
              marked(q) == [run[q] EXCEPT !.late = run[q].late \/ run[q].at = "verify"]
  <1>1. /\ run[r].at = "build" /\ UNCHANGED <<vendor, seeds, work>>
        /\ cloudLake' = [cloudLake EXCEPT !["gold"] = run[r].read]
        /\ run' = [q \in Runs |-> IF q = r THEN own ELSE marked(q)]
    BY DEF Cloud!DbtBuilds
  <1>2. run[r].read \in Tables /\ run[r] \in RunRecords
    BY CloudNumbers DEF CloudInv, RunRecords
  <1>3. /\ own \in RunRecords /\ own.at = "verify" /\ own.read = run[r].read
        /\ own.gen = run[r].gen /\ own.seen = run[r].seen /\ own.mixed = run[r].mixed
        /\ own.late = run[r].late
    BY <1>2 DEF RunRecords
  <1>4. ASSUME NEW q \in Runs
        PROVE  /\ marked(q) \in RunRecords /\ marked(q).at = run[q].at
               /\ marked(q).gen = run[q].gen /\ marked(q).read = run[q].read
               /\ marked(q).seen = run[q].seen /\ marked(q).mixed = run[q].mixed
               /\ run[q].late => marked(q).late
               /\ run[q].at = "verify" => marked(q).late
    <2>. DEFINE b == run[q].late \/ run[q].at = "verify"
    <2>1. run[q] \in RunRecords
      BY CloudNumbers DEF CloudInv
    <2>2. b \in BOOLEAN /\ (run[q].late => b) /\ (run[q].at = "verify" => b)
      BY <2>1 DEF RunRecords
    <2>3. marked(q) = [run[q] EXCEPT !.late = b]
      OBVIOUS
    <2>. HIDE DEF b, marked
    <2>4. /\ marked(q) \in RunRecords /\ marked(q).at = run[q].at
          /\ marked(q).gen = run[q].gen /\ marked(q).read = run[q].read
          /\ marked(q).seen = run[q].seen /\ marked(q).mixed = run[q].mixed
          /\ marked(q).late = b
      BY <2>1, <2>2, <2>3 DEF RunRecords
    <2>. QED
      BY <2>2, <2>4
  <1>. HIDE DEF own, marked
  <1>5. /\ run' \in [Runs -> RunRecords] /\ run'[r] = own
        /\ \A q \in Runs \ {r} : run'[q] = marked(q)
    BY <1>1, <1>3, <1>4
  <1>6. /\ cloudLake' \in [{"bronze", "silver", "gold"} -> Tables]
        /\ gold' = run[r].read /\ bronze' = bronze /\ silver' = silver
    BY <1>1, <1>2 DEF CloudInv, CloudTyped, bronze, silver, gold
  <1>7. CloudTyped'
    BY <1>1, <1>5, <1>6 DEF CloudInv, CloudTyped
  <1>8. \A q \in Runs : /\ run'[q].at = run[q].at \/ q = r
                        /\ run'[q].gen = run[q].gen /\ run'[q].read = run[q].read
                        /\ run'[q].seen = run[q].seen /\ run'[q].mixed = run[q].mixed
    BY <1>3, <1>4, <1>5
  <1>9. Bounded'
    BY <1>1, <1>6, <1>8 DEF CloudInv, Bounded
  <1>10. OneJob'
    BY <1>1, <1>6 DEF CloudInv, OneJob, Cloud!Busy
  <1>11. Linked(r)'
    BY <1>1, <1>3, <1>5 DEF CloudInv, Linked, Cloud!Busy
  <1>12. Unmixed(r)' => Fresh(r)'
    <2>1. Unmixed(r)' => Fresh(r)
      BY <1>1, <1>3, <1>5 DEF CloudInv, Unmixed
    <2>2. Fresh(r) => Fresh(r)'
      BY <1>1, <1>3, <1>5, <1>6 DEF Fresh
    <2>. QED
      BY <2>1, <2>2
  <1>13. ASSUME NEW d \in Domains PROVE bronze'[d] >= bronze[d] /\ silver'[d] >= silver[d]
    BY <1>6, CloudNumbers DEF CloudInv
  <1>14. \A q \in Runs \ {r} :
              /\ work'[q] = work[q] /\ run'[q].at = run[q].at /\ run'[q].gen = run[q].gen
              /\ run'[q].read = run[q].read /\ run'[q].seen = run[q].seen
              /\ run[q].mixed => run'[q].mixed
              /\ Unmixed(q)' /\ run[q].at \in {"silver", "wait", "dbt"} =>
                    \A e \in Domains : bronze'[e] >= bronze[e] /\ silver'[e] >= silver[e]
              /\ run[q].at = "verify" /\ ~run'[q].late => ~run[q].late /\ gold' = gold
              /\ run[q].at = "success" /\ ~run'[q].late => ~run[q].late
    BY <1>1, <1>4, <1>5, <1>13
  <1>. QED
    BY <1>1, <1>7, <1>9, <1>10, <1>11, <1>12, <1>14, CloudFrame

\* The last task looks at the mart.
LEMMA VerifyPreserves ==
    ASSUME CloudInv, NEW r \in Runs, Cloud!Verify(r) PROVE CloudInv'
  <1>. DEFINE own == [run[r] EXCEPT !.at = "success", !.seen = gold]
  <1>1. /\ run[r].at = "verify" /\ UNCHANGED <<vendor, cloudLake, seeds, work>>
        /\ run' = [run EXCEPT ![r] = own]
    BY DEF Cloud!Verify, gold
  <1>2. gold \in Tables
    BY DEF CloudInv, CloudTyped, gold
  <1>3. /\ own \in RunRecords /\ own.at = "success" /\ own.read = run[r].read
        /\ own.gen = run[r].gen /\ own.seen = gold /\ own.mixed = run[r].mixed
        /\ own.late = run[r].late
    BY <1>2, CloudNumbers DEF CloudInv, RunRecords
  <1>. HIDE DEF own
  <1>4. /\ run' \in [Runs -> RunRecords] /\ run'[r] = own
        /\ \A q \in Runs \ {r} : run'[q] = run[q]
    BY <1>1, <1>3 DEF CloudInv, CloudTyped
  <1>5. OneJob'
    BY <1>1, OneJobKept DEF Cloud!Busy
  <1>6. Linked(r)'
    BY <1>1, <1>3, <1>4 DEF CloudInv, Linked, Cloud!Busy
  <1>7. Unmixed(r)' => Fresh(r)'
    <2>1. Unmixed(r)' => Fresh(r)
      BY <1>1, <1>3, <1>4 DEF CloudInv, Unmixed
    <2>2. Fresh(r) => Fresh(r)'
      BY <1>1, <1>3, <1>4 DEF Fresh
    <2>. QED
      BY <2>1, <2>2
  <1>8. /\ work' \in [Runs -> WorkRecords] /\ \A q \in Runs \ {r} : work'[q] = work[q]
        /\ run'[r].gen <= seeds
        /\ \A e \in Domains : run'[r].read[e] <= seeds /\ run'[r].seen[e] <= seeds
        /\ work'[r].gen <= seeds /\ work'[r].read <= seeds
    BY <1>1, <1>3, <1>4 DEF CloudInv, CloudTyped, Bounded
  <1>. QED
    BY <1>1, <1>4, <1>5, <1>6, <1>7, <1>8, QuietFrame

\* Every step of the cloud and of the runs.
LEMMA CloudPreserved ==
    ASSUME Cloud!CloudAssumption, CloudInv, [Cloud!Next]_(Cloud!vars) PROVE CloudInv'
  <1>1. CASE UNCHANGED Cloud!vars
    BY <1>1 DEF Cloud!vars, CloudInv, CloudTyped, Bounded, OneJob, Linked, Unmixed, Fresh,
                bronze, silver, gold, Cloud!Busy
  <1>. QED
    BY <1>1, SeedTablePreserves, ReadTablePreserves, WriteTablePreserves, WorkFailsPreserves,
       TaskPreserves, StartWorkPreserves, DbtReadsPreserves, DbtBuildsPreserves,
       VerifyPreserves DEF Cloud!Next

\* A run that ended well saw what is at least as new as its own seeding.
LEMMA RunsAreFresh == CloudInv => Cloud!CloudRunsBuild
  BY DEF CloudInv, Unmixed, Fresh, Cloud!CloudRunsBuild

\* The values of the variables are those CloudTypeOK names.
LEMMA CloudTypes == CloudInv => Cloud!CloudTypeOK
  <1>. SUFFICES ASSUME CloudInv PROVE Cloud!CloudTypeOK
    OBVIOUS
  <1>1. CloudTyped /\ Bounded /\ seeds \in Nat
    BY DEF CloudInv, CloudTyped
  <1>2. cloudLake \in [{"bronze", "silver", "gold"} -> [Domains -> 0..seeds]]
    <2>1. ASSUME NEW z \in {"bronze", "silver", "gold"}
          PROVE  cloudLake[z] \in [Domains -> 0..seeds]
      BY <1>1 DEF CloudTyped, Bounded, Tables, bronze, silver, gold
    <2>. QED
      BY <1>1, <2>1 DEF CloudTyped
  <1>3. \A r \in Runs : work[r] \in [
            does : {"none", "seed", "silver", "job"}, gen : 0..seeds,
            table : Domains, read : 0..seeds,
            at : {"none", "refused", "seed", "read", "write", "done", "failed"}]
    BY <1>1 DEF CloudTyped, Bounded, WorkRecords
  <1>4. ASSUME NEW r \in Runs
        PROVE  run[r].read \in [Domains -> 0..seeds] /\ run[r].seen \in [Domains -> 0..seeds]
    <2>1. run[r].read \in [Domains -> Nat] /\ run[r].seen \in [Domains -> Nat]
      BY <1>1 DEF CloudTyped, RunRecords, Tables
    <2>2. \A d \in Domains : run[r].read[d] \in 0..seeds /\ run[r].seen[d] \in 0..seeds
      BY <1>1, <2>1 DEF Bounded
    <2>. QED
      BY <2>1, <2>2
  <1>5. \A r \in Runs : run[r] \in [
            at : {"none", "bootstrap", "seed", "silver", "wait", "dbt", "build", "verify",
                  "success", "failed"},
            gen : 0..seeds, read : [Domains -> 0..seeds], seen : [Domains -> 0..seeds],
            mixed : BOOLEAN, late : BOOLEAN]
    BY <1>1, <1>4 DEF CloudTyped, Bounded, RunRecords
  <1>6. work = [r \in Runs |-> work[r]] /\ run = [r \in Runs |-> run[r]]
    BY <1>1 DEF CloudTyped
  <1>. QED
    BY <1>1, <1>2, <1>3, <1>5, <1>6 DEF CloudTyped, Cloud!CloudTypeOK

\* The notebooks' tables are overwritten one by one, runs overlap, answers get
\* lost and work is left behind (uc11_fabric.py:129, uc11_databricks.py:118): a
\* run that ends well still saw a mart of its own seeding or a later one, unless
\* another run's work or dbt came in between.  And a seed of UC-12 that ends well
\* beside no other built every mart out of its own files (fabric-seed-uc12.py).
THEOREM RunsBuildWhatTheyVerify == Spec => []CloudRunsBuild
  <1>. DEFINE Inv == (part = "cloud" => CloudInv) /\ (part = "focus" => FocusInv)
  <1>1. Init => Inv
    BY CloudStart, CloudInit, FocusInit, ServicesAssumption
  <1>2. Inv /\ [Next]_vars => Inv'
    BY CloudStep, CloudPreserved, FocusPreserved, ServicesAssumption
  <1>3. Inv => CloudRunsBuild
    BY RunsAreFresh, SeedsAreComplete DEF CloudRunsBuild
  <1>. QED
    BY <1>1, <1>2, <1>3, PTL DEF Spec

-----------------------------------------------------------------------------
(* CloudDeploy: what an upload leaves behind *)

\* The two items of a script, in its order, and what of them may be left to put.
First == IF kind = "powerbi" THEN "model" ELSE "seed"
Second == IF kind = "powerbi" THEN "report" ELSE "silver"
Todos == {t \in Seq({First, Second}) : /\ Len(t) <= 2
                                       /\ Len(t) = 2 => t[1] = First
                                       /\ Len(t) > 0 => t[Len(t)] = Second}

\* The steps of an upload, by the kind of script, and what it remembers.
UploadSteps ==
    {"none", "put", "done", "failed"} \cup
    (IF kind = "databricks" THEN {"relist", "delete", "find", "job"}
     ELSE IF kind = "powerbi" THEN {"list", "wait"} ELSE {"list", "wait", "delete"})

UploadRuns == {r \in [at : UploadSteps, todo : Todos, known : SUBSET Deploy!Artefacts,
                      job : 0..Len(jobs), alone : BOOLEAN] :
                  r.at = "wait" => r.todo # <<>>}

\* Types.
DeployTyped ==
    /\ kind \in Deploy!Kinds /\ items \in [Deploy!Artefacts -> Uploads \cup {0, -1}]
    /\ jobs \in Seq(Uploads) /\ variable \in 0..Len(jobs)
    /\ ops \subseteq Uploads \X Deploy!Artefacts
    /\ up \in [Uploads -> UploadRuns]
    /\ blind \in BOOLEAN

\* A second job takes a search that failed, or two uploads side by side.
JobsFit ==
    /\ kind # "databricks" => jobs = <<>>
    /\ ~blind => Len(jobs) <= 1

\* An upload beside which no other has run so far.
Undisturbed(u) == up[u].alone /\ up[u].at \notin {"none", "failed"}

\* Nothing of upload u goes on.
Resting(u) == ~Deploy!Active(u) /\ \A n \in Deploy!Artefacts : <<u, n>> \notin ops

\* What it has put is its own, and what it will remove is known to it.
Uploaded(u) ==
    /\ up[u].at = "list" /\ kind = "fabric" => up[u].todo # <<>>
    /\ up[u].at \in {"relist", "delete", "find", "job", "done"} => up[u].todo = <<>>
    /\ Len(up[u].todo) < 2 => items[First] = u
    /\ up[u].todo = <<>> => items[Second] = u
    /\ up[u].at # "wait" => ops = {}
    /\ up[u].at = "wait" => /\ ops \subseteq {<<u, Head(up[u].todo)>>}
                            /\ ops = {} => items[Head(up[u].todo)] = u
    /\ up[u].at = "delete" \/ (kind = "fabric" /\ up[u].at \in {"put", "wait"}) =>
           \A n \in Deploy!Deprecated : items[n] # 0 => n \in up[u].known
    /\ up[u].at \in {"find", "job", "done"} => \A n \in Deploy!Deprecated : items[n] = 0
    /\ up[u].at = "done" /\ kind = "databricks" /\ ~blind => Len(jobs) = 1 /\ jobs[1] = u

\* Inductive: an upload that is alone has put what its step says.
DeployInv ==
    /\ DeployTyped /\ JobsFit
    /\ \A u \in Uploads : Undisturbed(u) =>
           Uploaded(u) /\ \A v \in Uploads \ {u} : Resting(v)

\* The two items of a script, and what it removes.
LEMMA ItemsOfScript ==
    kind \in Deploy!Kinds =>
        /\ Deploy!Actives = <<First, Second>> /\ First # Second
        /\ First \in Deploy!Artefacts /\ Second \in Deploy!Artefacts
        /\ Deploy!Deprecated \subseteq Deploy!Artefacts \ {First, Second}
        /\ kind = "powerbi" => Deploy!Deprecated = {}
  BY DEF Deploy!Actives, Deploy!Artefacts, Deploy!Deprecated, Deploy!Kinds, First, Second

\* A script has one or two items left.
LEMMA OneOrTwo == \A n \in Nat : n # 0 /\ n <= 2 => n = 1 \/ n = 2
  OBVIOUS

\* What is still to put: the two items, the second, or none.
LEMMA WholeOrNothing ==
    /\ <<First, Second>> \in Todos /\ Len(<<First, Second>>) = 2
    /\ <<>> \in Todos
    /\ \A t \in Todos : Len(t) = 0 <=> t = <<>>
  <1>1. <<>> \in Todos
    BY EmptySeq DEF Todos
  <1>2. <<First, Second>> \in Todos
    BY DEF Todos
  <1>3. \A t \in Todos : Len(t) = 0 <=> t = <<>>
    BY EmptySeq DEF Todos
  <1>. QED
    BY <1>1, <1>2, <1>3

\* They are put in their order.
LEMMA NextItem ==
    ASSUME NEW t \in Todos, t # <<>>
    PROVE  /\ Head(t) = IF Len(t) = 2 THEN First ELSE Second
           /\ Tail(t) \in Todos /\ Len(Tail(t)) = Len(t) - 1
           /\ Len(t) = 1 \/ Len(t) = 2
           /\ Tail(t) = <<>> <=> Len(t) = 1
  <1>. DEFINE S == {First, Second}
  <1>1. t \in Seq(S) /\ Len(t) <= 2
    BY DEF Todos
  <1>2. Len(t) = 2 => t[1] = First
    BY DEF Todos
  <1>3. Len(t) > 0 => t[Len(t)] = Second
    BY DEF Todos
  <1>4. ASSUME NEW s \in Seq(S), Len(s) = 1, s[1] = Second PROVE s \in Todos /\ s # <<>>
    BY <1>4 DEF Todos
  <1>. HIDE DEF S
  <1>5. Len(t) = 1 \/ Len(t) = 2
    <2>1. Len(t) \in Nat \ {0}
      BY <1>1, EmptySeq
    <2>. QED
      BY <1>1, <2>1, OneOrTwo
  <1>6. Head(t) = t[1]
    BY <1>1
  <1>7. /\ Tail(t) \in Seq(S) /\ Len(Tail(t)) = Len(t) - 1
        /\ \A i \in 1..Len(Tail(t)) : Tail(t)[i] = t[i + 1]
    BY <1>1, HeadTailProperties
  <1>8. CASE Len(t) = 1
    <2>1. Len(Tail(t)) = 0
      BY <1>7, <1>8
    <2>2. Tail(t) = <<>>
      BY <1>7, <2>1, EmptySeq
    <2>3. t[1] = Second
      BY <1>3, <1>8
    <2>4. Tail(t) \in Todos
      BY <2>2, WholeOrNothing
    <2>5. Head(t) = IF Len(t) = 2 THEN First ELSE Second
      BY <1>6, <1>8, <2>3
    <2>. QED
      BY <1>7, <1>8, <2>2, <2>4, <2>5
  <1>9. CASE Len(t) = 2
    <2>1. Len(Tail(t)) = 1
      BY <1>7, <1>9
    <2>2. Tail(t)[1] = Second
      <3>1. Tail(t)[1] = t[2]
        BY <1>7, <2>1
      <3>2. t[2] = Second
        BY <1>3, <1>9
      <3>. QED
        BY <3>1, <3>2
    <2>3. Tail(t) \in Todos /\ Tail(t) # <<>>
      BY <1>4, <1>7, <2>1, <2>2
    <2>. QED
      BY <1>2, <1>6, <1>7, <1>9, <2>3
  <1>. QED
    BY <1>5, <1>8, <1>9

\* A workspace before the first upload.
LEMMA DeployInit == Deploy!Init => DeployInv
  <1>. SUFFICES ASSUME Deploy!Init PROVE DeployInv
    OBVIOUS
  <1>1. /\ kind \in Deploy!Kinds /\ jobs = <<>> /\ variable = 0 /\ ops = {} /\ blind = FALSE
        /\ up = [u \in Uploads |-> Deploy!Idle]
        /\ \E there \in SUBSET (Deploy!Deprecated \cup {Deploy!Actives[1]}) :
              items = [n \in Deploy!Artefacts |-> IF n \in there THEN -1 ELSE 0]
    BY DEF Deploy!Init
  <1>2. Deploy!Idle \in UploadRuns /\ Deploy!Idle.at = "none"
    BY <1>1, WholeOrNothing DEF Deploy!Idle, UploadRuns, UploadSteps
  <1>3. items \in [Deploy!Artefacts -> Uploads \cup {0, -1}]
    BY <1>1
  <1>4. DeployTyped
    <2>1. jobs \in Seq(Uploads) /\ variable \in 0..Len(jobs)
      BY <1>1, EmptySeq
    <2>2. up \in [Uploads -> UploadRuns]
      BY <1>1, <1>2
    <2>. QED
      BY <1>1, <1>3, <2>1, <2>2 DEF DeployTyped
  <1>5. JobsFit /\ \A u \in Uploads : ~Undisturbed(u)
    BY <1>1, <1>2 DEF JobsFit, Undisturbed
  <1>. QED
    BY <1>4, <1>5 DEF DeployInv

\* Only an upload beside which no other runs has something to lose: while another
\* works, or Fabric for it, there is none.
LEMMA DeployFrame ==
    ASSUME DeployInv, NEW u \in Uploads, ~Resting(u), kind' = kind,
           \A v \in Uploads \ {u} : up'[v] = up[v],
           \A v \in Uploads \ {u}, n \in Deploy!Artefacts : <<v, n>> \in ops' => <<v, n>> \in ops,
           DeployTyped', JobsFit',
           Undisturbed(u)' => Undisturbed(u),
           Undisturbed(u) /\ Undisturbed(u)' => Uploaded(u)'
    PROVE  DeployInv'
  <1>1. \A v \in Uploads \ {u} : ~Undisturbed(v)'
    BY DEF DeployInv, Undisturbed
  <1>2. ASSUME Undisturbed(u)', NEW v \in Uploads \ {u} PROVE Resting(v)'
    BY <1>2 DEF DeployInv, Resting, Deploy!Active
  <1>. QED
    BY <1>1, <1>2 DEF DeployInv

\* What a script uploads does not change under way, nor what its runs are.
LEMMA SameScript ==
    ASSUME DeployTyped, kind' = kind, jobs' \in Seq(Uploads), Len(jobs') >= Len(jobs)
    PROVE  /\ First' = First /\ Second' = Second
           /\ Deploy!Deprecated' = Deploy!Deprecated /\ Todos' = Todos
           /\ UploadSteps' = UploadSteps /\ UploadRuns \subseteq UploadRuns'
  <1>1. /\ First' = First /\ Second' = Second /\ UploadSteps' = UploadSteps
        /\ Deploy!Deprecated' = Deploy!Deprecated
    BY DEF UploadSteps, First, Second, Deploy!Deprecated
  <1>2. Todos' = Todos
    BY <1>1 DEF Todos
  <1>3. 0..Len(jobs) \subseteq 0..Len(jobs')
    BY DEF DeployTyped
  <1>4. UploadRuns \subseteq UploadRuns'
    BY <1>1, <1>2, <1>3 DEF UploadRuns, Deploy!Artefacts
  <1>. QED
    BY <1>1, <1>2, <1>4

\* A running upload goes on.
LEMMA RunStep ==
    ASSUME DeployInv, NEW u \in Uploads, Deploy!Active(u), NEW j, j \in UploadRuns',
           kind' = kind, up' = [up EXCEPT ![u] = j], variable' = variable,
           items' \in [Deploy!Artefacts -> Uploads \cup {0, -1}],
           jobs' \in Seq(Uploads), Len(jobs') >= Len(jobs),
           ops' \subseteq ops \cup ({u} \X Deploy!Artefacts),
           blind' \in BOOLEAN, JobsFit', j.alone = up[u].alone,
           Undisturbed(u) /\ j.at # "failed" /\ up'[u] = j => Uploaded(u)'
    PROVE  DeployInv'
  <1>1. UploadRuns \subseteq UploadRuns'
    BY SameScript DEF DeployInv
  <1>2. up \in [Uploads -> UploadRuns']
    BY <1>1 DEF DeployInv, DeployTyped
  <1>3. /\ up' \in [Uploads -> UploadRuns'] /\ up'[u] = j
        /\ \A v \in Uploads \ {u} : up'[v] = up[v]
    BY <1>2
  <1>4. variable' \in 0..Len(jobs') /\ kind' \in Deploy!Kinds
    BY DEF DeployInv, DeployTyped, Deploy!Kinds
  <1>5. ops' \subseteq Uploads \X Deploy!Artefacts
    BY DEF DeployInv, DeployTyped
  <1>6. DeployTyped'
    BY <1>3, <1>4, <1>5 DEF DeployTyped, Deploy!Artefacts, Deploy!Kinds
  <1>7. ~Resting(u) /\ (Undisturbed(u)' => Undisturbed(u) /\ j.at # "failed")
    BY <1>3 DEF Resting, Undisturbed, Deploy!Active
  <1>8. \A v \in Uploads \ {u}, n \in Deploy!Artefacts : <<v, n>> \in ops' => <<v, n>> \in ops
    OBVIOUS
  <1>. QED
    BY <1>3, <1>6, <1>7, <1>8, DeployFrame

\* An upload starts: it alone can be undisturbed.
LEMMA StartKeeps ==
    ASSUME DeployInv, NEW u \in Uploads, Deploy!Start(u)
    PROVE  DeployInv'
  <1>. DEFINE j == [Deploy!Idle EXCEPT
                      !.at = IF kind = "databricks" THEN "put" ELSE "list",
                      !.todo = Deploy!Actives,
                      !.alone = ops = {} /\ \A w \in Uploads \ {u} : ~Deploy!Active(w)]
  <1>1. /\ up[u].at = "none" /\ UNCHANGED <<kind, items, jobs, variable, ops, blind>>
        /\ up' = [v \in Uploads |-> IF v # u THEN [up[v] EXCEPT !.alone = FALSE] ELSE j]
    BY DEF Deploy!Start
  <1>2. UploadRuns' = UploadRuns /\ First' = First /\ Second' = Second
    BY <1>1 DEF UploadRuns, UploadSteps, Todos, First, Second, Deploy!Artefacts
  <1>3. kind \in Deploy!Kinds /\ Deploy!Actives = <<First, Second>>
    BY ItemsOfScript DEF DeployInv, DeployTyped
  <1>4. /\ j \in UploadRuns /\ j.at \in {"list", "put"} /\ j.todo = <<First, Second>>
        /\ j.at = "put" => kind = "databricks"
        /\ j.alone = (ops = {} /\ \A w \in Uploads \ {u} : ~Deploy!Active(w))
    <2>1. 0 \in 0..Len(jobs)
      BY DEF DeployInv, DeployTyped
    <2>. QED
      BY <1>3, <2>1, WholeOrNothing DEF Deploy!Idle, UploadRuns, UploadSteps
  <1>. HIDE DEF j
  <1>5. ASSUME NEW v \in Uploads \ {u}
        PROVE  up'[v] \in UploadRuns /\ up'[v].alone = FALSE /\ up'[v].at = up[v].at
    <2>1. up[v] \in UploadRuns
      BY DEF DeployInv, DeployTyped
    <2>. DEFINE i == [up[v] EXCEPT !.alone = FALSE]
    <2>2. i \in UploadRuns /\ i.alone = FALSE /\ i.at = up[v].at
      BY <2>1 DEF UploadRuns
    <2>3. up'[v] = i
      BY <1>1
    <2>. HIDE DEF i
    <2>. QED
      BY <2>2, <2>3
  <1>6. up'[u] = j
    BY <1>1
  <1>7. DeployTyped'
    <2>1. up' \in [Uploads -> UploadRuns]
      BY <1>1, <1>4, <1>5, <1>6
    <2>. QED
      BY <1>1, <1>2, <2>1 DEF DeployInv, DeployTyped, Deploy!Artefacts, Deploy!Kinds
  <1>8. JobsFit'
    BY <1>1 DEF DeployInv, JobsFit
  <1>9. ASSUME Undisturbed(u)' PROVE Uploaded(u)' /\ \A v \in Uploads \ {u} : Resting(v)'
    <2>1. ops' = {} /\ \A w \in Uploads \ {u} : ~Deploy!Active(w)
      BY <1>1, <1>4, <1>6, <1>9 DEF Undisturbed
    <2>2. ASSUME NEW v \in Uploads \ {u} PROVE Resting(v)'
      BY <1>5, <2>1 DEF Resting, Deploy!Active
    <2>3. Uploaded(u)'
      <3>1. Len(up'[u].todo) = 2 /\ up'[u].todo # <<>>
        BY <1>4, <1>6, WholeOrNothing
      <3>2. /\ up'[u].at \in {"list", "put"} /\ ops' = {} /\ kind' = kind
            /\ up'[u].at = "put" => kind = "databricks"
        BY <1>1, <1>4, <1>6, <2>1
      <3>3. ~(Len(up'[u].todo) < 2)
        BY <3>1
      <3>. QED
        BY <3>1, <3>2, <3>3 DEF Uploaded
    <2>. QED
      BY <2>2, <2>3
  <1>10. \A v \in Uploads \ {u} : ~Undisturbed(v)'
    BY <1>5 DEF Undisturbed
  <1>. QED
    BY <1>7, <1>8, <1>9, <1>10 DEF DeployInv

\* What is listed is what is there.
LEMMA ListKeeps ==
    ASSUME DeployInv, NEW u \in Uploads, Deploy!List(u)
    PROVE  DeployInv'
  <1>. DEFINE j == [up[u] EXCEPT !.known = Deploy!Present,
                                 !.at = IF @ = "relist" THEN "delete" ELSE "put"]
  <1>1. /\ up[u].at \in {"list", "relist"} /\ up' = [up EXCEPT ![u] = j]
        /\ UNCHANGED <<kind, items, jobs, variable, ops, blind>>
    BY DEF Deploy!List, DeployInv, DeployTyped
  <1>2. /\ UploadRuns' = UploadRuns /\ First' = First /\ Second' = Second
        /\ Deploy!Deprecated' = Deploy!Deprecated
    BY <1>1 DEF UploadRuns, UploadSteps, Todos, First, Second, Deploy!Artefacts,
                Deploy!Deprecated
  <1>3. up[u] \in UploadRuns
    BY DEF DeployInv, DeployTyped
  <1>4. /\ j \in UploadRuns /\ j.known = Deploy!Present
        /\ j.at = (IF up[u].at = "relist" THEN "delete" ELSE "put")
        /\ j.todo = up[u].todo /\ j.alone = up[u].alone
    BY <1>1, <1>3 DEF UploadRuns, UploadSteps, Deploy!Present
  <1>. HIDE DEF j
  <1>5. ASSUME Undisturbed(u), up'[u] = j PROVE Uploaded(u)'
    <2>1. Uploaded(u)
      BY <1>5 DEF DeployInv
    <2>2. \A n \in Deploy!Deprecated : items[n] # 0 => n \in j.known
      BY <1>4, ItemsOfScript DEF DeployInv, DeployTyped, Deploy!Present
    <2>. QED
      BY <1>1, <1>2, <1>4, <1>5, <2>1, <2>2 DEF Uploaded
  <1>6. JobsFit' /\ Deploy!Active(u)
    BY <1>1 DEF DeployInv, JobsFit, Deploy!Active
  <1>7. /\ items' \in [Deploy!Artefacts -> Uploads \cup {0, -1}] /\ blind' \in BOOLEAN
        /\ jobs' \in Seq(Uploads) /\ Len(jobs') >= Len(jobs)
        /\ ops' \subseteq ops \cup ({u} \X Deploy!Artefacts)
    BY <1>1 DEF DeployInv, DeployTyped
  <1>8. j \in UploadRuns'
    BY <1>2, <1>4
  <1>. QED
    BY <1>1, <1>4, <1>5, <1>6, <1>7, <1>8, RunStep

\* While the job list stays, so does all that is typed by it.
LEMMA SameJobs ==
    ASSUME UNCHANGED <<kind, jobs>>
    PROVE  /\ UploadRuns' = UploadRuns /\ First' = First /\ Second' = Second
           /\ Deploy!Deprecated' = Deploy!Deprecated
  BY DEF UploadRuns, UploadSteps, Todos, First, Second, Deploy!Artefacts, Deploy!Deprecated

\* The next item of an upload is in, by this step or already.
LEMMA ItemIsPut ==
    ASSUME DeployInv, NEW u \in Uploads, Uploaded(u), up[u].todo # <<>>,
           items'[Head(up[u].todo)] = u,
           \A n \in Deploy!Artefacts \ {Head(up[u].todo)} : items'[n] = items[n]
    PROVE  /\ Len(Tail(up[u].todo)) < 2 => items'[First] = u
           /\ Tail(up[u].todo) = <<>> => items'[Second] = u
           /\ \A n \in Deploy!Deprecated : items'[n] = items[n]
  <1>. DEFINE t == up[u].todo
  <1>1. /\ t \in Todos /\ kind \in Deploy!Kinds
        /\ Len(t) < 2 => items[First] = u
    BY DEF DeployInv, DeployTyped, UploadRuns, Uploaded
  <1>2. /\ First # Second /\ First \in Deploy!Artefacts /\ Second \in Deploy!Artefacts
        /\ Deploy!Deprecated \subseteq Deploy!Artefacts \ {First, Second}
    BY <1>1, ItemsOfScript
  <1>3. /\ Head(t) = IF Len(t) = 2 THEN First ELSE Second
        /\ Len(Tail(t)) = Len(t) - 1 /\ (Len(t) = 1 \/ Len(t) = 2)
        /\ Tail(t) = <<>> <=> Len(t) = 1
    BY <1>1, NextItem
  <1>. HIDE DEF t
  <1>4. items'[Head(t)] = u /\ \A n \in Deploy!Artefacts \ {Head(t)} : items'[n] = items[n]
    BY DEF t
  <1>5. CASE Len(t) = 1
    <2>1. Head(t) = Second /\ items[First] = u
      BY <1>1, <1>3, <1>5
    <2>2. items'[First] = u /\ items'[Second] = u
      BY <1>2, <1>4, <2>1
    <2>. QED
      BY <1>2, <1>4, <2>1, <2>2
  <1>6. CASE Len(t) = 2
    <2>1. Head(t) = First /\ Tail(t) # <<>>
      BY <1>3, <1>6
    <2>. QED
      BY <1>2, <1>4, <2>1 DEF t
  <1>. QED
    BY <1>3, <1>5, <1>6

\* Where the next item goes.
LEMMA NextIsActive ==
    ASSUME DeployInv, NEW u \in Uploads, up[u].todo # <<>>
    PROVE  /\ Head(up[u].todo) \in Deploy!Artefacts
           /\ Tail(up[u].todo) \in Todos
           /\ [items EXCEPT ![Head(up[u].todo)] = u]
                 \in [Deploy!Artefacts -> Uploads \cup {0, -1}]
  <1>1. up[u].todo \in Todos /\ kind \in Deploy!Kinds
    BY DEF DeployInv, DeployTyped, UploadRuns
  <1>2. Head(up[u].todo) \in {First, Second} /\ Tail(up[u].todo) \in Todos
    BY <1>1, NextItem
  <1>3. Head(up[u].todo) \in Deploy!Artefacts
    BY <1>1, <1>2, ItemsOfScript
  <1>. QED
    BY <1>2, <1>3 DEF DeployInv, DeployTyped

\* import_notebook, or a change that Fabric carries out at once, or one that has
\* been waited for: the item is in.
LEMMA PutKeeps ==
    ASSUME DeployInv, NEW u \in Uploads, up[u].at \in {"put", "wait"}, up[u].todo # <<>>,
           NEW at \in {"put", "list"},
           at = "list" => kind = "powerbi",
           up' = [up EXCEPT ![u].todo = Tail(@), ![u].at = at],
           UNCHANGED <<kind, jobs, variable, ops, blind>>,
           \/ items' = [items EXCEPT ![Head(up[u].todo)] = u]
           \/ items' = items /\ (Uploaded(u) /\ up[u].alone => items[Head(up[u].todo)] = u),
           up[u].at = "wait" => \A n \in Deploy!Artefacts : <<u, n>> \notin ops
    PROVE  DeployInv'
  <1>. DEFINE j == [up[u] EXCEPT !.todo = Tail(@), !.at = at]
  <1>1. up' = [up EXCEPT ![u] = j] /\ up[u] \in UploadRuns
    BY DEF DeployInv, DeployTyped
  <1>2. /\ j \in UploadRuns /\ j.at = at /\ j.todo = Tail(up[u].todo)
        /\ j.known = up[u].known /\ j.alone = up[u].alone
    BY <1>1, NextIsActive DEF UploadRuns, UploadSteps
  <1>. HIDE DEF j
  <1>3. items' \in [Deploy!Artefacts -> Uploads \cup {0, -1}]
    BY NextIsActive DEF DeployInv, DeployTyped
  <1>4. ASSUME Undisturbed(u), up'[u] = j PROVE Uploaded(u)'
    <2>1. Uploaded(u) /\ up[u].alone
      BY <1>4 DEF DeployInv, Undisturbed
    <2>2. /\ items'[Head(up[u].todo)] = u
          /\ \A n \in Deploy!Artefacts \ {Head(up[u].todo)} : items'[n] = items[n]
      BY <2>1, NextIsActive DEF DeployInv, DeployTyped
    <2>3. /\ Len(j.todo) < 2 => items'[First] = u
          /\ j.todo = <<>> => items'[Second] = u
          /\ \A n \in Deploy!Deprecated : items'[n] = items[n]
      BY <1>2, <2>1, <2>2, ItemIsPut
    <2>4. ops' = {}
      <3>1. Head(up[u].todo) \in Deploy!Artefacts
        BY NextIsActive
      <3>. QED
        BY <2>1, <3>1 DEF Uploaded
    <2>5. (kind = "fabric" /\ at = "put") =>
              \A n \in Deploy!Deprecated : items[n] # 0 => n \in up[u].known
      BY <2>1 DEF Uploaded
    <2>6. at = "list" => kind # "fabric"
      OBVIOUS
    <2>. QED
      BY <1>2, <1>4, <2>3, <2>4, <2>5, <2>6, SameJobs DEF Uploaded
  <1>5. JobsFit' /\ Deploy!Active(u) /\ j \in UploadRuns'
    BY <1>2, SameJobs DEF DeployInv, JobsFit, Deploy!Active
  <1>6. /\ jobs' \in Seq(Uploads) /\ Len(jobs') >= Len(jobs) /\ blind' \in BOOLEAN
        /\ ops' \subseteq ops \cup ({u} \X Deploy!Artefacts)
    BY DEF DeployInv, DeployTyped
  <1>. QED
    BY <1>1, <1>2, <1>3, <1>4, <1>5, <1>6, RunStep

\* import_notebook overwrites.
LEMMA ImportKeeps ==
    ASSUME DeployInv, NEW u \in Uploads, Deploy!ImportNotebook(u)
    PROVE  DeployInv'
  <1>1. /\ up[u].at = "put" /\ up[u].todo # <<>>
        /\ items' = [items EXCEPT ![Head(up[u].todo)] = u]
        /\ up' = [up EXCEPT ![u].todo = Tail(@)]
        /\ UNCHANGED <<kind, jobs, variable, ops, blind>>
    BY DEF Deploy!ImportNotebook, Deploy!Put
  <1>3. up' = [up EXCEPT ![u].todo = Tail(@), ![u].at = "put"]
    <2>1. up[u] \in UploadRuns
      BY DEF DeployInv, DeployTyped
    <2>2. [up[u] EXCEPT !.todo = Tail(@)] = [up[u] EXCEPT !.todo = Tail(@), !.at = "put"]
      BY <1>1, <2>1 DEF UploadRuns
    <2>. QED
      BY <1>1, <2>2
  <1>. QED
    BY <1>1, <1>3, PutKeeps

\* Fabric is asked to change an item, and will.
LEMMA PutItemKeeps ==
    ASSUME DeployInv, NEW u \in Uploads, Deploy!PutItem(u)
    PROVE  DeployInv'
  <1>1. /\ kind # "databricks" /\ up[u].at = "put" /\ up[u].todo # <<>>
        /\ UNCHANGED <<kind, jobs, variable, blind>>
    BY DEF Deploy!PutItem
  <1>2. CASE /\ items' = [items EXCEPT ![Head(up[u].todo)] = u] /\ UNCHANGED ops
             /\ up' = [up EXCEPT ![u].todo = Tail(@),
                                 ![u].at = IF kind = "powerbi" THEN "list" ELSE "put"]
    <2>. DEFINE at == IF kind = "powerbi" THEN "list" ELSE "put"
    <2>1. at \in {"put", "list"} /\ (at = "list" => kind = "powerbi")
      OBVIOUS
    <2>2. up' = [up EXCEPT ![u].todo = Tail(@), ![u].at = at]
      BY <1>2
    <2>. HIDE DEF at
    <2>. QED
      BY <1>1, <1>2, <2>1, <2>2, PutKeeps
  <1>3. CASE /\ ops' = ops \cup {<<u, Head(up[u].todo)>>} /\ UNCHANGED items
             /\ up' = [up EXCEPT ![u].at = "wait"]
    <2>. DEFINE j == [up[u] EXCEPT !.at = "wait"]
    <2>1. up' = [up EXCEPT ![u] = j] /\ up[u] \in UploadRuns
      BY <1>3 DEF DeployInv, DeployTyped
    <2>2. "wait" \in UploadSteps
      BY <1>1 DEF UploadSteps
    <2>3. /\ j \in UploadRuns /\ j.at = "wait" /\ j.todo = up[u].todo
          /\ j.known = up[u].known /\ j.alone = up[u].alone
      BY <1>1, <2>1, <2>2 DEF UploadRuns
    <2>. HIDE DEF j
    <2>4. ASSUME Undisturbed(u), up'[u] = j PROVE Uploaded(u)'
      <3>1. Uploaded(u)
        BY <2>4 DEF DeployInv
      <3>2. ops' = {<<u, Head(up[u].todo)>>}
        BY <1>1, <1>3, <3>1 DEF Uploaded
      <3>. QED
        BY <1>1, <1>3, <2>3, <2>4, <3>1, <3>2, SameJobs DEF Uploaded
    <2>5. JobsFit' /\ Deploy!Active(u) /\ j \in UploadRuns'
      BY <1>1, <2>3, SameJobs DEF DeployInv, JobsFit, Deploy!Active
    <2>6. /\ items' \in [Deploy!Artefacts -> Uploads \cup {0, -1}]
          /\ jobs' \in Seq(Uploads) /\ Len(jobs') >= Len(jobs) /\ blind' \in BOOLEAN
          /\ ops' \subseteq ops \cup ({u} \X Deploy!Artefacts)
      BY <1>1, <1>3, NextIsActive DEF DeployInv, DeployTyped
    <2>. QED
      BY <1>1, <2>1, <2>3, <2>4, <2>5, <2>6, RunStep
  <1>. QED
    BY <1>1, <1>2, <1>3 DEF Deploy!PutItem, Deploy!Put

\* Fabric carries out a change, whether or not the script still waits for it.
LEMMA OperationKeeps ==
    ASSUME DeployInv, NEW u \in Uploads, NEW n \in Deploy!Artefacts, Deploy!OperationEnds(u, n)
    PROVE  DeployInv'
  <1>1. /\ <<u, n>> \in ops /\ ops' = ops \ {<<u, n>>} /\ items' = [items EXCEPT ![n] = u]
        /\ UNCHANGED <<kind, jobs, variable, up, blind>>
    BY DEF Deploy!OperationEnds, Deploy!Put
  <1>2. DeployTyped' /\ JobsFit'
    <2>1. items' \in [Deploy!Artefacts -> Uploads \cup {0, -1}]
      BY <1>1 DEF DeployInv, DeployTyped
    <2>. QED
      BY <1>1, <2>1, SameJobs DEF DeployInv, DeployTyped, JobsFit, Deploy!Artefacts, Deploy!Kinds
  <1>3. Undisturbed(u)' => Undisturbed(u)
    BY <1>1 DEF Undisturbed
  <1>4. ASSUME Undisturbed(u) PROVE Uploaded(u)'
    <2>1. Uploaded(u)
      BY <1>4 DEF DeployInv
    <2>2. up[u].at = "wait" /\ up[u].todo # <<>> /\ ops \subseteq {<<u, Head(up[u].todo)>>}
      BY <1>1, <2>1 DEF Uploaded, DeployInv, DeployTyped, UploadRuns
    <2>3. n = Head(up[u].todo) /\ ops' = {}
      BY <1>1, <2>2
    <2>4. items'[n] = u /\ \A k \in Deploy!Artefacts \ {n} : items'[k] = items[k]
      BY <1>1 DEF DeployInv, DeployTyped
    <2>5. /\ up[u].todo \in Todos /\ kind \in Deploy!Kinds
      BY DEF DeployInv, DeployTyped, UploadRuns
    <2>6. /\ n = IF Len(up[u].todo) = 2 THEN First ELSE Second
          /\ Len(up[u].todo) = 1 \/ Len(up[u].todo) = 2
          /\ First # Second /\ First \in Deploy!Artefacts
          /\ Deploy!Deprecated \subseteq Deploy!Artefacts \ {First, Second}
      BY <2>2, <2>3, <2>5, NextItem, ItemsOfScript
    <2>7. Len(up[u].todo) < 2 => items'[First] = u
      BY <2>1, <2>4, <2>6 DEF Uploaded
    <2>8. \A k \in Deploy!Deprecated : items'[k] = items[k]
      BY <2>4, <2>6
    <2>. QED
      BY <1>1, <2>1, <2>2, <2>3, <2>4, <2>7, <2>8, SameJobs DEF Uploaded
  <1>5. /\ ~Resting(u)
        /\ \A v \in Uploads \ {u} : up'[v] = up[v]
        /\ \A v \in Uploads \ {u}, k \in Deploy!Artefacts : <<v, k>> \in ops' => <<v, k>> \in ops
    BY <1>1 DEF Resting
  <1>. QED
    BY <1>1, <1>2, <1>3, <1>4, <1>5, DeployFrame

\* wait_for_operation returns: the item is in.
LEMMA WaitKeeps ==
    ASSUME DeployInv, NEW u \in Uploads, Deploy!Wait(u)
    PROVE  DeployInv'
  <1>. DEFINE at == IF kind = "powerbi" THEN "list" ELSE "put"
  <1>1. /\ up[u].at = "wait" /\ \A n \in Deploy!Artefacts : <<u, n>> \notin ops
        /\ up' = [up EXCEPT ![u].todo = Tail(@), ![u].at = at]
        /\ UNCHANGED <<kind, items, jobs, variable, ops, blind>>
    BY DEF Deploy!Wait, Deploy!Waited
  <1>2. at \in {"put", "list"} /\ (at = "list" => kind = "powerbi")
    OBVIOUS
  <1>. HIDE DEF at
  <1>3. up[u].todo # <<>>
    BY <1>1 DEF DeployInv, DeployTyped, UploadRuns
  <1>4. Uploaded(u) /\ up[u].alone => items[Head(up[u].todo)] = u
    <2>1. Head(up[u].todo) \in Deploy!Artefacts
      BY <1>3, NextIsActive
    <2>. QED
      BY <1>1, <2>1 DEF Uploaded
  <1>. QED
    BY <1>1, <1>2, <1>3, <1>4, PutKeeps

\* All active items are in.
LEMMA PutsDoneKeeps ==
    ASSUME DeployInv, NEW u \in Uploads, Deploy!PutsDone(u)
    PROVE  DeployInv'
  <1>. DEFINE at == CASE kind = "fabric" -> "delete"
                      [] kind = "powerbi" -> "done"
                      [] OTHER -> "relist"
              j == [up[u] EXCEPT !.at = at]
  <1>1. /\ up[u].at \in {"put", "list"} /\ up[u].todo = <<>>
        /\ up' = [up EXCEPT ![u] = j]
        /\ UNCHANGED <<kind, items, jobs, variable, ops, blind>>
    BY DEF Deploy!PutsDone
  <1>2. /\ kind \in Deploy!Kinds /\ up[u] \in UploadRuns
    BY DEF DeployInv, DeployTyped
  <1>3. /\ at \in UploadSteps
        /\ kind = "fabric" => at = "delete"
        /\ kind = "powerbi" => at = "done"
        /\ kind = "databricks" => at = "relist"
    BY <1>2 DEF UploadSteps, Deploy!Kinds
  <1>4. at # "wait" /\ at # "none"
    BY <1>2, <1>3 DEF Deploy!Kinds
  <1>. HIDE DEF at
  <1>5. /\ j \in UploadRuns /\ j.at = at /\ j.todo = <<>>
        /\ j.known = up[u].known /\ j.alone = up[u].alone
    BY <1>1, <1>2, <1>3, <1>4 DEF UploadRuns
  <1>. HIDE DEF j
  <1>6. ASSUME Undisturbed(u), up'[u] = j PROVE Uploaded(u)'
    <2>1. Uploaded(u)
      BY <1>6 DEF DeployInv
    <2>2. kind = "powerbi" => \A n \in Deploy!Deprecated : FALSE
      BY <1>2, ItemsOfScript
    <2>3. kind = "fabric" => \A n \in Deploy!Deprecated : items[n] # 0 => n \in j.known
      BY <1>1, <1>5, <2>1 DEF Uploaded
    <2>4. at = "delete" => kind = "fabric"
      BY <1>2, <1>3 DEF Deploy!Kinds
    <2>5. at = "done" => kind = "powerbi"
      BY <1>2, <1>3 DEF Deploy!Kinds
    <2>6. at \in {"delete", "done", "relist"}
      BY <1>2, <1>3 DEF Deploy!Kinds
    <2>. HIDE DEF at
    <2>. QED
      BY <1>1, <1>5, <1>6, <2>1, <2>2, <2>3, <2>4, <2>5, <2>6, SameJobs DEF Uploaded
  <1>7. JobsFit' /\ Deploy!Active(u) /\ j \in UploadRuns'
    BY <1>1, <1>5, SameJobs DEF DeployInv, JobsFit, Deploy!Active
  <1>8. /\ items' \in [Deploy!Artefacts -> Uploads \cup {0, -1}]
        /\ jobs' \in Seq(Uploads) /\ Len(jobs') >= Len(jobs) /\ blind' \in BOOLEAN
        /\ ops' \subseteq ops \cup ({u} \X Deploy!Artefacts)
    BY <1>1 DEF DeployInv, DeployTyped
  <1>. QED
    BY <1>1, <1>5, <1>6, <1>7, <1>8, RunStep

\* The deprecated items that were listed are removed.
LEMMA DeleteKeeps ==
    ASSUME DeployInv, NEW u \in Uploads, Deploy!DeleteDeprecated(u)
    PROVE  DeployInv'
  <1>. DEFINE at == IF kind = "databricks" THEN "find" ELSE "done"
              j == [up[u] EXCEPT !.at = at]
              gone == up[u].known \cap Deploy!Deprecated
  <1>1. /\ up[u].at = "delete"
        /\ items' = [n \in Deploy!Artefacts |-> IF n \in gone THEN 0 ELSE items[n]]
        /\ up' = [up EXCEPT ![u] = j]
        /\ UNCHANGED <<kind, jobs, variable, ops, blind>>
    BY DEF Deploy!DeleteDeprecated
  <1>2. /\ kind \in Deploy!Kinds /\ up[u] \in UploadRuns
    BY DEF DeployInv, DeployTyped
  <1>3. at \in UploadSteps /\ at \in {"find", "done"} /\ (at = "done" => kind # "databricks")
    BY <1>2 DEF UploadSteps, Deploy!Kinds
  <1>. HIDE DEF at
  <1>4. /\ j \in UploadRuns /\ j.at = at /\ j.todo = up[u].todo
        /\ j.known = up[u].known /\ j.alone = up[u].alone
    BY <1>2, <1>3 DEF UploadRuns
  <1>. HIDE DEF j
  <1>5. ASSUME Undisturbed(u), up'[u] = j PROVE Uploaded(u)'
    <2>1. Uploaded(u)
      BY <1>5 DEF DeployInv
    <2>2. /\ First \in Deploy!Artefacts /\ Second \in Deploy!Artefacts
          /\ Deploy!Deprecated \subseteq Deploy!Artefacts \ {First, Second}
      BY <1>2, ItemsOfScript
    <2>3. items'[First] = items[First] /\ items'[Second] = items[Second]
      BY <1>1, <2>2
    <2>4. \A n \in Deploy!Deprecated : items[n] # 0 => n \in up[u].known
      BY <1>1, <2>1 DEF Uploaded
    <2>5. \A n \in Deploy!Deprecated : items'[n] = 0
      BY <1>1, <2>2, <2>4
    <2>6. up[u].todo = <<>> /\ ops = {}
      BY <1>1, <2>1 DEF Uploaded
    <2>. QED
      BY <1>1, <1>3, <1>4, <1>5, <2>1, <2>3, <2>5, <2>6, SameJobs DEF Uploaded
  <1>6. JobsFit' /\ Deploy!Active(u) /\ j \in UploadRuns'
    BY <1>1, <1>4, SameJobs DEF DeployInv, JobsFit, Deploy!Active
  <1>7. items' \in [Deploy!Artefacts -> Uploads \cup {0, -1}]
    BY <1>1 DEF DeployInv, DeployTyped
  <1>8. /\ jobs' \in Seq(Uploads) /\ Len(jobs') >= Len(jobs) /\ blind' \in BOOLEAN
        /\ ops' \subseteq ops \cup ({u} \X Deploy!Artefacts)
    BY <1>1 DEF DeployInv, DeployTyped
  <1>. QED
    BY <1>1, <1>4, <1>5, <1>6, <1>7, <1>8, RunStep

\* While no job was created blindly, a job that is there is found.
LEMMA FindJobKeeps ==
    ASSUME DeployInv, NEW u \in Uploads, Deploy!FindJob(u)
    PROVE  DeployInv'
  <1>1. PICK i \in {0} \cup DOMAIN jobs :
          /\ up[u].at = "find"
          /\ up' = [up EXCEPT ![u].job = i, ![u].at = "job"]
          /\ blind' = (blind \/ (i = 0 /\ jobs # <<>>))
          /\ UNCHANGED <<kind, items, jobs, variable, ops>>
    BY DEF Deploy!FindJob
  <1>. DEFINE j == [up[u] EXCEPT !.job = i, !.at = "job"]
  <1>2. up' = [up EXCEPT ![u] = j] /\ up[u] \in UploadRuns
    BY <1>1 DEF DeployInv, DeployTyped
  <1>3. kind = "databricks"
    BY <1>1, <1>2 DEF UploadRuns, UploadSteps
  <1>4. i \in 0..Len(jobs)
    BY DEF DeployInv, DeployTyped
  <1>5. /\ j \in UploadRuns /\ j.at = "job" /\ j.todo = up[u].todo
        /\ j.known = up[u].known /\ j.alone = up[u].alone
    BY <1>2, <1>3, <1>4 DEF UploadRuns, UploadSteps
  <1>. HIDE DEF j
  <1>6. ASSUME Undisturbed(u), up'[u] = j PROVE Uploaded(u)'
    <2>1. Uploaded(u)
      BY <1>6 DEF DeployInv
    <2>. QED
      BY <1>1, <1>5, <1>6, <2>1, SameJobs DEF Uploaded
  <1>7. blind' \in BOOLEAN /\ (~blind' => ~blind)
    BY <1>1 DEF DeployInv, DeployTyped
  <1>8. JobsFit' /\ Deploy!Active(u) /\ j \in UploadRuns'
    BY <1>1, <1>5, <1>7, SameJobs DEF DeployInv, JobsFit, Deploy!Active
  <1>9. /\ items' \in [Deploy!Artefacts -> Uploads \cup {0, -1}]
        /\ jobs' \in Seq(Uploads) /\ Len(jobs') >= Len(jobs)
        /\ ops' \subseteq ops \cup ({u} \X Deploy!Artefacts)
    BY <1>1 DEF DeployInv, DeployTyped
  <1>. QED
    BY <1>1, <1>2, <1>5, <1>6, <1>7, <1>8, <1>9, RunStep

\* jobs/reset or jobs/create.
LEMMA SettingsTake ==
    ASSUME jobs \in Seq(Uploads), NEW u \in Uploads, NEW i \in 0..Len(jobs),
           NEW s, s = Deploy!Settings(u, i)
    PROVE  /\ s \in Seq(Uploads) /\ Len(s) >= Len(jobs)
           /\ i = 0 => Len(s) = Len(jobs) + 1 /\ s[Len(jobs) + 1] = u
           /\ i # 0 => Len(s) = Len(jobs) /\ s[i] = u
           /\ (IF i = 0 THEN Len(jobs) + 1 ELSE i) \in 0..Len(s)
  <1>1. CASE i = 0
    <2>1. s = Append(jobs, u)
      BY <1>1 DEF Deploy!Settings
    <2>2. s \in Seq(Uploads) /\ Len(s) = Len(jobs) + 1 /\ s[Len(jobs) + 1] = u
      BY <2>1, AppendProperties
    <2>. QED
      BY <1>1, <2>2
  <1>2. CASE i # 0
    <2>1. s = [jobs EXCEPT ![i] = u]
      BY <1>2 DEF Deploy!Settings
    <2>2. i \in 1..Len(jobs)
      BY <1>2
    <2>3. s \in Seq(Uploads) /\ Len(s) = Len(jobs) /\ s[i] = u
      BY <2>1, <2>2, ExceptSeq
    <2>. QED
      BY <1>2, <2>2, <2>3
  <1>. QED
    BY <1>1, <1>2

\* The job has the settings of this upload, and there is only one.
LEMMA PutJobKeeps ==
    ASSUME DeployInv, NEW u \in Uploads, Deploy!PutJob(u)
    PROVE  DeployInv'
  <1>. DEFINE i == up[u].job
              k == IF i = 0 THEN Len(jobs) + 1 ELSE i
              j == [up[u] EXCEPT !.at = "done", !.job = k]
  <1>1. /\ up[u].at = "job" /\ jobs' = Deploy!Settings(u, i)
        /\ blind' = (blind \/ (i = 0 /\ jobs # <<>>))
        /\ up' = [up EXCEPT ![u] = j]
        /\ UNCHANGED <<kind, items, variable, ops>>
    BY DEF Deploy!PutJob, DeployInv, DeployTyped
  <1>2. up[u] \in UploadRuns /\ jobs \in Seq(Uploads) /\ i \in 0..Len(jobs)
    BY DEF DeployInv, DeployTyped, UploadRuns
  <1>3. kind = "databricks"
    BY <1>1, <1>2 DEF UploadRuns, UploadSteps
  <1>4. /\ jobs' \in Seq(Uploads) /\ Len(jobs') >= Len(jobs)
        /\ i = 0 => Len(jobs') = Len(jobs) + 1 /\ jobs'[Len(jobs) + 1] = u
        /\ i # 0 => Len(jobs') = Len(jobs) /\ jobs'[i] = u
        /\ k \in 0..Len(jobs')
    BY <1>1, <1>2, SettingsTake
  <1>5. /\ First' = First /\ Second' = Second /\ Deploy!Deprecated' = Deploy!Deprecated
        /\ UploadRuns \subseteq UploadRuns' /\ UploadSteps' = UploadSteps
    BY <1>1, <1>4, SameScript DEF DeployInv
  <1>. HIDE DEF k
  <1>6. "done" \in UploadSteps'
    BY <1>5 DEF UploadSteps
  <1>7. up[u] \in UploadRuns'
    BY <1>2, <1>5
  <1>8. /\ j \in UploadRuns' /\ j.at = "done" /\ j.todo = up[u].todo
        /\ j.known = up[u].known /\ j.alone = up[u].alone
    BY <1>4, <1>6, <1>7 DEF UploadRuns
  <1>. HIDE DEF j
  <1>9. blind' \in BOOLEAN /\ (~blind' => ~blind /\ (i = 0 => jobs = <<>>))
    BY <1>1 DEF DeployInv, DeployTyped
  <1>10. ~blind' => Len(jobs') = 1 /\ jobs'[1] = u
    <2>1. SUFFICES ASSUME ~blind' PROVE Len(jobs') = 1 /\ jobs'[1] = u
      OBVIOUS
    <2>2. Len(jobs) <= 1 /\ Len(jobs) \in Nat
      BY <1>2, <1>9, <2>1, LenProperties DEF DeployInv, JobsFit
    <2>3. CASE i = 0
      <3>1. Len(jobs) = 0
        BY <1>9, <2>1, <2>3, EmptySeq
      <3>. QED
        BY <1>4, <2>3, <3>1
    <2>4. CASE i # 0
      <3>1. Len(jobs) = 1 /\ i = 1
        <4>. DEFINE l == Len(jobs)
        <4>1. l \in Nat /\ l <= 1 /\ i \in 0..l /\ i # 0
          BY <1>2, <2>2, <2>4
        <4>. HIDE DEF l, i
        <4>2. l = 1 /\ i = 1
          BY <4>1
        <4>. QED
          BY <4>2 DEF l
      <3>. QED
        BY <1>4, <2>4, <3>1
    <2>. QED
      BY <2>3, <2>4
  <1>11. ASSUME Undisturbed(u), up'[u] = j PROVE Uploaded(u)'
    <2>1. Uploaded(u)
      BY <1>11 DEF DeployInv
    <2>. HIDE DEF i
    <2>. QED
      BY <1>1, <1>5, <1>8, <1>10, <1>11, <2>1 DEF Uploaded
  <1>12. JobsFit'
    <2>1. ASSUME ~blind' PROVE Len(jobs') <= 1
      <3>1. Len(jobs') = 1
        BY <1>10, <2>1
      <3>. QED
        BY <3>1
    <2>. QED
      BY <1>1, <1>3, <2>1 DEF JobsFit
  <1>13. /\ items' \in [Deploy!Artefacts -> Uploads \cup {0, -1}]
         /\ ops' \subseteq ops \cup ({u} \X Deploy!Artefacts) /\ Deploy!Active(u)
    BY <1>1 DEF DeployInv, DeployTyped, Deploy!Active
  <1>. QED
    BY <1>1, <1>4, <1>8, <1>9, <1>11, <1>12, <1>13, RunStep

\* An upload that stops is no longer undisturbed.
LEMMA CallFailKeeps ==
    ASSUME DeployInv, NEW u \in Uploads, Deploy!UploadFails(u)
    PROVE  DeployInv'
  <1>. DEFINE j == [up[u] EXCEPT !.at = "failed"]
  <1>1. /\ Deploy!Active(u) /\ up' = [up EXCEPT ![u] = j]
        /\ UNCHANGED <<kind, items, jobs, variable, ops, blind>>
    BY DEF Deploy!UploadFails
  <1>2. up[u] \in UploadRuns
    BY DEF DeployInv, DeployTyped
  <1>3. j \in UploadRuns /\ j.at = "failed" /\ j.alone = up[u].alone
    BY <1>2 DEF UploadRuns, UploadSteps
  <1>. HIDE DEF j
  <1>4. JobsFit' /\ j \in UploadRuns'
    BY <1>1, <1>3, SameJobs DEF DeployInv, JobsFit
  <1>5. /\ items' \in [Deploy!Artefacts -> Uploads \cup {0, -1}]
        /\ jobs' \in Seq(Uploads) /\ Len(jobs') >= Len(jobs) /\ blind' \in BOOLEAN
        /\ ops' \subseteq ops \cup ({u} \X Deploy!Artefacts)
    BY <1>1 DEF DeployInv, DeployTyped
  <1>. QED
    BY <1>1, <1>3, <1>4, <1>5, RunStep

\* Airflow's variable is the id of a job.
LEMMA VariableKeeps ==
    ASSUME DeployInv, NEW u \in Uploads, Deploy!SetVariable(u)
    PROVE  DeployInv'
  <1>1. variable' = up[u].job /\ UNCHANGED <<kind, items, jobs, ops, up, blind>>
    BY DEF Deploy!SetVariable
  <1>2. up[u].job \in 0..Len(jobs)
    BY DEF DeployInv, DeployTyped, UploadRuns
  <1>3. DeployTyped' /\ JobsFit'
    BY <1>1, <1>2, SameJobs DEF DeployInv, DeployTyped, JobsFit, Deploy!Artefacts, Deploy!Kinds
  <1>4. \A v \in Uploads : /\ Undisturbed(v)' = Undisturbed(v) /\ Uploaded(v)' = Uploaded(v)
                           /\ Resting(v)' = Resting(v)
    BY <1>1, SameJobs DEF Undisturbed, Uploaded, Resting, Deploy!Active, Deploy!Artefacts
  <1>. QED
    BY <1>3, <1>4 DEF DeployInv

\* Every step of an upload, and of Fabric, keeps it.
LEMMA DeployPreserved == DeployInv /\ [Deploy!Next]_(Deploy!vars) => DeployInv'
  <1>. SUFFICES ASSUME DeployInv, [Deploy!Next]_(Deploy!vars) PROVE DeployInv'
    OBVIOUS
  <1>1. CASE UNCHANGED Deploy!vars
    <2>1. UNCHANGED <<kind, items, jobs, variable, ops, up, blind>>
      BY <1>1 DEF Deploy!vars
    <2>2. DeployTyped' /\ JobsFit'
      BY <2>1, SameJobs DEF DeployInv, DeployTyped, JobsFit, Deploy!Artefacts, Deploy!Kinds
    <2>3. \A v \in Uploads : /\ Undisturbed(v)' = Undisturbed(v) /\ Uploaded(v)' = Uploaded(v)
                             /\ Resting(v)' = Resting(v)
      BY <2>1, SameJobs DEF Undisturbed, Uploaded, Resting, Deploy!Active, Deploy!Artefacts
    <2>. QED
      BY <2>2, <2>3 DEF DeployInv
  <1>2. CASE Deploy!Next
    BY <1>2, StartKeeps, ListKeeps, ImportKeeps, PutItemKeeps, WaitKeeps, PutsDoneKeeps,
       DeleteKeeps, FindJobKeeps, PutJobKeeps, VariableKeeps, CallFailKeeps, OperationKeeps
    DEF Deploy!Next
  <1>. QED
    BY <1>1, <1>2

\* The invariant is about typed uploads.
LEMMA DeployTypes == DeployInv => Deploy!DeployTypeOK
  BY DEF DeployInv, DeployTyped, UploadRuns, Deploy!DeployTypeOK

\* An undisturbed upload that is done has left its version of everything.
LEMMA UploadsAreIn == DeployInv => Deploy!UploadsTakeHold
  <1>. SUFFICES ASSUME DeployInv, NEW u \in Uploads, up[u].at = "done", up[u].alone
                PROVE  /\ \A n \in Deploy!Deprecated : items[n] = 0
                       /\ \A k \in DOMAIN Deploy!Actives : items[Deploy!Actives[k]] = u
                       /\ variable # 0 /\ ~blind => jobs[variable] = u
    BY DEF Deploy!UploadsTakeHold
  <1>1. Uploaded(u)
    BY DEF DeployInv, Undisturbed
  <1>2. up[u].todo = <<>> /\ Len(up[u].todo) < 2
    BY <1>1, EmptySeq DEF Uploaded
  <1>3. items[First] = u /\ items[Second] = u
    BY <1>1, <1>2 DEF Uploaded
  <1>4. Deploy!Actives = <<First, Second>>
    BY ItemsOfScript DEF DeployInv, DeployTyped
  <1>5. \A k \in DOMAIN Deploy!Actives : items[Deploy!Actives[k]] = u
    BY <1>3, <1>4
  <1>6. ASSUME variable # 0, ~blind PROVE jobs[variable] = u
    <2>1. jobs \in Seq(Uploads) /\ variable \in 0..Len(jobs) /\ Len(jobs) <= 1
      BY <1>6 DEF DeployInv, DeployTyped, JobsFit
    <2>2. variable = 1 /\ Len(jobs) = 1
      <3>. DEFINE l == Len(jobs)
      <3>1. l \in Nat /\ l <= 1 /\ variable \in 0..l /\ variable # 0
        BY <1>6, <2>1, LenProperties
      <3>. HIDE DEF l
      <3>2. l = 1 /\ variable = 1
        BY <3>1
      <3>. QED
        BY <3>2 DEF l
    <2>3. kind = "databricks"
      BY <2>2, EmptySeq DEF DeployInv, JobsFit
    <2>. QED
      BY <1>1, <1>6, <2>2, <2>3 DEF Uploaded
  <1>. QED
    BY <1>1, <1>5, <1>6 DEF Uploaded

\* Services keeps it: an upload that ended undisturbed has left its version of every
\* active item, no deprecated one, and the settings of the job that Airflow starts.
THEOREM ScriptsUploadTheirVersion == Spec => []UploadsTakeHold
  <1>. DEFINE Inv == part = "deploy" => DeployInv
  <1>1. Init => Inv
    BY CloudStart, DeployInit
  <1>2. Inv /\ [Next]_vars => Inv'
    BY CloudStep, DeployPreserved
  <1>3. Inv => UploadsTakeHold
    BY UploadsAreIn DEF UploadsTakeHold
  <1>. QED
    BY <1>1, <1>2, <1>3, PTL DEF Spec

-----------------------------------------------------------------------------
\* The types of the DAGs, scripts and seeds.
CloudTypesOK ==
    /\ part = "cloud" => Cloud!CloudTypeOK
    /\ part = "deploy" => Deploy!DeployTypeOK
    /\ part = "setup" => Setup!SetupTypeOK
    /\ part = "focus" => Focus!FocusTypeOK

\* The DAGs and scripts keep their type invariants.
LEMMA CloudKeepsTypes == Spec => []CloudTypesOK
  <1>. DEFINE Inv ==
         /\ part = "cloud" => CloudInv
         /\ part = "deploy" => DeployInv
         /\ part = "setup" => SetupInv
         /\ part = "focus" => FocusInv
  <1>1. Init => Inv
    BY ServicesAssumption, CloudStart, CloudInit, DeployInit, SetupInit, FocusInit
  <1>2. Inv /\ [Next]_vars => Inv'
    BY ServicesAssumption, CloudStep, CloudPreserved, DeployPreserved, SetupPreserved,
       FocusPreserved
  <1>3. Inv => CloudTypesOK
    BY ServicesAssumption, CloudTypes, DeployTypes, SetupTypes, FocusTypes DEF CloudTypesOK
  <1>. QED
    BY <1>1, <1>2, <1>3, PTL DEF Spec

\* Every part of Services keeps the type invariant of its module: what is in a queue,
\* a cache, a checkpoint or a job's record is what the code puts there, and within
\* its bounds.
THEOREM ServicesKeepTypes == Spec => []ServicesTypeOK
  <1>1. PortalTypesOK /\ JobsTypesOK /\ CloudTypesOK => ServicesTypeOK
    BY DEF PortalTypesOK, JobsTypesOK, CloudTypesOK, ServicesTypeOK
  <1>. QED
    BY <1>1, PortalKeepsTypes, JobsKeepTypes, CloudKeepsTypes, PTL
=============================================================================
