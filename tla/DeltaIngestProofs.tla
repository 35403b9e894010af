-------------------------- MODULE DeltaIngestProofs --------------------------
(***************************************************************************)
(* No run loses a file between staging and Delta, what is moved was loaded *)
(* and the runs of a CSV source do not race with each other, for every     *)
(* number of runs, keys, files and tables, every limit on parallel         *)
(* conversions and any interleaving with uploads under the keys in use.    *)
(***************************************************************************)
EXTENDS DeltaIngest, FiniteSetTheorems, TLAPS

Written  == {"check", "register", "copy", "delete", "report", "success"}
Stored   == {"copy", "delete", "report", "success"}
Finished == {"report", "success"}
Past     == Written \union Failures

\* An ingest run writes to the table of its source.
ConfsFit == \A r \in Runs : pc[r] # "idle" /\ CsvRun(r) => Table(r) = CsvTable

\* A key that passed the validation is one of the DAG's own.
KeysApart ==
  \A r \in Runs : pc[r] \in Midway \union {"download"}
                    => Key(r) \in IF CsvRun(r) THEN CsvKeys ELSE UploadKeys

\* A run's file was uploaded under its key; what else can be there while the run
\* is under way came after its download.
FilesHeld ==
  \A r \in Runs :
    /\ pc[r] \in Midway \union Finished => file[r] # NoFile
    /\ file[r] # NoFile => pc[r] # "idle" /\ <<Key(r), file[r]>> \in uploaded
    /\ pc[r] \in Midway \ {"delete"} =>
         staging[Key(r)] \in {file[r], NoFile} \/ CameBetween(staging[Key(r)], r, FALSE)

\* What a run is about to delete it has copied, or it came after the copy.
DeletesFit ==
  \A r \in Runs : pc[r] = "delete" =>
    \/ staging[Key(r)] = NoFile \/ Processed(staging[Key(r)])
    \/ CameBetween(staging[Key(r)], r, TRUE)

OneCsvRun ==
  \A r, s \in Runs : CsvRun(r) /\ CsvRun(s) /\ pc[r] \in Running /\ pc[s] \in Running => r = s

\* Alone in its DAG, a run of the source finds its file where it left it unless
\* an upload replaced it, and a file it has moved never comes back.
CsvFileStays ==
  \A r \in Runs : CsvRun(r) =>
    /\ pc[r] \in Midway => staging[Key(r)] = file[r] \/ file[r] \in replaced
    /\ pc[r] \in Finished => \A k \in Keys : staging[k] # file[r]
    /\ pc[r] \in Finished \union {"delete"} => Processed(file[r]) \/ file[r] \in replaced

\* ... and so no two runs of the source load the same file and both go on.
Holds(r) == CsvRun(r) /\ pc[r] \in Midway \union Finished
OneLoad  == \A r, s \in Runs : Holds(r) /\ Holds(s) /\ file[r] = file[s] => r = s

\* ... and only conversions commit to its table after it opened the table.
CsvTableStays ==
  \A r \in Runs : CsvRun(r) /\ pc[r] = "commit" =>
    \A i \in 1..Len(log[CsvTable]) : version[r] < i => ~CsvRun(log[CsvTable][i])

\* A conversion got as far as the table of the source.
Meddled == \E s \in Runs : ~CsvRun(s) /\ Table(s) = CsvTable /\ pc[s] \in Past

Registration ==
  \A r \in Runs :
    /\ pc[r] \in Stored => Table(r) \in hms
    /\ CsvRun(r) /\ pc[r] = "register" => CsvTable \notin hms \/ Meddled
    /\ CsvRun(r) /\ pc[r] = "table exists" => Meddled

Uploads ==
  /\ \A u, v \in uploaded : u[2] = v[2] => u = v
  /\ \A k \in Keys : staging[k] # NoFile => <<k, staging[k]>> \in uploaded
  /\ \A f \in replaced : (\E u \in uploaded : u[2] = f) /\ \A k \in Keys : staging[k] # f

\* A run works from a version that is there.
VersionsFit == \A r \in Runs : pc[r] = "commit" => version[r] <= Len(log[Table(r)])

\* Commits are made by runs that are past their commit.
CommitsFit ==
  /\ \A t \in Tables : \A i \in 1..Len(log[t]) :
       Table(log[t][i]) = t /\ pc[log[t][i]] \in Past
  /\ \A o \in overtaken : pc[o[1]] \in Past /\ pc[o[2]] \in Past

WritesCount == \A r \in Runs : pc[r] \in Written => Wrote(r)

\* What was moved to processed/ had been written by the run that moved it.
ProcessedIsSound ==
  \A p \in processed :
    \/ /\ file[p.by] = p.file /\ pc[p.by] \in Past
       /\ Wrote(p.by) /\ Table(p.by) \in hms
    \/ CameBetween(p.file, p.by, FALSE)

IInv ==
  /\ TypeOK /\ ConfsFit /\ KeysApart /\ FilesHeld /\ DeletesFit /\ OneCsvRun /\ CsvFileStays
  /\ OneLoad /\ CsvTableStays /\ Registration /\ Uploads /\ VersionsFit /\ CommitsFit
  /\ WritesCount /\ ProcessedIsSound /\ NothingVanishes


-----------------------------------------------------------------------------
\* Both ways to trigger a run are a Trigger with a conf of the DAG's own table.
LEMMA NextCases ==
  ASSUME IngestAssumption, Next
  PROVE  \/ \E k \in Keys, f \in Files : Upload(k, f)
         \/ \E r \in Runs : \E c \in Confs :
              Trigger(r, c) /\ (c.dag = "ingest_csv" => c.table = CsvTable)
         \/ \E r \in Runs : RunStep(r)
<1>1. ASSUME NEW r \in Runs, NEW dag \in Dags, NEW k \in Keys, NEW t \in Tables,
             TriggerFromAirflow(r, dag, k, t)
      PROVE  \E c \in Confs : Trigger(r, c) /\ (c.dag = "ingest_csv" => c.table = CsvTable)
  <2>. DEFINE c == [dag |-> dag, key |-> k, table |-> t, column |-> "", portal |-> FALSE]
  <2>1. c \in Confs
    BY DEF Confs
  <2>2. Trigger(r, c) /\ (c.dag = "ingest_csv" => c.table = CsvTable)
    BY <1>1 DEF TriggerFromAirflow
  <2>. QED
    BY <2>1, <2>2
<1>2. ASSUME NEW r \in Runs, NEW k \in UploadKeys, NEW t \in Tables,
             TriggerFromPortal(r, k, t)
      PROVE  \E c \in Confs : Trigger(r, c) /\ (c.dag = "ingest_csv" => c.table = CsvTable)
  <2>. DEFINE c == [dag |-> "convert_to_delta", key |-> k, table |-> t, column |-> "None",
                    portal |-> TRUE]
  <2>1. c \in Confs
    BY DEF Confs, Dags, Keys
  <2>2. Trigger(r, c) /\ (c.dag = "ingest_csv" => c.table = CsvTable)
    BY <1>2 DEF TriggerFromPortal
  <2>. QED
    BY <2>1, <2>2
<1>. QED
  BY <1>1, <1>2 DEF Next

\* What the log and the confs are, in the form the steps below use.
LEMMA LogRuns ==
  ASSUME TypeOK, NEW t \in Tables
  PROVE  /\ log[t] \in Seq(Runs) /\ Len(log[t]) \in Nat /\ DOMAIN log[t] = 1..Len(log[t])
         /\ \A i \in 1..Len(log[t]) : log[t][i] \in Runs
<1>1. log[t] \in Seq(Runs)
  BY DEF TypeOK
<1>. QED
  BY <1>1

LEMMA RunTypes ==
  ASSUME TypeOK, NEW r \in Runs
  PROVE  Table(r) \in Tables /\ Key(r) \in Keys /\ version[r] \in Nat
BY DEF TypeOK, Confs, Table, Key

LEMMA GotoEffect ==
  ASSUME TypeOK, NEW r \in Runs, NEW next, Goto(r, next)
  PROVE  pc'[r] = next /\ \A s \in Runs \ {r} : pc'[s] = pc[s]
BY DEF TypeOK, Goto

\* What an upload, a trigger and a step of a run leave alone.
LEMMA UploadEffect ==
  ASSUME TypeOK, NEW k \in Keys, NEW f \in Files, Upload(k, f)
  PROVE  /\ staging'[k] = f /\ \A l \in Keys \ {k} : staging'[l] = staging[l]
         /\ \A u \in uploaded : u[2] # f
         /\ uploaded' = uploaded \union {<<k, f>>}
         /\ replaced' = replaced \union ({staging[k]} \ {NoFile})
         /\ \A m \in met : m \in met'
         /\ \A r \in Runs : pc[r] \in Midway /\ Key(r) = k
              => [file |-> f, by |-> r, moved |-> pc[r] = "delete"] \in met'
BY DEF TypeOK, Upload

LEMMA TriggerEffect ==
  ASSUME TypeOK, NEW r \in Runs, NEW c \in Confs, Trigger(r, c)
  PROVE  /\ pc[r] = "idle" /\ pc'[r] = "queued" /\ conf'[r] = c
         /\ \A s \in Runs \ {r} : pc'[s] = pc[s] /\ conf'[s] = conf[s]
         /\ UNCHANGED <<stores, file, version, faults, tale>>
BY DEF TypeOK, Trigger, Goto

LEMMA StepFrame ==
  ASSUME TypeOK, NEW r \in Runs, RunStep(r)
  PROVE  /\ conf' = conf /\ uploaded' = uploaded /\ replaced' = replaced /\ met' = met
         /\ pc[r] \in {"queued"} \union Running /\ pc'[r] \in Running \union Ended
         /\ pc'[r] \in Running => pc[r] \in Running \/ StartRun(r)
         /\ \A s \in Runs \ {r} : pc'[s] = pc[s] /\ file'[s] = file[s] /\ version'[s] = version[s]
<1>. USE DEF TypeOK, Goto, stores, tale, Running, Midway, Ended, Failures
<1>1. CASE StartRun(r)
  BY <1>1 DEF StartRun
<1>2. CASE Validate(r)
  BY <1>2 DEF Validate
<1>3. CASE Download(r)
  BY <1>3 DEF Download
<1>4. CASE OpenTable(r)
  BY <1>4 DEF OpenTable
<1>5. CASE Commit(r)
  BY <1>5 DEF Commit
<1>6. CASE CheckTable(r)
  BY <1>6 DEF CheckTable
<1>7. CASE RegisterTable(r)
  BY <1>7 DEF RegisterTable
<1>8. CASE CopyObject(r)
  BY <1>8 DEF CopyObject
<1>9. CASE DeleteObject(r)
  BY <1>9 DEF DeleteObject
<1>10. CASE Report(r)
  BY <1>10 DEF Report
<1>11. CASE PodFails(r)
  BY <1>11 DEF PodFails
<1>. QED
  BY <1>1, <1>2, <1>3, <1>4, <1>5, <1>6, <1>7, <1>8, <1>9, <1>10, <1>11 DEF RunStep

\* The steps of a run that change nothing but where it is.
Quiet(r) ==
  /\ stores' = stores /\ file' = file /\ version' = version /\ overtaken' = overtaken
  /\ \/ pc[r] = "queued" /\ pc'[r] = "validate"
     \/ pc[r] = "validate" /\ pc'[r] = "invalid"
     \/ pc[r] = "validate" /\ pc'[r] = "download" /\ ValidInputs(conf[r])
     \/ pc[r] = "open" /\ pc'[r] = "other columns"
     \/ pc[r] = "check" /\ pc'[r] = "register" /\ Table(r) \notin hms
     \/ pc[r] = "check" /\ pc'[r] = "copy" /\ Table(r) \in hms
     \/ pc[r] = "register" /\ pc'[r] = "table exists" /\ Table(r) \in hms
     \/ pc[r] = "copy" /\ pc'[r] = "no such key"
     \/ pc[r] = "report" /\ pc'[r] = "success"
     \/ pc[r] \in Running /\ pc'[r] = "pod failed"

\* The steps that do more.
Downloads(r) ==
  /\ stores' = stores /\ version' = version /\ overtaken' = overtaken
  /\ pc[r] = "download" /\ file'[r] = staging[Key(r)]
  /\ \/ pc'[r] = "open" /\ staging[Key(r)] # NoFile
     \/ pc'[r] \in {"no such key", "unreadable"}

Opens(r) ==
  /\ stores' = stores /\ file' = file /\ overtaken' = overtaken
  /\ pc[r] = "open" /\ pc'[r] = "commit" /\ version'[r] = Len(log[Table(r)])

Registers(r) ==
  /\ UNCHANGED <<staging, processed, log, file, version, overtaken>>
  /\ pc[r] = "register" /\ pc'[r] = "copy" /\ hms' = hms \union {Table(r)}

Copies(r) ==
  /\ UNCHANGED <<staging, log, hms, file, version, overtaken>>
  /\ pc[r] = "copy" /\ pc'[r] = "delete" /\ staging[Key(r)] # NoFile
  /\ processed' = processed \union {[file |-> staging[Key(r)], by |-> r]}

Deletes(r) ==
  /\ UNCHANGED <<processed, log, hms, file, version, overtaken>>
  /\ pc[r] = "delete" /\ pc'[r] = "report" /\ staging'[Key(r)] = NoFile
  /\ \A k \in Keys \ {Key(r)} : staging'[k] = staging[k]

LEMMA StepCases ==
  ASSUME TypeOK, NEW r \in Runs, RunStep(r)
  PROVE  Quiet(r) \/ Downloads(r) \/ Opens(r) \/ Commit(r) \/ Registers(r) \/ Copies(r)
         \/ Deletes(r)
<1>0. Table(r) \in Tables /\ Key(r) \in Keys
  BY RunTypes
<1>. USE DEF TypeOK, Goto, stores, tale
<1>1. CASE StartRun(r)
  BY <1>1 DEF StartRun, Quiet
<1>2. CASE Validate(r)
  BY <1>2 DEF Validate, Quiet
<1>3. CASE Download(r)
  BY <1>3 DEF Download, Downloads
<1>4. CASE OpenTable(r)
  BY <1>4 DEF OpenTable, Opens, Quiet
<1>6. CASE CheckTable(r)
  BY <1>6 DEF CheckTable, Quiet
<1>7. CASE RegisterTable(r)
  <2>1. CASE Table(r) \in hms
    BY <1>7, <2>1 DEF RegisterTable, Quiet
  <2>2. CASE Table(r) \notin hms
    BY <1>7, <2>2 DEF RegisterTable, Registers
  <2>. QED
    BY <2>1, <2>2
<1>8. CASE CopyObject(r)
  <2>1. CASE staging[Key(r)] = NoFile
    BY <1>8, <2>1 DEF CopyObject, Quiet
  <2>2. CASE staging[Key(r)] # NoFile
    BY <1>8, <2>2 DEF CopyObject, Copies
  <2>. QED
    BY <2>1, <2>2
<1>9. CASE DeleteObject(r)
  BY <1>0, <1>9 DEF DeleteObject, Deletes
<1>10. CASE Report(r)
  BY <1>10 DEF Report, Quiet
<1>11. CASE PodFails(r)
  BY <1>11 DEF PodFails, Quiet
<1>. QED
  BY <1>1, <1>2, <1>3, <1>4, <1>6, <1>7, <1>8, <1>9, <1>10, <1>11 DEF RunStep

LEMMA TypeStep ==
  ASSUME IngestAssumption, TypeOK, Next
  PROVE  TypeOK'
<1>1. ASSUME NEW k \in Keys, NEW f \in Files, Upload(k, f)
      PROVE  TypeOK'
  <2>1. staging' \in [Keys -> Files \union {NoFile}] /\ uploaded' \subseteq Keys \X Files
    BY <1>1 DEF Upload, TypeOK
  <2>2. replaced' \subseteq Files
    BY <1>1 DEF Upload, TypeOK
  <2>3. met' \subseteq [file : Files, by : Runs, moved : BOOLEAN]
    <3>1. \A q \in Runs : [file |-> f, by |-> q, moved |-> pc[q] = "delete"]
                            \in [file : Files, by : Runs, moved : BOOLEAN]
      OBVIOUS
    <3>2. met \subseteq [file : Files, by : Runs, moved : BOOLEAN]
      BY DEF TypeOK
    <3>. QED
      BY <1>1, <3>1, <3>2 DEF Upload
  <2>. QED
    BY <1>1, <2>1, <2>2, <2>3 DEF Upload, TypeOK
<1>2. ASSUME NEW r \in Runs, NEW c \in Confs, Trigger(r, c),
             c.dag = "ingest_csv" => c.table = CsvTable
      PROVE  TypeOK'
  BY <1>2 DEF Trigger, Goto, TypeOK, stores, tale, Running, Midway, Ended, Failures
<1>3. ASSUME NEW r \in Runs, RunStep(r)
      PROVE  TypeOK'
  <2>1. CASE StartRun(r)
    BY <2>1 DEF StartRun, Goto, TypeOK, stores, tale, Running, Midway, Ended, Failures
  <2>2. CASE Validate(r)
    BY <2>2 DEF Validate, Goto, TypeOK, stores, tale, Running, Midway, Ended, Failures
  <2>3. CASE Download(r)
    <3>1. Key(r) \in Keys
      BY DEF TypeOK, Confs, Key
    <3>. QED
      BY <2>3, <3>1 DEF Download, Goto, TypeOK, stores, tale, Running, Midway, Ended, Failures
  <2>4. CASE OpenTable(r)
    <3>1. version' \in [Runs -> Nat]
      <4>1. Len(log[Table(r)]) \in Nat
        BY RunTypes, LogRuns
      <4>. QED
        BY <2>4, <4>1 DEF OpenTable, TypeOK
    <3>2. pc' \in [Runs -> {"idle", "queued"} \union Running \union Ended]
      BY <2>4 DEF OpenTable, Goto, TypeOK, Running, Midway, Ended, Failures
    <3>. QED
      BY <2>4, <3>1, <3>2 DEF OpenTable, TypeOK, stores, tale
  <2>5. CASE Commit(r)
    <3>1. log' \in [Tables -> Seq(Runs)]
      <4>1. Table(r) \in Tables /\ version[r] \in Nat
        BY DEF TypeOK, Confs, Table
      <4>. QED
        BY <2>5, <4>1 DEF Commit, TypeOK
    <3>2. overtaken' \subseteq Runs \X Runs
      <4>1. Table(r) \in Tables /\ version[r] \in Nat
        BY RunTypes
      <4>2. version[r] < Len(log[Table(r)]) => log[Table(r)][version[r] + 1] \in Runs
        BY <4>1, LogRuns
      <4>. QED
        BY <2>5, <4>2 DEF Commit, TypeOK
    <3>3. pc' \in [Runs -> {"idle", "queued"} \union Running \union Ended]
      BY <2>5 DEF Commit, Goto, TypeOK, Running, Midway
    <3>. QED
      BY <2>5, <3>1, <3>2, <3>3 DEF Commit, TypeOK
  <2>6. CASE CheckTable(r)
    BY <2>6 DEF CheckTable, Goto, TypeOK, stores, tale, Running, Midway, Ended, Failures
  <2>7. CASE RegisterTable(r)
    <3>1. Table(r) \in Tables
      BY DEF TypeOK, Confs, Table
    <3>. QED
      BY <2>7, <3>1 DEF RegisterTable, Goto, TypeOK, stores, tale, Running, Midway, Ended, Failures
  <2>8. CASE CopyObject(r)
    <3>1. staging[Key(r)] \in Files \union {NoFile}
      BY DEF TypeOK, Confs, Key
    <3>2. processed' \subseteq [file : Files, by : Runs]
      <4>1. processed \subseteq [file : Files, by : Runs]
        BY DEF TypeOK
      <4>2. CASE staging[Key(r)] = NoFile
        BY <2>8, <4>1, <4>2 DEF CopyObject
      <4>3. CASE staging[Key(r)] # NoFile
        <5>1. processed' = processed \union {[file |-> staging[Key(r)], by |-> r]}
          BY <2>8, <4>3 DEF CopyObject
        <5>. QED
          BY <3>1, <4>1, <4>3, <5>1
      <4>. QED
        BY <4>2, <4>3
    <3>3. pc' \in [Runs -> {"idle", "queued"} \union Running \union Ended]
      BY <2>8 DEF CopyObject, Goto, TypeOK, Running, Midway, Ended, Failures
    <3>. QED
      BY <2>8, <3>2, <3>3 DEF CopyObject, TypeOK, tale
  <2>9. CASE DeleteObject(r)
    BY <2>9 DEF DeleteObject, Goto, TypeOK, stores, tale, Running, Midway, Ended, Failures
  <2>10. CASE Report(r)
    BY <2>10 DEF Report, Goto, TypeOK, stores, tale, Running, Midway, Ended, Failures
  <2>11. CASE PodFails(r)
    <3>1. faults' \in 0..MaxFaults
      <4>1. faults \in 0..MaxFaults
        BY DEF TypeOK
      <4>2. faults < MaxFaults /\ faults' = faults + 1
        BY <2>11 DEF PodFails
      <4>3. MaxFaults \in Nat
        BY DEF IngestAssumption
      <4>. QED
        BY <4>1, <4>2, <4>3
    <3>2. pc' \in [Runs -> {"idle", "queued"} \union Running \union Ended]
      BY <2>11 DEF PodFails, Goto, TypeOK, Ended, Failures
    <3>. QED
      BY <2>11, <3>1, <3>2 DEF PodFails, TypeOK, stores, tale
  <2>. QED
    BY <1>3, <2>1, <2>2, <2>3, <2>4, <2>5, <2>6, <2>7, <2>8, <2>9, <2>10, <2>11 DEF RunStep
<1>. QED
  BY <1>1, <1>2, <1>3, NextCases

LEMMA ConfsStep ==
  ASSUME IngestAssumption, TypeOK, ConfsFit, KeysApart, Next
  PROVE  ConfsFit' /\ KeysApart'
<1>1. ASSUME NEW k \in Keys, NEW f \in Files, Upload(k, f)
      PROVE  ConfsFit' /\ KeysApart'
  BY <1>1 DEF Upload, ConfsFit, KeysApart, CsvRun, Key, Table
<1>2. ASSUME NEW r \in Runs, NEW c \in Confs, Trigger(r, c),
             c.dag = "ingest_csv" => c.table = CsvTable
      PROVE  ConfsFit' /\ KeysApart'
  BY <1>2, TriggerEffect DEF ConfsFit, KeysApart, CsvRun, Key, Table, Midway
<1>3. ASSUME NEW r \in Runs, RunStep(r)
      PROVE  ConfsFit' /\ KeysApart'
  <2>1. conf' = conf /\ pc[r] # "idle" /\ \A s \in Runs \ {r} : pc'[s] = pc[s]
    BY <1>3, StepFrame DEF Running, Midway
  <2>2. pc'[r] \in Midway \union {"download"} =>
          \/ pc[r] \in Midway \union {"download"}
          \/ pc[r] = "validate" /\ ValidInputs(conf[r])
    BY <1>3, StepCases, GotoEffect DEF Quiet, Downloads, Opens, Commit, Registers, Copies, Deletes,
       Midway, Running
  <2>3. ValidInputs(conf[r]) => Key(r) \in IF CsvRun(r) THEN CsvKeys ELSE UploadKeys
    BY DEF ValidInputs, Key, CsvRun
  <2>. QED
    BY <2>1, <2>2, <2>3 DEF ConfsFit, KeysApart, CsvRun, Key, Table
<1>. QED
  BY <1>1, <1>2, <1>3, NextCases

LEMMA UploadsStep ==
  ASSUME IngestAssumption, TypeOK, Uploads, Next
  PROVE  Uploads'
<1>1. ASSUME NEW k \in Keys, NEW f \in Files, Upload(k, f)
      PROVE  Uploads'
  <2>1. /\ uploaded' = uploaded \union {<<k, f>>}
        /\ replaced' = replaced \union ({staging[k]} \ {NoFile})
        /\ staging'[k] = f /\ \A l \in Keys \ {k} : staging'[l] = staging[l]
        /\ \A u \in uploaded : u[2] # f
    BY <1>1, UploadEffect
  <2>2. \A u, v \in uploaded' : u[2] = v[2] => u = v
    BY <2>1 DEF Uploads
  <2>3. \A l \in Keys : staging'[l] # NoFile => <<l, staging'[l]>> \in uploaded'
    BY <2>1 DEF Uploads
  <2>4. ASSUME NEW g \in replaced'
        PROVE  (\E u \in uploaded' : u[2] = g) /\ \A l \in Keys : staging'[l] # g
    <3>1. CASE g \in replaced
      BY <2>1, <3>1 DEF Uploads
    <3>2. CASE g = staging[k] /\ g # NoFile
      <4>1. <<k, g>> \in uploaded
        BY <3>2 DEF Uploads
      <4>2. g # f
        BY <2>1, <4>1
      <4>3. ASSUME NEW l \in Keys \ {k}
            PROVE  staging[l] # g
        BY <3>2, <4>1 DEF Uploads
      <4>. QED
        BY <2>1, <4>1, <4>2, <4>3
    <3>. QED
      BY <2>1, <3>1, <3>2
  <2>. QED
    BY <2>2, <2>3, <2>4 DEF Uploads
<1>2. ASSUME NEW r \in Runs, NEW c \in Confs, Trigger(r, c)
      PROVE  Uploads'
  BY <1>2, TriggerEffect DEF Uploads, stores, tale
<1>3. ASSUME NEW r \in Runs, RunStep(r)
      PROVE  Uploads'
  <2>1. uploaded' = uploaded /\ replaced' = replaced
    BY <1>3, StepFrame
  <2>2. \A k \in Keys : staging'[k] \in {staging[k], NoFile}
    <3>1. staging' = staging \/ Deletes(r)
      BY <1>3, StepCases DEF Quiet, Downloads, Opens, Commit, Registers, Copies, stores
    <3>. QED
      BY <3>1 DEF Deletes
  <2>3. \A f \in replaced : f # NoFile
    BY DEF TypeOK, IngestAssumption
  <2>. QED
    BY <2>1, <2>2, <2>3 DEF Uploads
<1>. QED
  BY <1>1, <1>2, <1>3, NextCases

LEMMA FilesHeldStep ==
  ASSUME IngestAssumption, TypeOK, FilesHeld, Uploads, Next
  PROVE  FilesHeld'
<1>1. ASSUME NEW k \in Keys, NEW f \in Files, Upload(k, f)
      PROVE  FilesHeld'
  <2>. SUFFICES ASSUME NEW s \in Runs
                PROVE  /\ pc[s] \in Midway \union Finished => file[s] # NoFile
                       /\ file[s] # NoFile => pc[s] # "idle" /\ <<Key(s), file[s]>> \in uploaded'
                       /\ pc[s] \in Midway \ {"delete"} =>
                            \/ staging'[Key(s)] \in {file[s], NoFile}
                            \/ [file |-> staging'[Key(s)], by |-> s, moved |-> FALSE] \in met'
    BY <1>1 DEF Upload, FilesHeld, Key, CameBetween
  <2>1. Key(s) \in Keys
    BY RunTypes
  <2>2. /\ staging'[k] = f /\ \A l \in Keys \ {k} : staging'[l] = staging[l]
        /\ uploaded' = uploaded \union {<<k, f>>}
        /\ \A m \in met : m \in met'
        /\ pc[s] \in Midway /\ Key(s) = k
             => [file |-> f, by |-> s, moved |-> pc[s] = "delete"] \in met'
    BY <1>1, UploadEffect
  <2>3. CASE Key(s) = k /\ pc[s] \in Midway \ {"delete"}
    <3>1. (pc[s] = "delete") = FALSE
      BY <2>3
    <3>2. [file |-> f, by |-> s, moved |-> FALSE] \in met'
      BY <2>2, <2>3, <3>1
    <3>. QED
      BY <2>2, <2>3, <3>2 DEF FilesHeld
  <2>4. CASE ~(Key(s) = k /\ pc[s] \in Midway \ {"delete"})
    BY <2>1, <2>2, <2>4 DEF FilesHeld, CameBetween
  <2>. QED
    BY <2>3, <2>4
<1>2. ASSUME NEW r \in Runs, NEW c \in Confs, Trigger(r, c)
      PROVE  FilesHeld'
  BY <1>2, TriggerEffect DEF FilesHeld, CameBetween, Key, stores, tale, Midway, Finished
<1>3. ASSUME NEW r \in Runs, RunStep(r)
      PROVE  FilesHeld'
  <2>1. /\ conf' = conf /\ uploaded' = uploaded /\ met' = met
        /\ \A s \in Runs \ {r} : pc'[s] = pc[s] /\ file'[s] = file[s]
    BY <1>3, StepFrame
  <2>2. pc'[r] # "idle" /\ (Commit(r) => pc[r] = "commit" /\ pc'[r] = "check")
    BY <1>3, StepFrame, GotoEffect DEF Running, Midway, Ended, Failures, Commit
  <2>3. Key(r) \in Keys /\ \A s \in Runs : Key(s) \in Keys
    BY RunTypes
  <2>4. CASE Downloads(r)
    <3>1. staging[Key(r)] # NoFile => <<Key(r), staging[Key(r)]>> \in uploaded
      BY <2>3 DEF Uploads
    <3>. QED
      BY <2>1, <2>4, <2>2, <3>1 DEF Downloads, FilesHeld, CameBetween, Key, stores, Midway, Finished
  <2>5. CASE Deletes(r)
    BY <2>1, <2>3, <2>5, <2>2 DEF Deletes, FilesHeld, CameBetween, Key, Midway, Finished
  <2>6. CASE Quiet(r) \/ Opens(r) \/ Commit(r) \/ Registers(r) \/ Copies(r)
    <3>1. staging' = staging /\ file' = file
      BY <2>6 DEF Quiet, Opens, Commit, Registers, Copies, stores
    <3>2. /\ pc'[r] \in Midway \union Finished => pc[r] \in Midway \union Finished
          /\ pc'[r] \in Midway \ {"delete"} => pc[r] \in Midway \ {"delete"}
      BY <2>6, <2>2 DEF Quiet, Opens, Registers, Copies, Midway, Finished
    <3>. QED
      BY <2>1, <2>2, <3>1, <3>2 DEF FilesHeld, CameBetween, Key
  <2>. QED
    BY <1>3, <2>4, <2>5, <2>6, StepCases
<1>. QED
  BY <1>1, <1>2, <1>3, NextCases

LEMMA DeletesStep ==
  ASSUME IngestAssumption, TypeOK, DeletesFit, Next
  PROVE  DeletesFit'
<1>1. ASSUME NEW k \in Keys, NEW f \in Files, Upload(k, f)
      PROVE  DeletesFit'
  <2>. SUFFICES ASSUME NEW s \in Runs, pc[s] = "delete"
                PROVE  \/ staging'[Key(s)] = NoFile
                       \/ \E p \in processed : p.file = staging'[Key(s)]
                       \/ [file |-> staging'[Key(s)], by |-> s, moved |-> TRUE] \in met'
    BY <1>1 DEF Upload, DeletesFit, Key, CameBetween, Processed
  <2>1. Key(s) \in Keys
    BY RunTypes
  <2>2. /\ staging'[k] = f /\ \A l \in Keys \ {k} : staging'[l] = staging[l]
        /\ \A m \in met : m \in met'
        /\ Key(s) = k => [file |-> f, by |-> s, moved |-> TRUE] \in met'
    <3>1. (pc[s] = "delete") = TRUE /\ pc[s] \in Midway
      BY DEF Midway
    <3>. QED
      BY <1>1, <3>1, UploadEffect
  <2>. QED
    BY <2>1, <2>2 DEF DeletesFit, CameBetween, Processed
<1>2. ASSUME NEW r \in Runs, NEW c \in Confs, Trigger(r, c)
      PROVE  DeletesFit'
  BY <1>2, TriggerEffect DEF DeletesFit, CameBetween, Processed, Key, stores, tale
<1>3. ASSUME NEW r \in Runs, RunStep(r)
      PROVE  DeletesFit'
  <2>1. conf' = conf /\ met' = met /\ \A s \in Runs \ {r} : pc'[s] = pc[s]
    BY <1>3, StepFrame
  <2>2. \A s \in Runs : Key(s) \in Keys
    BY RunTypes
  <2>3. \A p \in processed : p \in processed'
    BY <1>3, StepCases DEF Quiet, Downloads, Opens, Commit, Registers, Copies, Deletes, stores
  <2>4. CASE Copies(r)
    <3>1. /\ staging' = staging /\ [file |-> staging[Key(r)], by |-> r] \in processed'
      BY <2>4 DEF Copies
    <3>2. \E p \in processed' : p.file = staging[Key(r)]
      BY <3>1
    <3>. QED
      BY <2>1, <2>3, <3>1, <3>2 DEF DeletesFit, CameBetween, Processed, Key
  <2>5. CASE Deletes(r)
    BY <2>1, <2>2, <2>5 DEF Deletes, DeletesFit, CameBetween, Processed, Key
  <2>6. CASE Quiet(r) \/ Downloads(r) \/ Opens(r) \/ Commit(r) \/ Registers(r)
    <3>1. Commit(r) => pc'[r] = "check"
      BY GotoEffect DEF Commit
    <3>2. staging' = staging /\ pc'[r] # "delete"
      BY <2>6, <3>1 DEF Quiet, Downloads, Opens, Commit, Registers, stores
    <3>. QED
      BY <2>1, <2>3, <3>2 DEF DeletesFit, CameBetween, Processed, Key
  <2>. QED
    BY <1>3, <2>4, <2>5, <2>6, StepCases
<1>. QED
  BY <1>1, <1>2, <1>3, NextCases

LEMMA OneCsvRunStep ==
  ASSUME IngestAssumption, TypeOK, OneCsvRun, Next
  PROVE  OneCsvRun'
<1>1. ASSUME NEW k \in Keys, NEW f \in Files, Upload(k, f)
      PROVE  OneCsvRun'
  BY <1>1 DEF Upload, OneCsvRun, CsvRun
<1>2. ASSUME NEW r \in Runs, NEW c \in Confs, Trigger(r, c)
      PROVE  OneCsvRun'
  BY <1>2, TriggerEffect DEF OneCsvRun, CsvRun, Running, Midway
<1>3. ASSUME NEW r \in Runs, RunStep(r)
      PROVE  OneCsvRun'
  <2>1. conf' = conf /\ \A s \in Runs \ {r} : pc'[s] = pc[s]
    BY <1>3, StepFrame
  <2>2. CASE StartRun(r)
    <3>1. CsvRun(r) => Active("ingest_csv") = {}
      <4>1. IsFiniteSet(Active("ingest_csv"))
        BY FS_Subset DEF Active, IngestAssumption
      <4>2. CsvRun(r) => Cardinality(Active("ingest_csv")) < 1
        BY <2>2 DEF StartRun, MaxActiveRuns, CsvRun
      <4>3. Cardinality(Active("ingest_csv")) \in Nat
        BY <4>1, FS_CardinalityType
      <4>4. CsvRun(r) => Cardinality(Active("ingest_csv")) = 0
        BY <4>2, <4>3
      <4>. QED
        BY <4>1, <4>4, FS_EmptySet
    <3>2. CsvRun(r) => \A s \in Runs : CsvRun(s) => pc[s] \notin Running
      BY <3>1 DEF Active, CsvRun
    <3>. QED
      BY <2>1, <3>2 DEF OneCsvRun, CsvRun
  <2>3. CASE ~StartRun(r)
    <3>1. pc'[r] \in Running => pc[r] \in Running
      BY <1>3, <2>3, StepFrame
    <3>. QED
      BY <2>1, <3>1 DEF OneCsvRun, CsvRun
  <2>. QED
    BY <2>2, <2>3
<1>. QED
  BY <1>1, <1>2, <1>3, NextCases

LEMMA CsvFileStaysStep ==
  ASSUME IngestAssumption, TypeOK, CsvFileStays, FilesHeld, OneCsvRun, KeysApart, Uploads, Next
  PROVE  CsvFileStays'
<1>1. ASSUME NEW k \in Keys, NEW f \in Files, Upload(k, f)
      PROVE  CsvFileStays'
  <2>1. /\ conf' = conf /\ pc' = pc /\ file' = file /\ processed' = processed
        /\ staging'[k] = f /\ \A l \in Keys \ {k} : staging'[l] = staging[l]
        /\ replaced' = replaced \union ({staging[k]} \ {NoFile})
        /\ \A u \in uploaded : u[2] # f
    BY <1>1, UploadEffect DEF Upload
  <2>2. ASSUME NEW s \in Runs, pc[s] \in Midway \union Finished
        PROVE  file[s] # NoFile /\ file[s] # f /\ Key(s) \in Keys
    BY <2>1, <2>2, RunTypes DEF FilesHeld
  <2>. QED
    BY <2>1, <2>2 DEF CsvFileStays, CsvRun, Key, Processed
<1>2. ASSUME NEW r \in Runs, NEW c \in Confs, Trigger(r, c)
      PROVE  CsvFileStays'
  BY <1>2, TriggerEffect
     DEF CsvFileStays, CsvRun, Key, Processed, stores, tale, Midway, Finished
<1>3. ASSUME NEW r \in Runs, RunStep(r)
      PROVE  CsvFileStays'
  <2>1. /\ conf' = conf /\ replaced' = replaced
        /\ \A s \in Runs \ {r} : pc'[s] = pc[s] /\ file'[s] = file[s]
    BY <1>3, StepFrame
  <2>2. \A p \in processed : p \in processed'
    BY <1>3, StepCases DEF Quiet, Downloads, Opens, Commit, Registers, Copies, Deletes, stores
  <2>3. CASE Deletes(r)
    <3>. SUFFICES ASSUME NEW s \in Runs, CsvRun(s)
                  PROVE  /\ pc'[s] \in Midway => staging'[Key(s)] = file[s] \/ file[s] \in replaced
                         /\ pc'[s] \in Finished => \A k \in Keys : staging'[k] # file[s]
                         /\ pc'[s] \in Finished \union {"delete"}
                              => Processed(file[s]) \/ file[s] \in replaced
      BY <2>1, <2>3 DEF Deletes, CsvFileStays, CsvRun, Key, Processed
    <3>1. /\ pc[r] = "delete" /\ pc'[r] = "report" /\ staging'[Key(r)] = NoFile
          /\ \A k \in Keys \ {Key(r)} : staging'[k] = staging[k]
          /\ Key(r) \in Keys /\ Key(s) \in Keys
      BY <2>3, RunTypes DEF Deletes
    <3>2. pc[s] \in Midway \union Finished => file[s] # NoFile /\ <<Key(s), file[s]>> \in uploaded
      BY DEF FilesHeld
    <3>3. CASE s = r
      <4>1. file[r] # NoFile /\ <<Key(r), file[r]>> \in uploaded
        BY <3>1, <3>2, <3>3 DEF Midway
      <4>2. ASSUME NEW k \in Keys, staging[k] = file[r]
            PROVE  k = Key(r)
        BY <4>1, <4>2 DEF Uploads
      <4>3. \A k \in Keys : staging'[k] # file[r]
        BY <3>1, <4>1, <4>2
      <4>4. Processed(file[r]) \/ file[r] \in replaced
        BY <3>1, <3>3 DEF CsvFileStays
      <4>. QED
        BY <3>1, <3>3, <4>3, <4>4 DEF Midway
    <3>4. CASE s # r /\ pc[s] \in Midway
      <4>1. ~CsvRun(r)
        BY <3>1, <3>4 DEF OneCsvRun, Midway, Running
      <4>2. Key(r) # Key(s)
        BY <3>1, <3>4, <4>1 DEF KeysApart, Midway, IngestAssumption
      <4>. QED
        BY <2>1, <3>1, <3>4, <4>2 DEF CsvFileStays, Midway, Finished
    <3>5. CASE s # r /\ pc[s] \in Finished
      BY <2>1, <3>1, <3>2, <3>5 DEF CsvFileStays, Midway, Finished
    <3>6. CASE s # r /\ pc[s] \notin Midway \union Finished
      BY <2>1, <3>6 DEF Midway, Finished
    <3>. QED
      BY <3>3, <3>4, <3>5, <3>6
  <2>4. CASE Copies(r)
    <3>1. /\ staging' = staging /\ file' = file /\ pc[r] = "copy" /\ pc'[r] = "delete"
          /\ [file |-> staging[Key(r)], by |-> r] \in processed'
      BY <2>4 DEF Copies
    <3>2. CsvRun(r) => Processed(file[r])' \/ file[r] \in replaced
      BY <3>1 DEF CsvFileStays, Midway, Processed
    <3>. QED
      BY <2>1, <2>2, <3>1, <3>2 DEF CsvFileStays, CsvRun, Key, Processed, Midway, Finished
  <2>5. CASE Downloads(r)
    <3>1. staging' = staging /\ file'[r] = staging[Key(r)] /\ pc'[r] \notin Finished \union {"delete"}
      BY <2>5 DEF Downloads, stores, Finished
    <3>. QED
      BY <2>1, <2>2, <3>1 DEF CsvFileStays, CsvRun, Key, Processed
  <2>6. CASE Quiet(r) \/ Opens(r) \/ Commit(r) \/ Registers(r)
    <3>1. staging' = staging /\ file' = file
      BY <2>6 DEF Quiet, Opens, Commit, Registers, stores
    <3>2. Commit(r) => pc[r] = "commit" /\ pc'[r] = "check"
      BY GotoEffect DEF Commit
    <3>3. /\ pc'[r] \in Midway => pc[r] \in Midway
          /\ pc'[r] \in Finished \union {"delete"} => pc[r] = "report"
      BY <2>6, <3>2 DEF Quiet, Opens, Registers, Midway, Finished
    <3>. QED
      BY <2>1, <2>2, <3>1, <3>3 DEF CsvFileStays, CsvRun, Key, Processed, Finished
  <2>. QED
    BY <1>3, <2>3, <2>4, <2>5, <2>6, StepCases
<1>. QED
  BY <1>1, <1>2, <1>3, NextCases

LEMMA OneLoadStep ==
  ASSUME IngestAssumption, TypeOK, OneLoad, OneCsvRun, CsvFileStays, Uploads, Next
  PROVE  OneLoad'
<1>1. ASSUME NEW k \in Keys, NEW f \in Files, Upload(k, f)
      PROVE  OneLoad'
  BY <1>1 DEF Upload, OneLoad, Holds, CsvRun
<1>2. ASSUME NEW r \in Runs, NEW c \in Confs, Trigger(r, c)
      PROVE  OneLoad'
  BY <1>2, TriggerEffect DEF OneLoad, Holds, CsvRun, Midway, Finished
<1>3. ASSUME NEW r \in Runs, RunStep(r)
      PROVE  OneLoad'
  <2>1. conf' = conf /\ \A s \in Runs \ {r} : pc'[s] = pc[s] /\ file'[s] = file[s]
    BY <1>3, StepFrame
  <2>2. CASE Downloads(r)
    <3>1. Key(r) \in Keys /\ pc[r] \in Running /\ file'[r] = staging[Key(r)]
          /\ (pc'[r] \in Midway \union Finished => staging[Key(r)] # NoFile)
      BY <2>2, RunTypes DEF Downloads, Running, Midway, Finished
    <3>2. ASSUME NEW s \in Runs \ {r}, CsvRun(r), CsvRun(s), pc[s] \in Midway \union Finished
          PROVE  file[s] # staging[Key(r)]
      <4>1. pc[s] \notin Midway
        BY <3>1, <3>2 DEF OneCsvRun, Running
      <4>. QED
        BY <3>1, <3>2, <4>1 DEF CsvFileStays
    <3>. QED
      BY <2>1, <3>1, <3>2 DEF OneLoad, Holds, CsvRun
  <2>3. CASE ~Downloads(r)
    <3>1. Commit(r) => pc[r] = "commit" /\ pc'[r] = "check"
      BY GotoEffect DEF Commit
    <3>2. file' = file /\ (pc'[r] \in Midway \union Finished => pc[r] \in Midway \union Finished)
      BY <1>3, <2>3, <3>1, StepCases
         DEF Quiet, Opens, Commit, Registers, Copies, Deletes, stores, Midway, Finished
    <3>. QED
      BY <2>1, <3>2 DEF OneLoad, Holds, CsvRun
  <2>. QED
    BY <2>2, <2>3
<1>. QED
  BY <1>1, <1>2, <1>3, NextCases

\* A commit puts r at the version after the one it worked from, and every other
\* commit stays where it is.
LEMMA CommitEffect ==
  ASSUME TypeOK, VersionsFit, NEW r \in Runs, Commit(r)
  PROVE  LET t == Table(r)  v == version[r] IN
         /\ \A u \in Tables \ {t} : log'[u] = log[u]
         /\ Len(log'[t]) \in Nat /\ Len(log[t]) <= Len(log'[t]) /\ v < Len(log'[t])
         /\ DOMAIN log'[t] = 1..Len(log'[t]) /\ log'[t][v + 1] = r
         /\ \A i \in 1..Len(log'[t]) : i # v + 1 => i \in 1..Len(log[t]) /\ log'[t][i] = log[t][i]
         /\ overtaken' = overtaken \union
              (IF v + 1 \in 1..Len(log[t]) THEN {<<log[t][v + 1], r>>} ELSE {})
         /\ pc[r] = "commit" /\ pc'[r] = "check"
         /\ UNCHANGED <<staging, processed, hms, file, version>>
<1>. DEFINE t == Table(r)
            v == version[r]
            L == log[t]
<1>1. t \in Tables /\ v \in Nat /\ L \in Seq(Runs) /\ Len(L) \in Nat
  BY RunTypes, LogRuns
<1>2. v <= Len(L)
  BY DEF Commit, VersionsFit
<1>3. log' = [log EXCEPT ![t] = IF v < Len(L) THEN [L EXCEPT ![v + 1] = r] ELSE Append(L, r)]
  BY DEF Commit
<1>4. log \in [Tables -> Seq(Runs)]
  BY DEF TypeOK
<1>5. \A u \in Tables \ {t} : log'[u] = log[u]
  BY <1>3, <1>4
<1>6. v < Len(L) <=> v + 1 \in 1..Len(L)
  BY <1>1
<1>7. /\ overtaken' = overtaken \union (IF v + 1 \in 1..Len(L) THEN {<<L[v + 1], r>>} ELSE {})
      /\ UNCHANGED <<staging, processed, hms, file, version>>
  BY <1>6 DEF Commit
<1>8. pc[r] = "commit" /\ pc'[r] = "check"
  BY GotoEffect DEF Commit
<1>9. CASE v < Len(L)
  <2>1. log'[t] = [L EXCEPT ![v + 1] = r]
    BY <1>1, <1>3, <1>4, <1>9
  <2>2. Len(log'[t]) = Len(L) /\ DOMAIN log'[t] = 1..Len(L) /\ v + 1 \in 1..Len(L)
    BY <1>1, <1>9, <2>1
  <2>3. log'[t][v + 1] = r /\ \A i \in 1..Len(L) : i # v + 1 => log'[t][i] = L[i]
    BY <1>1, <2>1, <2>2
  <2>. QED
    BY <1>1, <1>5, <1>7, <1>8, <1>9, <2>2, <2>3
<1>10. CASE v = Len(L)
  <2>1. log'[t] = Append(L, r)
    BY <1>1, <1>3, <1>4, <1>10
  <2>2. /\ Len(log'[t]) = Len(L) + 1 /\ DOMAIN log'[t] = 1..Len(log'[t]) /\ log'[t][v + 1] = r
        /\ \A i \in 1..Len(L) : log'[t][i] = L[i]
    BY <1>1, <1>10, <2>1
  <2>. QED
    BY <1>1, <1>5, <1>7, <1>8, <1>10, <2>2
<1>. QED
  BY <1>1, <1>2, <1>9, <1>10

\* A run that is past its commit stays past it.
LEMMA PastStays ==
  ASSUME IngestAssumption, TypeOK, Next, NEW r \in Runs, pc[r] \in Past
  PROVE  pc'[r] \in Past /\ conf'[r] = conf[r] /\ version'[r] = version[r]
<1>1. pc[r] \notin {"idle", "queued", "validate", "download", "open", "commit"}
  BY DEF Past, Written, Failures
<1>2. ASSUME NEW k \in Keys, NEW f \in Files, Upload(k, f)
      PROVE  pc'[r] \in Past /\ conf'[r] = conf[r] /\ version'[r] = version[r]
  BY <1>2 DEF Upload
<1>3. ASSUME NEW q \in Runs, NEW c \in Confs, Trigger(q, c)
      PROVE  pc'[r] \in Past /\ conf'[r] = conf[r] /\ version'[r] = version[r]
  BY <1>1, <1>3, TriggerEffect
<1>4. ASSUME NEW q \in Runs, RunStep(q)
      PROVE  pc'[r] \in Past /\ conf'[r] = conf[r] /\ version'[r] = version[r]
  <2>1. conf' = conf /\ (q # r => pc'[r] = pc[r] /\ version'[r] = version[r])
    BY <1>4, StepFrame
  <2>2. Commit(q) => pc[q] = "commit"
    BY DEF Commit
  <2>3. q = r => pc'[r] \in Past /\ version'[r] = version[r]
    BY <1>1, <1>4, <2>2, StepCases
       DEF Quiet, Downloads, Opens, Registers, Copies, Deletes, Past, Written, Failures
  <2>. QED
    BY <2>1, <2>3
<1>. QED
  BY <1>2, <1>3, <1>4, NextCases

LEMMA VersionsStep ==
  ASSUME IngestAssumption, TypeOK, VersionsFit, Next
  PROVE  VersionsFit'
<1>1. ASSUME NEW k \in Keys, NEW f \in Files, Upload(k, f)
      PROVE  VersionsFit'
  BY <1>1 DEF Upload, VersionsFit, Table
<1>2. ASSUME NEW r \in Runs, NEW c \in Confs, Trigger(r, c)
      PROVE  VersionsFit'
  BY <1>2, TriggerEffect DEF VersionsFit, Table, stores
<1>3. ASSUME NEW r \in Runs, RunStep(r)
      PROVE  VersionsFit'
  <2>1. conf' = conf /\ \A s \in Runs \ {r} : pc'[s] = pc[s] /\ version'[s] = version[s]
    BY <1>3, StepFrame
  <2>2. \A s \in Runs : Table(s) \in Tables /\ version[s] \in Nat /\ Len(log[Table(s)]) \in Nat
    BY RunTypes, LogRuns
  <2>3. CASE Commit(r)
    <3>1. \A s \in Runs : /\ Len(log'[Table(s)]) \in Nat
                          /\ Len(log[Table(s)]) <= Len(log'[Table(s)])
      BY <2>2, <2>3, CommitEffect
    <3>2. pc'[r] = "check"
      BY <2>3, CommitEffect
    <3>. QED
      BY <2>1, <2>2, <3>1, <3>2 DEF VersionsFit, Table
  <2>4. CASE Opens(r)
    BY <2>1, <2>2, <2>4 DEF Opens, VersionsFit, Table, stores
  <2>5. CASE Quiet(r) \/ Downloads(r) \/ Registers(r) \/ Copies(r) \/ Deletes(r)
    <3>1. log' = log /\ pc'[r] # "commit"
      BY <2>5 DEF Quiet, Downloads, Registers, Copies, Deletes, stores
    <3>. QED
      BY <2>1, <3>1 DEF VersionsFit, Table
  <2>. QED
    BY <1>3, <2>3, <2>4, <2>5, StepCases
<1>. QED
  BY <1>1, <1>2, <1>3, NextCases

\* Only a commit changes a log.
LEMMA LogStays ==
  ASSUME IngestAssumption, TypeOK, Next, \A r \in Runs : ~Commit(r)
  PROVE  log' = log /\ overtaken' = overtaken
<1>1. ASSUME NEW k \in Keys, NEW f \in Files, Upload(k, f)
      PROVE  log' = log /\ overtaken' = overtaken
  BY <1>1 DEF Upload
<1>2. ASSUME NEW r \in Runs, NEW c \in Confs, Trigger(r, c)
      PROVE  log' = log /\ overtaken' = overtaken
  BY <1>2 DEF Trigger, stores, tale
<1>3. ASSUME NEW r \in Runs, RunStep(r)
      PROVE  log' = log /\ overtaken' = overtaken
  BY <1>3, StepCases DEF Quiet, Downloads, Opens, Registers, Copies, Deletes, stores
<1>. QED
  BY <1>1, <1>2, <1>3, NextCases

LEMMA CommitsStep ==
  ASSUME IngestAssumption, TypeOK, VersionsFit, CommitsFit, Next
  PROVE  CommitsFit'
<1>1. \A s \in Runs : pc[s] \in Past => pc'[s] \in Past /\ conf'[s] = conf[s]
  BY PastStays
<1>2. \A t \in Tables : \A i \in 1..Len(log[t]) : log[t][i] \in Runs
  BY LogRuns
<1>3. \A o \in overtaken : o[1] \in Runs /\ o[2] \in Runs
  BY DEF TypeOK
<1>4. CASE \A r \in Runs : ~Commit(r)
  BY <1>1, <1>2, <1>3, <1>4, LogStays DEF CommitsFit, Table
<1>5. ASSUME NEW r \in Runs, Commit(r)
      PROVE  CommitsFit'
  <2>. DEFINE t == Table(r)
              v == version[r]
  <2>1. t \in Tables /\ v \in Nat /\ Len(log[t]) \in Nat
    BY RunTypes, LogRuns
  <2>2. /\ \A u \in Tables \ {t} : log'[u] = log[u]
        /\ log'[t][v + 1] = r
        /\ \A i \in 1..Len(log'[t]) : i # v + 1 => i \in 1..Len(log[t]) /\ log'[t][i] = log[t][i]
        /\ overtaken' = overtaken \union
             (IF v + 1 \in 1..Len(log[t]) THEN {<<log[t][v + 1], r>>} ELSE {})
        /\ pc'[r] = "check"
    BY <1>5, CommitEffect
  <2>3. conf'[r].table = t /\ pc'[r] \in Past
    BY <1>5, <2>2 DEF Commit, Table, Past, Written
  <2>4. ASSUME NEW u \in Tables, NEW i \in 1..Len(log'[u])
        PROVE  conf'[log'[u][i]].table = u /\ pc'[log'[u][i]] \in Past
    <3>1. CASE u # t
      BY <1>1, <1>2, <2>2, <2>4, <3>1 DEF CommitsFit, Table
    <3>2. CASE u = t /\ i = v + 1
      BY <2>2, <2>3, <3>2
    <3>3. CASE u = t /\ i # v + 1
      <4>1. i \in 1..Len(log[t]) /\ log'[t][i] = log[t][i]
        BY <2>2, <2>4, <3>3
      <4>2. log[t][i] \in Runs /\ conf[log[t][i]].table = t
            /\ pc[log[t][i]] \in Past
        BY <1>2, <2>1, <4>1 DEF CommitsFit, Table
      <4>. QED
        BY <1>1, <3>3, <4>1, <4>2
    <3>. QED
      BY <3>1, <3>2, <3>3
  <2>5. ASSUME NEW o \in overtaken'
        PROVE  pc'[o[1]] \in Past /\ pc'[o[2]] \in Past
    <3>1. CASE o \in overtaken
      BY <1>1, <1>3, <3>1 DEF CommitsFit
    <3>2. CASE v + 1 \in 1..Len(log[t]) /\ o = <<log[t][v + 1], r>>
      <4>1. log[t][v + 1] \in Runs /\ pc[log[t][v + 1]] \in Past
        BY <1>2, <2>1, <3>2 DEF CommitsFit
      <4>. QED
        BY <1>1, <2>3, <3>2, <4>1
    <3>. QED
      BY <2>2, <3>1, <3>2
  <2>. QED
    BY <2>4, <2>5 DEF CommitsFit, Table
<1>. QED
  BY <1>4, <1>5

\* What a run wrote stays written: a commit that replaces it is another run's,
\* and if it wrote for the source, a conversion's.
LEMMA WroteStays ==
  ASSUME IngestAssumption, TypeOK, VersionsFit, CommitsFit, ConfsFit, CsvTableStays, Next,
         NEW q \in Runs, pc[q] \in Past, Wrote(q)
  PROVE  Wrote(q)'
<1>1. \A s \in Runs : pc[s] \in Past => /\ Table(s)' = Table(s) /\ (CsvRun(s)' <=> CsvRun(s))
  BY PastStays DEF Table, CsvRun
<1>2. ASSUME NEW s \in Runs, <<q, s>> \in overtaken, <<q, s>> \in overtaken', ~(CsvRun(q) /\ CsvRun(s))
      PROVE  Wrote(q)'
  <2>1. pc[s] \in Past
    BY <1>2 DEF CommitsFit
  <2>2. ~(CsvRun(q)' /\ CsvRun(s)')
    BY <1>1, <1>2, <2>1
  <2>. QED
    BY <1>2, <2>2 DEF Wrote
<1>3. CASE \A r \in Runs : ~Commit(r)
  <2>1. log' = log /\ overtaken' = overtaken
    BY <1>3, LogStays
  <2>2. Committed(q) => Committed(q)'
    BY <1>1, <2>1 DEF Committed
  <2>. QED
    BY <1>2, <2>1, <2>2 DEF Wrote
<1>4. ASSUME NEW r \in Runs, Commit(r)
      PROVE  Wrote(q)'
  <2>. DEFINE t == Table(r)
              v == version[r]
  <2>1. t \in Tables /\ v \in Nat /\ Len(log[t]) \in Nat /\ Table(q) \in Tables
        /\ Len(log[Table(q)]) \in Nat /\ DOMAIN log[Table(q)] = 1..Len(log[Table(q)])
    BY RunTypes, LogRuns
  <2>2. /\ \A u \in Tables \ {t} : log'[u] = log[u]
        /\ Len(log'[t]) \in Nat /\ Len(log[t]) <= Len(log'[t])
        /\ DOMAIN log'[t] = 1..Len(log'[t])
        /\ \A i \in 1..Len(log'[t]) : i # v + 1 => log'[t][i] = log[t][i]
        /\ overtaken' = overtaken \union
             (IF v + 1 \in 1..Len(log[t]) THEN {<<log[t][v + 1], r>>} ELSE {})
        /\ pc[r] = "commit"
    BY <1>4, CommitEffect
  <2>3. conf' = conf /\ \A s \in Runs : Table(s)' = Table(s) /\ (CsvRun(s)' <=> CsvRun(s))
    BY <1>4 DEF Commit, Table, CsvRun
  <2>4. CASE \E s \in Runs : <<q, s>> \in overtaken /\ ~(CsvRun(q) /\ CsvRun(s))
    BY <1>2, <2>2, <2>4
  <2>5. ASSUME NEW i \in DOMAIN log[Table(q)], log[Table(q)][i] = q
        PROVE  Wrote(q)'
    <3>1. CASE Table(q) # t
      <4>1. log'[Table(q)] = log[Table(q)]
        BY <2>1, <2>2, <3>1
      <4>2. Committed(q)'
        BY <2>3, <2>5, <4>1 DEF Committed
      <4>. QED
        BY <4>2 DEF Wrote
    <3>2. CASE Table(q) = t /\ i # v + 1
      <4>1. i \in DOMAIN log'[t] /\ log'[t][i] = q
        BY <2>1, <2>2, <2>5, <3>2
      <4>2. Committed(q)'
        BY <2>3, <3>2, <4>1 DEF Committed
      <4>. QED
        BY <4>2 DEF Wrote
    <3>3. CASE Table(q) = t /\ i = v + 1
      <4>1. v + 1 \in 1..Len(log[t]) /\ log[t][v + 1] = q
        BY <2>1, <2>5, <3>3
      <4>2. <<q, r>> \in overtaken'
        BY <2>2, <4>1
      <4>3. ~(CsvRun(q) /\ CsvRun(r))
        <5>1. SUFFICES ASSUME CsvRun(q), CsvRun(r)
                       PROVE  FALSE
          OBVIOUS
        <5>2. t = CsvTable
          BY <2>2, <5>1 DEF ConfsFit
        <5>3. ~CsvRun(log[CsvTable][v + 1])
          BY <2>1, <2>2, <4>1, <5>1, <5>2 DEF CsvTableStays
        <5>. QED
          BY <4>1, <5>1, <5>2, <5>3
      <4>. QED
        BY <2>3, <4>2, <4>3 DEF Wrote
    <3>. QED
      BY <3>1, <3>2, <3>3
  <2>6. CASE Committed(q)
    BY <2>5, <2>6 DEF Committed
  <2>. QED
    BY <2>4, <2>6 DEF Wrote
<1>. QED
  BY <1>3, <1>4

LEMMA WritesStep ==
  ASSUME IngestAssumption, TypeOK, VersionsFit, CommitsFit, ConfsFit, CsvTableStays, WritesCount,
         Next
  PROVE  WritesCount'
<1>. SUFFICES ASSUME NEW q \in Runs, pc'[q] \in Written
              PROVE  Wrote(q)'
  BY DEF WritesCount
<1>1. CASE pc[q] \in Written
  BY <1>1, WroteStays DEF WritesCount, Past
<1>2. CASE Commit(q)
  <2>1. /\ log'[Table(q)][version[q] + 1] = q /\ DOMAIN log'[Table(q)] = 1..Len(log'[Table(q)])
        /\ version[q] < Len(log'[Table(q)]) /\ Len(log'[Table(q)]) \in Nat
        /\ version[q] \in Nat
    BY <1>2, CommitEffect, RunTypes
  <2>2. version[q] + 1 \in DOMAIN log'[Table(q)]
    BY <2>1
  <2>3. Table(q)' = Table(q)
    BY <1>2 DEF Commit, Table
  <2>4. Committed(q)'
    BY <2>1, <2>2, <2>3 DEF Committed
  <2>. QED
    BY <2>4 DEF Wrote
<1>3. CASE pc[q] \notin Written /\ ~Commit(q)
  <2>1. ASSUME NEW k \in Keys, NEW f \in Files, Upload(k, f)
        PROVE  FALSE
    BY <1>3, <2>1 DEF Upload
  <2>2. ASSUME NEW r \in Runs, NEW c \in Confs, Trigger(r, c)
        PROVE  FALSE
    BY <1>3, <2>2, TriggerEffect DEF Written
  <2>3. ASSUME NEW r \in Runs, RunStep(r)
        PROVE  FALSE
    <3>1. r = q
      BY <1>3, <2>3, StepFrame
    <3>. QED
      BY <1>3, <2>3, <3>1, StepCases
         DEF Quiet, Downloads, Opens, Registers, Copies, Deletes, Written
  <2>. QED
    BY <2>1, <2>2, <2>3, NextCases
<1>. QED
  BY <1>1, <1>2, <1>3

LEMMA CsvTableStaysStep ==
  ASSUME IngestAssumption, TypeOK, VersionsFit, CommitsFit, ConfsFit, OneCsvRun, CsvTableStays,
         Next
  PROVE  CsvTableStays'
<1>1. CsvTable \in Tables /\ \A i \in 1..Len(log[CsvTable]) :
        log[CsvTable][i] \in Runs /\ pc[log[CsvTable][i]] \in Past
  BY LogRuns DEF CommitsFit, Tables
<1>2. ASSUME NEW k \in Keys, NEW f \in Files, Upload(k, f)
      PROVE  CsvTableStays'
  BY <1>2 DEF Upload, CsvTableStays, CsvRun
<1>3. ASSUME NEW r \in Runs, NEW c \in Confs, Trigger(r, c)
      PROVE  CsvTableStays'
  <2>1. pc[r] \notin Past
    BY <1>3, TriggerEffect DEF Past, Written, Failures
  <2>2. \A i \in 1..Len(log[CsvTable]) : log[CsvTable][i] # r
    BY <1>1, <2>1
  <2>. QED
    BY <1>1, <1>3, <2>2, TriggerEffect DEF CsvTableStays, CsvRun, stores
<1>4. ASSUME NEW r \in Runs, RunStep(r)
      PROVE  CsvTableStays'
  <2>1. conf' = conf /\ \A s \in Runs \ {r} : pc'[s] = pc[s] /\ version'[s] = version[s]
    BY <1>4, StepFrame
  <2>2. CASE Opens(r)
    <3>1. CsvRun(r) => Table(r) = CsvTable
      BY <2>2 DEF Opens, ConfsFit
    <3>2. Len(log[CsvTable]) \in Nat
      BY <1>1, LogRuns
    <3>. QED
      BY <2>1, <2>2, <3>1, <3>2 DEF Opens, CsvTableStays, CsvRun, stores
  <2>3. CASE Commit(r)
    <3>. SUFFICES ASSUME NEW s \in Runs, CsvRun(s), pc'[s] = "commit",
                         NEW i \in 1..Len(log'[CsvTable]), version'[s] < i
                  PROVE  ~CsvRun(log'[CsvTable][i])
      BY <2>1 DEF CsvTableStays, CsvRun
    <3>1. /\ pc[r] = "commit" /\ pc'[r] = "check"
          /\ \A u \in Tables \ {Table(r)} : log'[u] = log[u]
          /\ log'[Table(r)][version[r] + 1] = r
          /\ \A j \in 1..Len(log'[Table(r)]) : j # version[r] + 1 =>
               j \in 1..Len(log[Table(r)]) /\ log'[Table(r)][j] = log[Table(r)][j]
      BY <2>3, CommitEffect
    <3>2. s # r /\ pc[s] = "commit" /\ version'[s] = version[s]
      BY <2>1, <3>1
    <3>3. ~CsvRun(r)
      BY <3>1, <3>2 DEF OneCsvRun, Running, Midway
    <3>4. log'[CsvTable][i] = r \/ (i \in 1..Len(log[CsvTable])
                                    /\ log'[CsvTable][i] = log[CsvTable][i])
      BY <1>1, <3>1
    <3>. QED
      BY <3>2, <3>3, <3>4 DEF CsvTableStays
  <2>4. CASE Quiet(r) \/ Downloads(r) \/ Registers(r) \/ Copies(r) \/ Deletes(r)
    <3>1. log' = log /\ pc'[r] # "commit"
      BY <2>4 DEF Quiet, Downloads, Registers, Copies, Deletes, stores
    <3>. QED
      BY <2>1, <3>1 DEF CsvTableStays, CsvRun
  <2>. QED
    BY <1>4, <2>2, <2>3, <2>4, StepCases
<1>. QED
  BY <1>2, <1>3, <1>4, NextCases

LEMMA RegistrationStep ==
  ASSUME IngestAssumption, TypeOK, ConfsFit, OneCsvRun, Registration, Next
  PROVE  Registration'
<1>1. Meddled => Meddled'
  BY PastStays DEF Meddled, CsvRun, Table
<1>2. ASSUME NEW k \in Keys, NEW f \in Files, Upload(k, f)
      PROVE  Registration'
  BY <1>1, <1>2 DEF Upload, Registration, CsvRun, Table
<1>3. ASSUME NEW r \in Runs, NEW c \in Confs, Trigger(r, c)
      PROVE  Registration'
  BY <1>1, <1>3, TriggerEffect DEF Registration, CsvRun, Table, stores, Stored
<1>4. ASSUME NEW r \in Runs, RunStep(r)
      PROVE  Registration'
  <2>1. conf' = conf /\ \A s \in Runs \ {r} : pc'[s] = pc[s]
    BY <1>4, StepFrame
  <2>2. CASE Registers(r)
    <3>1. /\ pc[r] = "register" /\ pc'[r] = "copy" /\ hms' = hms \union {Table(r)}
      BY <2>2 DEF Registers
    <3>2. ASSUME NEW s \in Runs, CsvRun(s), pc'[s] = "register"
          PROVE  CsvTable \notin hms' \/ Meddled'
      <4>1. s # r /\ pc[s] = "register"
        BY <2>1, <3>1, <3>2
      <4>2. ~CsvRun(r)
        BY <3>1, <3>2, <4>1 DEF OneCsvRun, Running, Midway
      <4>3. Table(r) = CsvTable => Meddled'
        BY <2>1, <3>1, <4>2 DEF Meddled, CsvRun, Table, Past, Written
      <4>. QED
        BY <1>1, <3>1, <3>2, <4>1, <4>3 DEF Registration
    <3>. QED
      BY <1>1, <2>1, <3>1, <3>2 DEF Registration, CsvRun, Table, Stored
  <2>3. CASE ~Registers(r)
    <3>1. Commit(r) => pc[r] = "commit" /\ pc'[r] = "check"
      BY GotoEffect DEF Commit
    <3>2. /\ hms' = hms
          /\ pc'[r] \in Stored => Table(r) \in hms \/ pc[r] \in Stored
          /\ pc'[r] = "register" => Table(r) \notin hms
          /\ pc'[r] = "table exists" => Table(r) \in hms /\ pc[r] = "register"
      BY <1>4, <2>3, <3>1, StepCases
         DEF Quiet, Downloads, Opens, Commit, Copies, Deletes, stores, Stored
    <3>3. CsvRun(r) => Table(r) = CsvTable
      BY <1>4, StepFrame DEF ConfsFit, Running, Midway
    <3>. QED
      BY <1>1, <2>1, <3>2, <3>3 DEF Registration, CsvRun, Table
  <2>. QED
    BY <2>2, <2>3
<1>. QED
  BY <1>2, <1>3, <1>4, NextCases

LEMMA ProcessedStep ==
  ASSUME IngestAssumption, TypeOK, FilesHeld, VersionsFit, CommitsFit, ConfsFit, CsvTableStays,
         Registration, WritesCount, ProcessedIsSound, Next
  PROVE  ProcessedIsSound'
<1>1. /\ \A q \in Runs : pc[q] \in Past => pc'[q] \in Past /\ Table(q)' = Table(q)
      /\ \A q \in Runs : pc[q] \in Past /\ Wrote(q) => Wrote(q)'
  BY PastStays, WroteStays DEF Table
<1>2. /\ \A q \in Runs : pc[q] \in Past => file'[q] = file[q]
      /\ \A t \in hms : t \in hms'
      /\ \A m \in met : m \in met'
  <2>1. ASSUME NEW k \in Keys, NEW f \in Files, Upload(k, f)
        PROVE  file' = file /\ hms' = hms /\ \A m \in met : m \in met'
    BY <2>1 DEF Upload
  <2>2. ASSUME NEW r \in Runs, NEW c \in Confs, Trigger(r, c)
        PROVE  file' = file /\ hms' = hms /\ met' = met
    BY <2>2 DEF Trigger, stores, tale
  <2>3. ASSUME NEW r \in Runs, RunStep(r)
        PROVE  /\ \A q \in Runs : pc[q] \in Past => file'[q] = file[q]
               /\ \A t \in hms : t \in hms'
               /\ met' = met
    <3>1. met' = met /\ \A q \in Runs \ {r} : file'[q] = file[q]
      BY <2>3, StepFrame
    <3>2. /\ pc[r] \in Past => file'[r] = file[r]
          /\ \A t \in hms : t \in hms'
      BY <2>3, StepCases DEF Quiet, Downloads, Opens, Commit, Registers, Copies, Deletes, stores,
         Past, Written, Failures
    <3>. QED
      BY <3>1, <3>2
  <2>. QED
    BY <2>1, <2>2, <2>3, NextCases
<1>3. \A p \in processed : p.by \in Runs
  BY DEF TypeOK
<1>4. ASSUME NEW p \in processed
      PROVE  \/ /\ file'[p.by] = p.file /\ pc'[p.by] \in Past
                /\ Wrote(p.by)' /\ Table(p.by)' \in hms'
             \/ [file |-> p.file, by |-> p.by, moved |-> FALSE] \in met'
  BY <1>1, <1>2, <1>3 DEF ProcessedIsSound, CameBetween
<1>5. CASE processed' = processed
  BY <1>4, <1>5 DEF ProcessedIsSound, CameBetween
<1>6. ASSUME NEW r \in Runs, Copies(r), RunStep(r)
      PROVE  ProcessedIsSound'
  <2>. DEFINE new == [file |-> staging[Key(r)], by |-> r]
  <2>1. processed' = processed \union {new} /\ pc[r] = "copy" /\ staging[Key(r)] # NoFile
    BY <1>6 DEF Copies
  <2>2. staging[Key(r)] = file[r] \/ [file |-> staging[Key(r)], by |-> r, moved |-> FALSE] \in met
    BY <2>1 DEF FilesHeld, Midway, CameBetween
  <2>3. pc[r] \in Past /\ Wrote(r) /\ Table(r) \in hms
    BY <2>1 DEF WritesCount, Registration, Past, Written, Stored
  <2>4. /\ file'[r] = file[r] /\ pc'[r] \in Past /\ Wrote(r)' /\ Table(r)' \in hms'
        /\ \A m \in met : m \in met'
    BY <1>1, <1>2, <2>3
  <2>5. ASSUME NEW p \in processed'
        PROVE  \/ /\ file'[p.by] = p.file /\ pc'[p.by] \in Past
                  /\ Wrote(p.by)' /\ Table(p.by)' \in hms'
               \/ [file |-> p.file, by |-> p.by, moved |-> FALSE] \in met'
    <3>1. CASE p \in processed
      BY <1>4, <3>1
    <3>2. CASE p = new
      <4>1. p.by = r /\ p.file = staging[Key(r)]
        BY <3>2
      <4>. QED
        BY <2>2, <2>4, <4>1
    <3>. QED
      BY <2>1, <3>1, <3>2
  <2>. QED
    BY <2>5 DEF ProcessedIsSound, CameBetween
<1>7. processed' = processed \/ \E r \in Runs : Copies(r) /\ RunStep(r)
  <2>1. ASSUME NEW k \in Keys, NEW f \in Files, Upload(k, f)
        PROVE  processed' = processed
    BY <2>1 DEF Upload
  <2>2. ASSUME NEW r \in Runs, NEW c \in Confs, Trigger(r, c)
        PROVE  processed' = processed
    BY <2>2 DEF Trigger, stores
  <2>3. ASSUME NEW r \in Runs, RunStep(r)
        PROVE  processed' = processed \/ Copies(r)
    BY <2>3, StepCases DEF Quiet, Downloads, Opens, Commit, Registers, Deletes, stores
  <2>. QED
    BY <2>1, <2>2, <2>3, NextCases
<1>. QED
  BY <1>5, <1>6, <1>7

LEMMA VanishStep ==
  ASSUME IngestAssumption, TypeOK, NothingVanishes, DeletesFit, Uploads, Next
  PROVE  NothingVanishes'
<1>1. \A u \in uploaded : u[1] \in Keys /\ u[2] \in Files
  BY DEF TypeOK
<1>2. ASSUME NEW k \in Keys, NEW f \in Files, Upload(k, f)
      PROVE  NothingVanishes'
  <2>1. /\ staging'[k] = f /\ \A l \in Keys \ {k} : staging'[l] = staging[l]
        /\ uploaded' = uploaded \union {<<k, f>>} /\ processed' = processed
        /\ replaced' = replaced \union ({staging[k]} \ {NoFile})
        /\ \A m \in met : m \in met'
    BY <1>2, UploadEffect DEF Upload
  <2>2. ASSUME NEW u \in uploaded
        PROVE  \/ staging'[u[1]] = u[2] \/ \E p \in processed : p.file = u[2]
               \/ u[2] \in replaced'
               \/ \E r \in Runs : [file |-> u[2], by |-> r, moved |-> TRUE] \in met'
    <3>1. u[2] # NoFile
      BY <1>1 DEF IngestAssumption
    <3>. QED
      BY <1>1, <2>1, <3>1 DEF NothingVanishes, CameBetween, Processed
  <2>. QED
    BY <2>1, <2>2 DEF NothingVanishes, CameBetween, Processed
<1>3. ASSUME NEW r \in Runs, NEW c \in Confs, Trigger(r, c)
      PROVE  NothingVanishes'
  BY <1>3, TriggerEffect DEF NothingVanishes, CameBetween, Processed, stores, tale
<1>4. ASSUME NEW r \in Runs, RunStep(r)
      PROVE  NothingVanishes'
  <2>1. uploaded' = uploaded /\ replaced' = replaced /\ met' = met
    BY <1>4, StepFrame
  <2>2. \A p \in processed : p \in processed'
    BY <1>4, StepCases DEF Quiet, Downloads, Opens, Commit, Registers, Copies, Deletes, stores
  <2>3. CASE Deletes(r)
    <3>1. /\ pc[r] = "delete" /\ processed' = processed
          /\ \A k \in Keys \ {Key(r)} : staging'[k] = staging[k]
      BY <2>3 DEF Deletes
    <3>2. \/ staging[Key(r)] = NoFile \/ \E p \in processed : p.file = staging[Key(r)]
          \/ [file |-> staging[Key(r)], by |-> r, moved |-> TRUE] \in met
      BY <3>1 DEF DeletesFit, CameBetween, Processed
    <3>3. ASSUME NEW u \in uploaded
          PROVE  \/ staging'[u[1]] = u[2] \/ \E p \in processed : p.file = u[2]
                 \/ u[2] \in replaced
                 \/ \E q \in Runs : [file |-> u[2], by |-> q, moved |-> TRUE] \in met
      <4>1. u[1] \in Keys /\ u[2] # NoFile
        BY <1>1 DEF IngestAssumption
      <4>2. CASE staging[u[1]] = u[2] /\ u[1] = Key(r)
        BY <3>2, <4>1, <4>2
      <4>3. CASE ~(staging[u[1]] = u[2] /\ u[1] = Key(r))
        BY <3>1, <4>1, <4>3 DEF NothingVanishes, CameBetween, Processed
      <4>. QED
        BY <4>2, <4>3
    <3>. QED
      BY <2>1, <3>1, <3>3 DEF NothingVanishes, CameBetween, Processed
  <2>4. CASE ~Deletes(r)
    <3>1. staging' = staging
      BY <1>4, <2>4, StepCases DEF Quiet, Downloads, Opens, Commit, Registers, Copies, stores
    <3>. QED
      BY <2>1, <2>2, <3>1 DEF NothingVanishes, CameBetween, Processed
  <2>. QED
    BY <2>3, <2>4
<1>. QED
  BY <1>2, <1>3, <1>4, NextCases

-----------------------------------------------------------------------------
LEMMA InitInv ==
  ASSUME IngestAssumption, Init
  PROVE  IInv
<1>1. (CHOOSE k \in Keys : TRUE) \in Keys
  BY DEF IngestAssumption
<1>2. TypeOK
  <2>1. conf \in [Runs -> Confs]
    BY <1>1 DEF Init, Confs, Dags, Tables
  <2>2. log \in [Tables -> Seq(Runs)]
    <3>1. log = [t \in Tables |-> <<>>]
      BY DEF Init
    <3>. QED
      BY <3>1
  <2>3. faults \in 0..MaxFaults
    <3>1. faults = 0
      BY DEF Init
    <3>2. MaxFaults \in Nat
      BY DEF IngestAssumption
    <3>. QED
      BY <3>1, <3>2
  <2>. QED
    BY <2>1, <2>2, <2>3 DEF Init, TypeOK
<1>3. /\ \A r \in Runs : pc[r] = "idle" /\ file[r] = NoFile /\ ~CsvRun(r)
      /\ uploaded = {} /\ processed = {} /\ replaced = {} /\ overtaken = {}
      /\ \A k \in Keys : staging[k] = NoFile
  BY DEF Init, CsvRun
<1>4. \A t \in Tables : Len(log[t]) = 0
  BY DEF Init
<1>5. ConfsFit /\ KeysApart /\ FilesHeld /\ DeletesFit
  BY <1>3 DEF ConfsFit, KeysApart, FilesHeld, DeletesFit, Midway, Finished
<1>6. OneCsvRun /\ CsvFileStays /\ OneLoad /\ CsvTableStays /\ Registration
  BY <1>3 DEF OneCsvRun, CsvFileStays, OneLoad, Holds, CsvTableStays, Registration, Stored
<1>7. VersionsFit /\ WritesCount
  BY <1>3 DEF VersionsFit, WritesCount, Written
<1>8. CommitsFit
  BY <1>3, <1>4 DEF CommitsFit
<1>9. Uploads /\ ProcessedIsSound /\ NothingVanishes
  BY <1>3 DEF Uploads, ProcessedIsSound, NothingVanishes
<1>. QED
  BY <1>2, <1>5, <1>6, <1>7, <1>8, <1>9 DEF IInv

LEMMA StepInv ==
  ASSUME IngestAssumption, IInv, [Next]_vars
  PROVE  IInv'
<1>1. CASE Next
  BY <1>1, TypeStep, ConfsStep, FilesHeldStep, DeletesStep, UploadsStep, OneCsvRunStep,
     CsvFileStaysStep, OneLoadStep, CsvTableStaysStep, RegistrationStep, VersionsStep,
     CommitsStep, WritesStep, ProcessedStep, VanishStep
     DEF IInv
<1>2. CASE UNCHANGED vars
  <2>. USE <1>2 DEF vars, stores, tale
  <2>1. TypeOK' /\ Uploads' /\ NothingVanishes'
    BY DEF IInv, TypeOK, Uploads, NothingVanishes, Processed, CameBetween
  <2>2. ConfsFit' /\ KeysApart' /\ FilesHeld' /\ DeletesFit' /\ OneCsvRun'
    BY DEF IInv, ConfsFit, KeysApart, FilesHeld, DeletesFit, OneCsvRun, CsvRun, Key, Table,
           Processed, CameBetween
  <2>3. CsvFileStays' /\ OneLoad' /\ CsvTableStays'
    BY DEF IInv, CsvFileStays, OneLoad, Holds, CsvTableStays, CsvRun, Key, Processed
  <2>4. Registration'
    BY DEF IInv, Registration, Meddled, CsvRun, Table
  <2>5. VersionsFit' /\ CommitsFit'
    BY DEF IInv, VersionsFit, CommitsFit, Table
  <2>6. WritesCount' /\ ProcessedIsSound'
    <3>1. \A r \in Runs : Wrote(r)' <=> Wrote(r)
      BY DEF Wrote, Committed, CsvRun, Table
    <3>. QED
      BY <3>1 DEF IInv, WritesCount, ProcessedIsSound, CameBetween, Table, TypeOK
  <2>. QED
    BY <2>1, <2>2, <2>3, <2>4, <2>5, <2>6 DEF IInv
<1>. QED
  BY <1>1, <1>2

LEMMA Invariance ==
  ASSUME IngestAssumption
  PROVE  Spec => []IInv
<1>1. Init => IInv
  BY InitInv
<1>2. IInv /\ [Next]_vars => IInv'
  BY StepInv
<1>. QED
  BY <1>1, <1>2, PTL DEF Spec

-----------------------------------------------------------------------------
\* Every variable keeps its type, whatever the runs do.
THEOREM TypeCorrect == ASSUME IngestAssumption PROVE Spec => []TypeOK
<1>1. IInv => TypeOK
  BY DEF IInv
<1>. QED
  BY <1>1, Invariance, PTL

\* move_to_processed copies before it deletes: with uploads under any key at any
\* time, an uploaded file is in staging or in processed/ unless another upload
\* replaced it or it came between the copy and the delete of a run.
THEOREM NoFileVanishes == ASSUME IngestAssumption PROVE Spec => []NothingVanishes
<1>1. IInv => NothingVanishes
  BY DEF IInv
<1>. QED
  BY <1>1, Invariance, PTL

\* A run moves to processed/ what it had appended to a table that Trino knows, or
\* what came under its key after its download; of two ingest runs neither takes
\* the other's commit, also while conversions write to the source's table.
THEOREM ProcessedFilesWereLoaded ==
  ASSUME IngestAssumption PROVE Spec => []ProcessedWereLoaded
<1>1. IInv => ProcessedWereLoaded
  BY DEF IInv, ProcessedIsSound, ProcessedWereLoaded
<1>. QED
  BY <1>1, Invariance, PTL

\* A successful run of a CSV source, the one that updates the Dataset and so starts
\* the silver DAG, left a registered table and its rows in it, unless a conversion
\* replaced the commit, and its file in processed/, unless an upload replaced it.
DatasetUpdatesAreReal ==
  \A r \in Runs : CsvRun(r) /\ pc[r] = "success"
    => Wrote(r) /\ Table(r) \in hms /\ (Processed(file[r]) \/ file[r] \in replaced)

\* register_table refuses an ingest run of the source only when a conversion has
\* written to the source's table.
CsvRunsDoNotRace == \A r \in Runs : CsvRun(r) /\ pc[r] = "table exists" => Meddled

\* One run at a time per source is enough for what a Dataset update announces and
\* for ensure_trino_table's check to hold until register_table: only conversions
\* into the source's table, which nothing forbids, and uploads under the key of a
\* run can come in between.
THEOREM CsvRunsAreSafe ==
  ASSUME IngestAssumption PROVE Spec => [](CsvRunsDoNotRace /\ DatasetUpdatesAreReal)
<1>1. IInv => CsvRunsDoNotRace
  BY DEF IInv, Registration, CsvRunsDoNotRace
<1>2. IInv => DatasetUpdatesAreReal
  <2>. SUFFICES ASSUME IInv, NEW r \in Runs, CsvRun(r), pc[r] = "success"
                PROVE  Wrote(r) /\ Table(r) \in hms /\ (Processed(file[r]) \/ file[r] \in replaced)
    BY DEF DatasetUpdatesAreReal
  <2>1. pc[r] \in Written /\ pc[r] \in Stored /\ pc[r] \in Finished
    BY DEF Written, Stored, Finished
  <2>. QED
    BY <2>1 DEF IInv, WritesCount, Registration, CsvFileStays
<1>. QED
  BY <1>1, <1>2, Invariance, PTL

\* A CSV is loaded again only when a run that had loaded it failed.
THEOREM RepeatsNeedAFailure ==
  ASSUME IngestAssumption PROVE Spec => []RepeatsFollowFailures
<1>1. IInv => RepeatsFollowFailures
  <2>. SUFFICES ASSUME IInv, NEW r \in Runs, NEW s \in Runs, LoadedSame(r, s), r # s,
                       pc[r] \notin Failures, pc[s] \notin Failures
                PROVE  FALSE
    BY DEF RepeatsFollowFailures
  <2>1. ASSUME NEW u \in Runs, Committed(u)
        PROVE  pc[u] \in Past
    <3>1. Table(u) \in Tables /\ DOMAIN log[Table(u)] = 1..Len(log[Table(u)])
      BY RunTypes, LogRuns DEF IInv
    <3>. QED
      BY <2>1, <3>1 DEF IInv, CommitsFit, Committed
  <2>2. pc[r] \in Written /\ pc[s] \in Written
    BY <2>1 DEF LoadedSame, Past
  <2>3. Holds(r) /\ Holds(s) /\ file[r] = file[s]
    BY <2>2 DEF LoadedSame, Holds, Written, Midway, Finished
  <2>. QED
    BY <2>3 DEF IInv, OneLoad
<1>. QED
  BY <1>1, Invariance, PTL
=============================================================================
