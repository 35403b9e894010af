---------------------------- MODULE OmToOpaSync ----------------------------
(***************************************************************************)
(* Who writes the policy data OPA evaluates.  A data steward tags tables   *)
(* in OpenMetadata; a CronJob folds the Doelbinding tags into `data.json`  *)
(* of the ConfigMap opa-trino-bundle; a deployment applies the data.json   *)
(* of the repository to the same ConfigMap; OPA loads whatever is there.   *)
(* The job reads the tables page by page, then the ConfigMap, then         *)
(* replaces data.json as a whole: three requests, and others between them. *)
(***************************************************************************)
EXTENDS Naturals

CONSTANTS
  Tables,      \* tables of the Trino service in OpenMetadata
  GlobOf,      \* GlobOf[t]: the key <<catalog, schema, "*">> of the table's FQN
  Tags,        \* tagFQNs
  PurposeOf,   \* PurposeOf[tag]: the purpose a Doelbinding tag stands for
  NoPurpose,   \* PurposeOf a tag of another classification
  Releases,    \* versions of data.json in the repository: [roles, purposes]
  MaxTagEdits, \* bound: tags added or removed
  MaxDeploys,  \* bound: deployments after the first
  MaxFailures  \* bound: job runs that fail half-way

Globs == {GlobOf[t] : t \in Tables}
Purposes == {PurposeOf[tag] : tag \in Tags} \ {NoPurpose}

ASSUME SyncAssumption ==
  /\ GlobOf \in [Tables -> Globs]
  /\ PurposeOf \in [Tags -> Purposes \union {NoPurpose}]
  /\ NoPurpose \notin Purposes
  /\ Releases # {}
  /\ MaxTagEdits \in Nat
  /\ MaxDeploys \in Nat
  /\ MaxFailures \in Nat

VARIABLES
  tags,      \* tags[t]: what OpenMetadata says of table t
  cm,        \* data.json in the ConfigMap
  loaded,    \* the bundle OPA evaluates
  job,       \* the running sync: step, tables to read, purposes read, what it will write
  everBound, \* history: purposes each glob's tables were ever tagged with
  edits, deploys, failures

syncVars == <<tags, cm, loaded, job, everBound, edits, deploys, failures>>

Job(pc, todo, om, new) == [pc |-> pc, todo |-> todo, om |-> om, new |-> new]

NothingRead == [g \in Globs |-> {}]
Idle == Job("idle", {}, NothingRead, "none")

TagsOf(g) == UNION {tags[t] : t \in {u \in Tables : GlobOf[u] = g}}

BugAnyTag(set) == {PurposeOf[tag] : tag \in set}

\* The purposes among a table's tags.
extract_doelbindingen(set) == {PurposeOf[tag] : tag \in set} \ {NoPurpose}

\* What the tags of a schema's tables say its purposes are.
Bound(g) == {PurposeOf[tag] : tag \in TagsOf(g)} \ {NoPurpose}

SyncInit ==
  /\ tags \in [Tables -> {{}}]
  /\ cm \in Releases
  /\ loaded = cm
  /\ job = Idle
  /\ everBound = [g \in Globs |-> {}]
  /\ edits = 0 /\ deploys = 0 /\ failures = 0
-----------------------------------------------------------------------------
(* OpenMetadata and deployments *)

\* A steward, or the dbt enrichment, tags a table or takes a tag away.
EditTags(t, tag) ==
  /\ edits < MaxTagEdits
  /\ edits' = edits + 1
  /\ tags' = [tags EXCEPT ![t] = IF tag \in @ THEN @ \ {tag} ELSE @ \union {tag}]
  /\ everBound' = [everBound EXCEPT ![GlobOf[t]] = @ \union ({PurposeOf[tag]} \ {NoPurpose})]
  /\ UNCHANGED <<cm, loaded, job, deploys, failures>>

\* kubectl apply of the generated ConfigMap puts the repository's data.json
\* in place of whatever the sync made of it.
Deploy(release) ==
  /\ deploys < MaxDeploys
  /\ deploys' = deploys + 1
  /\ cm' = release
  /\ UNCHANGED <<tags, loaded, job, everBound, edits, failures>>

\* OPA picks up the ConfigMap.
OpaLoads ==
  /\ loaded # cm
  /\ loaded' = cm
  /\ UNCHANGED <<tags, cm, job, everBound, edits, deploys, failures>>
-----------------------------------------------------------------------------
(* The sync job; concurrencyPolicy Forbid allows one at a time *)

StartJob ==
  /\ job.pc = "idle"
  /\ job' = Job("list", Tables, NothingRead, "none")
  /\ UNCHANGED <<tags, cm, loaded, everBound, edits, deploys, failures>>

\* One page of GET /api/v1/tables; after the last one the job stops when no
\* table carries a Doelbinding tag.
ListPage(t) ==
  LET om == [job.om EXCEPT ![GlobOf[t]] = @ \union extract_doelbindingen(tags[t])]
  IN  /\ job.pc = "list"
      /\ t \in job.todo
      /\ \/ job.todo # {t} /\ job' = Job("list", job.todo \ {t}, om, "none")
         \/ job.todo = {t} /\ om # NothingRead /\ job' = Job("get", {}, om, "none")
         \/ job.todo = {t} /\ om = NothingRead /\ job' = Idle
      /\ UNCHANGED <<tags, cm, loaded, everBound, edits, deploys, failures>>

BugManualWins(data, om) ==
  [roles    |-> data.roles,
   purposes |-> [k \in DOMAIN data.purposes \union {g \in Globs : om[g] # {}} |->
                   IF k \in DOMAIN data.purposes THEN data.purposes[k] ELSE om[k]]]

\* Entries derived from OpenMetadata win; entries it does not cover stay.
Merge(data, om) ==
  LET covered == {g \in Globs : om[g] # {}}
  IN  [roles    |-> data.roles,
       purposes |-> [k \in DOMAIN data.purposes \union covered |->
                       IF k \in covered THEN om[k] ELSE data.purposes[k]]]

\* Read the ConfigMap and work out the new data.json.  Nothing is to be done
\* when its text is the same; a deployed text may differ in layout alone.
GetConfigMap ==
  /\ job.pc = "get"
  /\ \/ job' = Job("patch", {}, job.om, Merge(cm, job.om))
     \/ Merge(cm, job.om) = cm /\ job' = Idle
  /\ UNCHANGED <<tags, cm, loaded, everBound, edits, deploys, failures>>

\* PATCH without a resourceVersion: data.json becomes what was worked out,
\* whatever it holds by now.
PatchConfigMap ==
  /\ job.pc = "patch"
  /\ cm' = job.new
  /\ job' = Idle
  /\ UNCHANGED <<tags, loaded, everBound, edits, deploys, failures>>

\* A request fails or times out and the script ends; a PATCH may have been
\* carried out before its answer was lost, which PatchConfigMap covers.
JobFails ==
  /\ job.pc # "idle"
  /\ failures < MaxFailures
  /\ failures' = failures + 1
  /\ job' = Idle
  /\ UNCHANGED <<tags, cm, loaded, everBound, edits, deploys>>
-----------------------------------------------------------------------------
JobStep == StartJob \/ (\E t \in Tables : ListPage(t)) \/ GetConfigMap \/ PatchConfigMap

SyncNext ==
  \/ \E t \in Tables, tag \in Tags : EditTags(t, tag)
  \/ \E release \in Releases : Deploy(release)
  \/ OpaLoads
  \/ JobStep
  \/ JobFails

\* The CronJob fires every 15 minutes and OPA polls the bundle.
SyncFairness == WF_syncVars(JobStep) /\ WF_syncVars(OpaLoads)

SyncSpec == SyncInit /\ [][SyncNext]_syncVars
SyncFairSpec == SyncSpec /\ SyncFairness
-----------------------------------------------------------------------------
SyncTypeOK ==
  /\ tags \in [Tables -> SUBSET Tags]
  /\ job.pc \in {"idle", "list", "get", "patch"}
  /\ job.todo \subseteq Tables
  /\ job.om \in [Globs -> SUBSET Purposes]
  /\ everBound \in [Globs -> SUBSET Purposes]
  /\ edits \in 0..MaxTagEdits
  /\ deploys \in 0..MaxDeploys
  /\ failures \in 0..MaxFailures

Released(k, p) ==
  \E release \in Releases : k \in DOMAIN release.purposes /\ p \in release.purposes[k]

\* The repository binds p to the key, or a table of the schema was tagged so.
Explained(k, p) == Released(k, p) \/ (k \in Globs /\ p \in everBound[k])

\* A purpose counts for a schema only because the repository binds it there or
\* because one of the schema's tables carried that Doelbinding tag: no other
\* tag, and no tag of another schema, ever opens a schema to a purpose.
PurposesAreExplained ==
  \A k \in DOMAIN loaded.purposes : \A p \in loaded.purposes[k] : Explained(k, p)

\* Tags get through: once nobody edits or deploys any more, OPA ends up with
\* exactly the purposes the schema's tables are tagged with.
TagsReachOpa ==
  \A g \in Globs :
    <>[](Bound(g) # {} => g \in DOMAIN loaded.purposes /\ loaded.purposes[g] = Bound(g))

\* "bestaande (handmatige) entries die niet door OM bestreken worden blijven
\* staan": the job's own write leaves the entries of data.json it does not
\* cover as they are at that moment.
ManualEntriesStay ==
  [][PatchConfigMap =>
       \A k \in DOMAIN cm.purposes :
         (k \in Globs => job.om[k] = {}) =>
            k \in DOMAIN cm'.purposes /\ cm'.purposes[k] = cm.purposes[k]]_syncVars
=============================================================================
