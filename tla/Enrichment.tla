----------------------------- MODULE Enrichment -----------------------------
(***************************************************************************)
(* enrich_from_dbt_meta.py: the metadata of the dbt models (manifest.json) *)
(* is added to the tables of OpenMetadata.  For every model the job reads  *)
(* the table, looks up owner, domain and data products, and writes one     *)
(* JSON Patch that replaces the lists it read by longer ones.  Between     *)
(* read and patch a steward may edit the same table in the UI, and dbt     *)
(* may be deployed at any time.                                            *)
(*                                                                         *)
(* Labels stand for every list the job unites: tags, glossary terms,       *)
(* domains, data products and the PII tags of the columns.  A label of a   *)
(* mutually exclusive classification is refused next to another one.  They *)
(* also stand for the values of the custom properties (the extension): of  *)
(* one property a table has one value, and a new one replaces it.          *)
(***************************************************************************)
EXTENDS Naturals, FiniteSets

CONSTANTS
    Models,     \* dbt models with a database, a schema and a table
    Labels,     \* tags, glossary terms, domains, data products
    Exclusive,  \* sets of labels of which a table carries at most one
    Properties, \* those among them that are the values of a custom property
    Owners,     \* teams and users a table may be owned by
    Nobody      \* a table without owner

ExclusiveAssumption ==
    /\ Exclusive \subseteq SUBSET Labels /\ \A c \in Exclusive : IsFiniteSet(c)
    /\ Properties \subseteq Exclusive
NobodyAssumption == Nobody \notin Owners
DisjointAssumption == Labels \cap Owners = {}

VARIABLES
    labels,    \* labels[m] = labels of m's table in OpenMetadata
    owner,     \* owner[m] = its owner
    ingested,  \* the models whose table exists in OpenMetadata
    job,       \* the running enrichment
    byHand,    \* history: labels a person added and nobody took off since
    handOwner, \* history: the owner a person chose, or Nobody
    late       \* history: labels and owners set by hand after the job's read

vars == <<labels, owner, ingested, job, byHand, handOwner, late>>

people == <<byHand, handOwner, late>>

Resting == [pc |-> "idle", todo |-> {}, manifest |-> [m \in Models |-> {}],
            read |-> {}, vacant |-> FALSE, lookedUp |-> Nobody, on |-> {}]

\* OpenMetadata takes a patch only when no classification is contradicted.
Consistent(ls) == \A c \in Exclusive : Cardinality(ls \cap c) =< 1

\* The values of the custom properties that ls has a value of.
Governed(ls) == UNION {p \in Properties : p \cap ls # {}}

\* As United, the list of the manifest alone.
BugUnited(read, declared) == declared

\* union_tags, the unions of domains, data products and column tags, and
\* merge_extension: what was read, and what the manifest adds; of a property
\* that both have, the manifest's value.
United(read, declared) == (read \ Governed(declared)) \cup declared

Init ==
    /\ labels = [m \in Models |-> {}]
    /\ owner = [m \in Models |-> Nobody]
    /\ ingested = {}
    /\ job = Resting
    /\ byHand = [m \in Models |-> {}]
    /\ handOwner = [m \in Models |-> Nobody]
    /\ late = [m \in Models |-> {}]

-----------------------------------------------------------------------------
(* The surroundings: the ingestion, people in the UI. *)

IngestTable(m) ==
    /\ m \notin ingested
    /\ ingested' = ingested \cup {m}
    /\ UNCHANGED <<labels, owner, job, people>>

\* The job has read m's table and has not patched it yet.
HeldByJob(m) == m \in job.on

Later(m, x) == IF HeldByJob(m) THEN [late EXCEPT ![m] = @ \cup {x}] ELSE late

\* A label more; a value of a property takes the place of another.
WithEdit(ls, l) == (ls \ Governed({l})) \cup {l}

AddByHand(m, l) ==
    /\ m \in ingested /\ l \notin labels[m] /\ Consistent(WithEdit(labels[m], l))
    /\ labels' = [labels EXCEPT ![m] = WithEdit(@, l)]
    /\ byHand' = [byHand EXCEPT ![m] = WithEdit(@, l)]
    /\ late' = Later(m, l)
    /\ UNCHANGED <<owner, ingested, job, handOwner>>

RemoveByHand(m, l) ==
    /\ l \in labels[m]
    /\ labels' = [labels EXCEPT ![m] = @ \ {l}]
    /\ byHand' = [byHand EXCEPT ![m] = @ \ {l}]
    /\ late' = [late EXCEPT ![m] = @ \ {l}]
    /\ UNCHANGED <<owner, ingested, job, handOwner>>

ChooseOwner(m, o) ==
    /\ m \in ingested /\ o # owner[m]
    /\ owner' = [owner EXCEPT ![m] = o]
    /\ handOwner' = [handOwner EXCEPT ![m] = o]
    /\ late' = Later(m, o)
    /\ UNCHANGED <<labels, ingested, job, byHand>>

-----------------------------------------------------------------------------
(* The job. *)

\* main, fetch_manifest, load_mapping, iter_model_nodes: one snapshot of the
\* manifest, every model of it once.  Since the last run any dbt deployment may
\* have changed what a model declares.
FetchManifest ==
    /\ job.pc = "idle"
    /\ \E manifest \in [Models -> {ls \in SUBSET Labels : Consistent(ls)}] :
           job' = [Resting EXCEPT !.pc = "next", !.todo = Models, !.manifest = manifest]
    /\ UNCHANGED <<labels, owner, ingested, people>>

\* get_table of the next model: a missing table or an error skips the model.
ReadTable(m) ==
    /\ job.pc = "next" /\ m \in job.todo
    /\ \/ /\ m \in ingested
          /\ job' = [job EXCEPT !.pc = "lookup", !.todo = @ \ {m}, !.on = {m},
                                !.read = labels[m], !.vacant = owner[m] = Nobody]
          /\ late' = [late EXCEPT ![m] = {}]
       \/ job' = [job EXCEPT !.todo = @ \ {m}] /\ UNCHANGED late
    /\ UNCHANGED <<labels, owner, ingested, byHand, handOwner>>

\* resolve_owner looks for a team, then a user, only when no owner was read.
LookUp ==
    /\ job.pc = "lookup"
    /\ \E o \in IF job.vacant THEN Owners \cup {Nobody} ELSE {Nobody} :
           job' = [job EXCEPT !.pc = "patch", !.lookedUp = o]
    /\ UNCHANGED <<labels, owner, ingested, people>>

\* History: an edit made while the job held the table goes with its patch, and
\* so does a value of a property the manifest rules.
Lost(m, ls, o) ==
    /\ byHand' = [byHand EXCEPT ![m] = @ \ ((late[m] \cup Governed(job.manifest[m])) \ ls)]
    /\ handOwner' = [handOwner EXCEPT ![m] = IF @ \in late[m] \ {o} THEN Nobody ELSE @]

\* build_table_patch_ops and patch_table: the lists that were read are
\* replaced; an owner is added when one was looked up.  A refused or failed
\* patch is logged and the loop goes on.
PatchTable(m) ==
    /\ job.pc = "patch" /\ m \in job.on
    /\ LET new == United(job.read, job.manifest[m])
       IN  \/ /\ Consistent(new)
              /\ labels' = [labels EXCEPT ![m] = new]
              /\ owner' = [owner EXCEPT ![m] = IF job.lookedUp = Nobody THEN @
                                               ELSE job.lookedUp]
              /\ Lost(m, new, owner'[m])
           \/ UNCHANGED <<labels, owner, byHand, handOwner>>
    /\ job' = [job EXCEPT !.pc = "next", !.on = {}, !.read = {}, !.vacant = FALSE,
                          !.lookedUp = Nobody]
    /\ late' = [late EXCEPT ![m] = {}]
    /\ UNCHANGED ingested

\* The loop is through, or the pod is lost.
JobEnds ==
    /\ job.pc # "idle"
    /\ job' = Resting
    /\ UNCHANGED <<labels, owner, ingested, people>>

Next ==
    \/ \E m \in Models :
           \/ \E l \in Labels : AddByHand(m, l) \/ RemoveByHand(m, l)
           \/ \E o \in Owners : ChooseOwner(m, o)
           \/ IngestTable(m) \/ ReadTable(m) \/ PatchTable(m)
    \/ FetchManifest \/ LookUp \/ JobEnds

Spec == Init /\ [][Next]_vars

-----------------------------------------------------------------------------
\* Type invariant of the enrichment: a table never carries two labels of an
\* exclusive classification and the job holds at most one table at a time.
EnrichmentTypeOK ==
    /\ labels \in [Models -> SUBSET Labels]
    /\ \A m \in Models : Consistent(labels[m])
    /\ owner \in [Models -> Owners \cup {Nobody}]
    /\ ingested \subseteq Models
    /\ job \in [pc : {"idle", "next", "lookup", "patch"}, todo : SUBSET Models,
                manifest : [Models -> SUBSET Labels], read : SUBSET Labels,
                vacant : BOOLEAN, lookedUp : Owners \cup {Nobody}, on : SUBSET Models]
    /\ Cardinality(job.on) =< 1
    /\ byHand \in [Models -> SUBSET Labels]
    /\ handOwner \in [Models -> Owners \cup {Nobody}]
    /\ late \in [Models -> SUBSET (Labels \cup Owners)]

\* What a person put on a table outlives the job (union_tags, and the owner
\* that is only set where none stands), also when the job fails half-way or a
\* patch is refused; only an edit between the job's read and its patch of that
\* very table may be lost, and counts in byHand until then.  The value of a
\* custom property outlives it too, unless the manifest gives it another one
\* (merge_extension).
HandEditsSurvive ==
    \A m \in Models :
        /\ byHand[m] \subseteq labels[m]
        /\ handOwner[m] \in {owner[m], Nobody}

=============================================================================
