----------------------------- MODULE JobsProofs ----------------------------
(***************************************************************************)
(* The parts of Services that feed OpenMetadata (the jobs and the request  *)
(* form of om-access-bridge) and fill the lake: for each, an inductive     *)
(* invariant, a lemma per action, and the theorem that Services keeps the  *)
(* property, for every value of the constants.                             *)
(***************************************************************************)
EXTENDS Services, FiniteSetTheorems, SequenceTheorems, TLAPS

\* The variables of Services by the names they have in the part's own module; the
\* account, edits and sync of UserSync are syncAccount, syncEdits and pass.
labels == v1
owner == v2
ingested == v3
job == v4
byHand == v5
handOwner == v6
late == v7

realm == v1
syncAccount == v2
syncEdits == v3
pass == v4
settled == v5

pod == v1
raw == v2
batches == v3
committed == v4
driver == v5
copies == v6
registered == v7
failures == v8

account == v1
owners == v2
members == v3
edits == v4
known == v5
form == v6
tasks == v7
seen == v8
steady == v9

lake == v1
apps == v2
seeder == v3
dag == v4
count == v5
orphan == v6

USE DEF labels, owner, ingested, job, byHand, handOwner, late, realm, syncAccount,
        syncEdits, pass, settled, pod, raw, batches, committed, driver, copies,
        registered, failures, account, owners, members, edits, known, form, tasks,
        seen, steady, lake, apps, seeder, dag, count, orphan

-----------------------------------------------------------------------------
\* Services starts as the part it is about starts.
LEMMA JobsStart ==
    Init => /\ part = "enrichment" => Enrichment!Init
            /\ part = "sync" => Sync!Init
            /\ part = "stream" => Stream!Init
            /\ part = "wia" => Wia!Init
            /\ part = "form" => Form!Init
  BY DEF Init

\* A step of Services is a step of the part it is about, or changes nothing there.
LEMMA JobsStep ==
    [Next]_vars => /\ part' = part
                   /\ part = "enrichment" => [Enrichment!Next]_(Enrichment!vars)
                   /\ part = "sync" => [Sync!Next]_(Sync!vars)
                   /\ part = "stream" => [Stream!Next]_(Stream!vars)
                   /\ part = "wia" => [Wia!Next]_(Wia!vars)
                   /\ part = "form" => [Form!Next]_(Form!vars)
  <1>0. Next => part' = part
    BY DEF Next
  <1>1. part = "enrichment" /\ [Next]_vars => [Enrichment!Next]_(Enrichment!vars)
    BY DEF Next, vars, Enrichment!vars
  <1>2. part = "sync" /\ [Next]_vars => [Sync!Next]_(Sync!vars)
    BY DEF Next, vars, Sync!vars
  <1>3. part = "stream" /\ [Next]_vars => [Stream!Next]_(Stream!vars)
    BY DEF Next, vars, Stream!vars
  <1>4. part = "wia" /\ [Next]_vars => [Wia!Next]_(Wia!vars)
    BY DEF Next, vars, Wia!vars
  <1>5. part = "form" /\ [Next]_vars => [Form!Next]_(Form!vars)
    BY DEF Next, vars, Form!vars, Form!world, Form!history
  <1>. QED
    BY <1>0, <1>1, <1>2, <1>3, <1>4, <1>5 DEF vars

\* The types the invariant needs.
EnrichmentTyped ==
    /\ labels \in [Models -> SUBSET Labels]
    /\ owner \in [Models -> Owners \cup {Nobody}]
    /\ job \in [pc : {"idle", "next", "lookup", "patch"}, todo : SUBSET Models,
                manifest : [Models -> SUBSET Labels], read : SUBSET Labels,
                vacant : BOOLEAN, lookedUp : Owners \cup {Nobody}, on : SUBSET Models]
    /\ byHand \in [Models -> SUBSET Labels]
    /\ handOwner \in [Models -> Owners \cup {Nobody}]
    /\ late \in [Models -> SUBSET (Labels \cup Owners)]

\* The job may still give the table it holds an owner.
WillOwn == job.vacant \/ job.lookedUp # Nobody

\* What the job read of the tables it holds, against the edits made since.
HeldIsExplained ==
    \A m \in job.on :
        /\ job.pc \in {"lookup", "patch"}
        /\ byHand[m] \subseteq job.read \cup late[m]
        /\ WillOwn => handOwner[m] \in {Nobody} \cup late[m]

\* An owner that was looked up waits for the patch of the table.
LookedUpForPatch == job.pc # "patch" => job.lookedUp = Nobody

\* Inductive: edits by hand survive the job.
EnrichmentInv ==
    EnrichmentTyped /\ LookedUpForPatch /\ HeldIsExplained /\ Enrichment!HandEditsSurvive

-----------------------------------------------------------------------------
\* Before the first run nothing is labelled, owned or held.
LEMMA EnrichmentInit == Enrichment!Init => EnrichmentInv
  <1>. SUFFICES ASSUME Enrichment!Init PROVE EnrichmentInv
    OBVIOUS
  <1>1. EnrichmentTyped
    BY DEF Enrichment!Init, EnrichmentTyped, Enrichment!Resting
  <1>2. HeldIsExplained
    BY DEF Enrichment!Init, HeldIsExplained, Enrichment!Resting
  <1>3. Enrichment!HandEditsSurvive
    BY DEF Enrichment!Init, Enrichment!HandEditsSurvive
  <1>4. LookedUpForPatch
    BY DEF Enrichment!Init, LookedUpForPatch, Enrichment!Resting
  <1>. QED
    BY <1>1, <1>2, <1>3, <1>4 DEF EnrichmentInv

\* A label set by hand: what the job has not read is noted in late.
LEMMA AddPreserves ==
    ASSUME NEW m \in Models, NEW l \in Labels, EnrichmentInv, Enrichment!AddByHand(m, l)
    PROVE  EnrichmentInv'
  <1>. DEFINE edited(ls) == Enrichment!WithEdit(ls, l)
  <1>. USE DEF EnrichmentInv, Enrichment!AddByHand, Enrichment!Later, Enrichment!HeldByJob
  <1>0. /\ \A ls \in SUBSET Labels : edited(ls) \in SUBSET Labels
        /\ \A ls, more \in SUBSET Labels : ls \subseteq more => edited(ls) \subseteq edited(more)
        /\ \A ls \in SUBSET Labels : edited(ls) \subseteq ls \cup {l}
    BY DEF Enrichment!WithEdit
  <1>. HIDE DEF edited
  <1>1. EnrichmentTyped'
    BY <1>0 DEF EnrichmentTyped, edited
  <1>2. HeldIsExplained'
    <2>. SUFFICES ASSUME NEW n \in job.on
                  PROVE  /\ byHand'[n] \subseteq job.read \cup late'[n]
                         /\ handOwner[n] \in {Nobody} \cup late[n]
                                => handOwner[n] \in {Nobody} \cup late'[n]
      BY DEF HeldIsExplained, WillOwn
    <2>1. CASE n = m
      BY <1>0, <2>1 DEF EnrichmentTyped, HeldIsExplained, edited
    <2>2. CASE n # m
      BY <2>2 DEF EnrichmentTyped, HeldIsExplained
    <2>. QED
      BY <2>1, <2>2
  <1>3. Enrichment!HandEditsSurvive'
    BY <1>0 DEF EnrichmentTyped, Enrichment!HandEditsSurvive, edited
  <1>. QED
    BY <1>1, <1>2, <1>3 DEF LookedUpForPatch

\* A label taken off is no hand-made one any more.
LEMMA RemovePreserves ==
    ASSUME NEW m \in Models, NEW l \in Labels, Enrichment!DisjointAssumption,
           Enrichment!NobodyAssumption,
           EnrichmentInv, Enrichment!RemoveByHand(m, l)
    PROVE  EnrichmentInv'
  <1>. USE DEF EnrichmentInv, Enrichment!RemoveByHand
  <1>1. EnrichmentTyped'
    BY DEF EnrichmentTyped
  <1>2. HeldIsExplained'
    <2>. SUFFICES ASSUME NEW n \in job.on
                  PROVE  /\ byHand'[n] \subseteq job.read \cup late'[n]
                         /\ handOwner[n] \in {Nobody} \cup late[n]
                                => handOwner[n] \in {Nobody} \cup late'[n]
      BY DEF HeldIsExplained, WillOwn
    <2>1. CASE n = m
      BY <2>1 DEF EnrichmentTyped, HeldIsExplained, Enrichment!DisjointAssumption
    <2>2. CASE n # m
      BY <2>2 DEF EnrichmentTyped, HeldIsExplained
    <2>. QED
      BY <2>1, <2>2
  <1>3. Enrichment!HandEditsSurvive'
    BY DEF EnrichmentTyped, Enrichment!HandEditsSurvive
  <1>. QED
    BY <1>1, <1>2, <1>3 DEF LookedUpForPatch

\* An owner chosen by hand.
LEMMA ChoosePreserves ==
    ASSUME NEW m \in Models, NEW o \in Owners, EnrichmentInv, Enrichment!ChooseOwner(m, o)
    PROVE  EnrichmentInv'
  <1>. USE DEF EnrichmentInv, Enrichment!ChooseOwner, Enrichment!Later, Enrichment!HeldByJob
  <1>1. EnrichmentTyped'
    BY DEF EnrichmentTyped
  <1>2. HeldIsExplained'
    <2>. SUFFICES ASSUME NEW n \in job.on
                  PROVE  /\ byHand[n] \subseteq job.read \cup late'[n]
                         /\ WillOwn => handOwner'[n] \in {Nobody} \cup late'[n]
      BY DEF HeldIsExplained, WillOwn
    <2>1. CASE n = m
      BY <2>1 DEF EnrichmentTyped, HeldIsExplained
    <2>2. CASE n # m
      BY <2>2 DEF EnrichmentTyped, HeldIsExplained
    <2>. QED
      BY <2>1, <2>2
  <1>3. Enrichment!HandEditsSurvive'
    BY DEF EnrichmentTyped, Enrichment!HandEditsSurvive
  <1>. QED
    BY <1>1, <1>2, <1>3 DEF LookedUpForPatch

-----------------------------------------------------------------------------
\* The job takes a table: all that was set by hand is in what it reads.
LEMMA ReadPreserves ==
    ASSUME NEW m \in Models, EnrichmentInv, Enrichment!ReadTable(m)
    PROVE  EnrichmentInv'
  <1>. DEFINE taken == [job EXCEPT !.pc = "lookup", !.todo = @ \ {m}, !.on = {m},
                                   !.read = labels[m], !.vacant = owner[m] = Nobody]
  <1>. USE DEF EnrichmentInv
  <1>1. /\ job.pc = "next"
        /\ UNCHANGED <<labels, owner, ingested, byHand, handOwner>>
    BY DEF Enrichment!ReadTable
  <1>2. Enrichment!HandEditsSurvive'
    BY <1>1 DEF Enrichment!HandEditsSurvive
  <1>3. CASE job' = taken /\ late' = [late EXCEPT ![m] = {}]
    <2>1. /\ job'.pc = "lookup" /\ job'.on = {m} /\ job'.read = labels[m]
          /\ job'.vacant = (owner[m] = Nobody) /\ job'.lookedUp = job.lookedUp
          /\ job'.todo = job.todo \ {m} /\ job'.manifest = job.manifest
      BY <1>3 DEF EnrichmentTyped
    <2>2. job' \in [pc : {"idle", "next", "lookup", "patch"}, todo : SUBSET Models,
                    manifest : [Models -> SUBSET Labels], read : SUBSET Labels,
                    vacant : BOOLEAN, lookedUp : Owners \cup {Nobody}, on : SUBSET Models]
      <3>1. (owner[m] = Nobody) \in BOOLEAN /\ labels[m] \in SUBSET Labels
        BY DEF EnrichmentTyped
      <3>. QED
        BY <1>3, <3>1 DEF EnrichmentTyped
    <2>3. late' \in [Models -> SUBSET (Labels \cup Owners)]
      BY <1>3 DEF EnrichmentTyped
    <2>4. EnrichmentTyped'
      BY <1>1, <2>2, <2>3 DEF EnrichmentTyped
    <2>5. LookedUpForPatch' /\ job.lookedUp = Nobody
      BY <1>1, <2>1 DEF LookedUpForPatch
    <2>6. HeldIsExplained'
      BY <1>1, <2>1, <2>5 DEF HeldIsExplained, WillOwn,
              Enrichment!HandEditsSurvive
    <2>. QED
      BY <1>2, <2>4, <2>5, <2>6
  <1>4. CASE job' = [job EXCEPT !.todo = @ \ {m}] /\ UNCHANGED late
    BY <1>1, <1>2, <1>4 DEF EnrichmentTyped, LookedUpForPatch, HeldIsExplained, WillOwn
  <1>. QED
    BY <1>3, <1>4 DEF Enrichment!ReadTable

\* An owner is looked up only for a table that had none.
LEMMA LookUpPreserves == ASSUME EnrichmentInv, Enrichment!LookUp PROVE EnrichmentInv'
  <1>. USE DEF EnrichmentInv, Enrichment!LookUp, Enrichment!people
  <1>1. PICK o \in IF job.vacant THEN Owners \cup {Nobody} ELSE {Nobody} :
             job' = [job EXCEPT !.pc = "patch", !.lookedUp = o]
    OBVIOUS
  <1>2. EnrichmentTyped'
    BY <1>1 DEF EnrichmentTyped
  <1>3. HeldIsExplained'
    BY <1>1 DEF HeldIsExplained, WillOwn, EnrichmentTyped
  <1>4. Enrichment!HandEditsSurvive'
    BY DEF Enrichment!HandEditsSurvive
  <1>. QED
    BY <1>1, <1>2, <1>3, <1>4 DEF EnrichmentTyped, LookedUpForPatch

\* The patch: the lists grow, a later edit counts as lost, and an owner only
\* replaces one chosen after the read.
LEMMA PatchPreserves ==
    ASSUME NEW m \in Models, EnrichmentInv, Enrichment!PatchTable(m)
    PROVE  EnrichmentInv'
  <1>. DEFINE ruled == Enrichment!Governed(job.manifest[m])
  <1>. DEFINE new == (job.read \ ruled) \cup job.manifest[m]
  <1>. DEFINE o == IF job.lookedUp = Nobody THEN owner[m] ELSE job.lookedUp
  <1>. USE DEF EnrichmentInv
  <1>1. /\ m \in job.on /\ m \in Models
        /\ job' = [job EXCEPT !.pc = "next", !.on = {}, !.read = {}, !.vacant = FALSE,
                              !.lookedUp = Nobody]
        /\ late' = [late EXCEPT ![m] = {}]
        /\ UNCHANGED ingested
    BY DEF Enrichment!PatchTable
  <1>2. HeldIsExplained'
    BY <1>1 DEF HeldIsExplained, EnrichmentTyped
  <1>3. LookedUpForPatch'
    BY <1>1 DEF LookedUpForPatch, EnrichmentTyped
  <1>4. CASE UNCHANGED <<labels, owner, byHand, handOwner>>
    BY <1>1, <1>2, <1>3, <1>4 DEF EnrichmentTyped, Enrichment!HandEditsSurvive
  <1>5. CASE /\ labels' = [labels EXCEPT ![m] = new]
             /\ owner' = [owner EXCEPT ![m] = o]
             /\ byHand' = [byHand EXCEPT ![m] = @ \ ((late[m] \cup ruled) \ new)]
             /\ handOwner' =
                     [handOwner EXCEPT ![m] = IF @ \in late[m] \ {o} THEN Nobody ELSE @]
    <2>1. new \subseteq Labels /\ o \in Owners \cup {Nobody}
      BY DEF EnrichmentTyped
    <2>2. EnrichmentTyped'
      BY <1>1, <1>5, <2>1 DEF EnrichmentTyped
    <2>3. ASSUME NEW n \in Models
          PROVE  byHand'[n] \subseteq labels'[n] /\ handOwner'[n] \in {owner'[n], Nobody}
      <3>1. CASE n # m
        BY <1>5, <3>1 DEF EnrichmentTyped, Enrichment!HandEditsSurvive
      <3>2. CASE n = m
        <4>1. byHand'[n] = byHand[m] \ ((late[m] \cup ruled) \ new) /\ labels'[n] = new
          BY <1>5, <3>2 DEF EnrichmentTyped
        <4>2. byHand[m] \subseteq job.read \cup late[m]
          BY <1>1 DEF HeldIsExplained
        <4>3. owner'[n] = o
          BY <1>5, <3>2 DEF EnrichmentTyped
        <4>4. handOwner'[n] =
                 IF handOwner[m] \in late[m] \ {o} THEN Nobody ELSE handOwner[m]
          BY <1>5, <3>2 DEF EnrichmentTyped
        <4>5. job.lookedUp # Nobody => handOwner[m] \in {Nobody} \cup late[m]
          BY <1>1 DEF HeldIsExplained, WillOwn
        <4>6. handOwner[m] \in {owner[m], Nobody}
          BY DEF Enrichment!HandEditsSurvive
        <4>. QED
          BY <4>1, <4>2, <4>3, <4>4, <4>5, <4>6
      <3>. QED
        BY <3>1, <3>2
    <2>. QED
      BY <1>2, <1>3, <2>2, <2>3 DEF Enrichment!HandEditsSurvive
  <1>6. owner' = [owner EXCEPT ![m] = o] => owner'[m] = o
    BY DEF EnrichmentTyped
  <1>7. owner' = [owner EXCEPT ![m] = IF job.lookedUp = Nobody THEN @ ELSE job.lookedUp]
            => owner' = [owner EXCEPT ![m] = o]
    OBVIOUS
  <1>. QED
    BY <1>4, <1>5, <1>6, <1>7 DEF Enrichment!PatchTable, Enrichment!United,
       Enrichment!Lost

-----------------------------------------------------------------------------
\* Every step keeps the invariant.
LEMMA EnrichmentPreserved ==
    ASSUME Enrichment!DisjointAssumption, Enrichment!NobodyAssumption, EnrichmentInv,
           [Enrichment!Next]_(Enrichment!vars)
    PROVE  EnrichmentInv'
  <1>. USE DEF EnrichmentInv, EnrichmentTyped, LookedUpForPatch, HeldIsExplained, WillOwn,
              Enrichment!HandEditsSurvive
  <1>2. ASSUME NEW m \in Models, NEW l \in Labels, Enrichment!AddByHand(m,
     l) \/ Enrichment!RemoveByHand(m, l)
        PROVE  EnrichmentInv'
    BY <1>2, AddPreserves, RemovePreserves
  <1>3. ASSUME NEW m \in Models, NEW o \in Owners, Enrichment!ChooseOwner(m,
     o) PROVE EnrichmentInv'
    BY <1>3, ChoosePreserves
  <1>4. ASSUME NEW m \in Models, Enrichment!IngestTable(m) PROVE EnrichmentInv'
    BY <1>4 DEF Enrichment!IngestTable, Enrichment!people
  <1>5. ASSUME NEW m \in Models,
     Enrichment!ReadTable(m) \/ Enrichment!PatchTable(m) PROVE EnrichmentInv'
    BY <1>5, ReadPreserves, PatchPreserves
  <1>6. ASSUME Enrichment!FetchManifest PROVE EnrichmentInv'
    <2>1. PICK manifest \in [Models -> SUBSET Labels] :
            job' = [Enrichment!Resting EXCEPT !.pc = "next", !.todo = Models,
                                              !.manifest = manifest]
      BY <1>6 DEF Enrichment!FetchManifest
    <2>. QED
      BY <1>6, <2>1 DEF Enrichment!FetchManifest, Enrichment!Resting, Enrichment!people
  <1>7. CASE Enrichment!LookUp
    BY <1>7, LookUpPreserves
  <1>8. CASE Enrichment!JobEnds
    BY <1>8 DEF Enrichment!JobEnds, Enrichment!Resting, Enrichment!people
  <1>9. CASE UNCHANGED Enrichment!vars
    BY <1>9 DEF Enrichment!vars
  <1>. QED
    BY <1>2, <1>3, <1>4, <1>5, <1>6, <1>7, <1>8, <1>9 DEF Enrichment!Next

\* Labels and owners set by hand (union_tags, build_table_patch_ops) are still
\* there after any number of runs, refused patches and lost pods, except an edit
\* made between the job's read and its patch of that table.
THEOREM HandEditsOutliveTheJob == Spec => []HandEditsSurvive
  <1>. DEFINE Inv == part = "enrichment" => EnrichmentInv
  <1>1. Init => Inv
    BY JobsStart, EnrichmentInit, ServicesAssumption
  <1>2. Inv /\ [Next]_vars => Inv'
    BY JobsStep, EnrichmentPreserved, ServicesAssumption
  <1>3. Inv => HandEditsSurvive
    BY DEF EnrichmentInv, HandEditsSurvive
  <1>. QED
    BY <1>1, <1>2, <1>3, PTL DEF Spec

-----------------------------------------------------------------------------
\* The number of elements is the same in the part's own copy of FiniteSets.
LEMMA LabelsCount == \A S : Enrichment!Cardinality(S) = Cardinality(S)
  BY DEF Enrichment!Cardinality, Cardinality, Enrichment!IsFiniteSet, IsFiniteSet

\* The job holds one table, or none.
HoldsOne == job.on = {} \/ \E m \in Models : job.on = {m}

\* Inductive: exclusive classifications are respected, whoever writes.
LabelsInv ==
    /\ EnrichmentTyped /\ HoldsOne
    /\ ingested \subseteq Models
    /\ \A m \in Models : Enrichment!Consistent(labels[m])

\* A set of labels that contradicts no classification still does not with fewer.
LEMMA FewerAreConsistent ==
    ASSUME Enrichment!ExclusiveAssumption, NEW ls, Enrichment!Consistent(ls),
           NEW fewer \in SUBSET ls
    PROVE  Enrichment!Consistent(fewer)
  <1>. SUFFICES ASSUME NEW c \in Exclusive PROVE Cardinality(fewer \cap c) <= 1
    BY LabelsCount DEF Enrichment!Consistent
  <1>1. IsFiniteSet(c)
    BY DEF Enrichment!ExclusiveAssumption, Enrichment!IsFiniteSet, IsFiniteSet
  <1>2. IsFiniteSet(ls \cap c) /\ fewer \cap c \subseteq ls \cap c
    BY <1>1, FS_Subset
  <1>3. /\ Cardinality(fewer \cap c) <= Cardinality(ls \cap c)
        /\ Cardinality(fewer \cap c) \in Nat /\ Cardinality(ls \cap c) \in Nat
    BY <1>2, FS_Subset, FS_CardinalityType
  <1>4. Cardinality(ls \cap c) <= 1
    BY LabelsCount DEF Enrichment!Consistent
  <1>. QED
    BY <1>3, <1>4

\* No labels, no contradiction.
LEMMA NoneAreConsistent == Enrichment!Consistent({})
  <1>1. \A c : {} \cap c = {}
    OBVIOUS
  <1>. QED
    BY <1>1, LabelsCount, FS_EmptySet DEF Enrichment!Consistent

\* Nothing is ingested, labelled or held.
LEMMA LabelsInit == Enrichment!Init => LabelsInv
  <1>. SUFFICES ASSUME Enrichment!Init PROVE LabelsInv
    OBVIOUS
  <1>1. EnrichmentTyped
    BY EnrichmentInit DEF EnrichmentInv
  <1>2. job.on = {} /\ ingested = {} /\ \A m \in Models : labels[m] = {}
    BY DEF Enrichment!Init, Enrichment!Resting
  <1>. QED
    BY <1>1, <1>2, NoneAreConsistent DEF LabelsInv, HoldsOne

\* A person or the job changes the labels of one table.
LEMMA RelabelKeeps ==
    ASSUME LabelsInv, EnrichmentTyped', HoldsOne', UNCHANGED ingested,
           NEW m \in Models, NEW ls, Enrichment!Consistent(ls),
           labels' = [labels EXCEPT ![m] = ls]
    PROVE  LabelsInv'
  <1>1. ASSUME NEW n \in Models PROVE Enrichment!Consistent(labels'[n])
    <2>1. labels'[n] = IF n = m THEN ls ELSE labels[n]
      BY DEF LabelsInv, EnrichmentTyped
    <2>. QED
      BY <2>1 DEF LabelsInv
  <1>2. \A n \in Models : Enrichment!Consistent(labels[n])'
    BY <1>1 DEF Enrichment!Consistent
  <1>. QED
    BY <1>2 DEF LabelsInv

\* A step that leaves the labels and their tables alone.
LEMMA RestKeepsLabels ==
    ASSUME LabelsInv, EnrichmentTyped', HoldsOne', UNCHANGED labels, ingested' \subseteq Models
    PROVE  LabelsInv'
  BY DEF LabelsInv, Enrichment!Consistent

\* Every step keeps it.
LEMMA LabelsPreserved ==
    ASSUME Enrichment!ExclusiveAssumption, LabelsInv, EnrichmentTyped',
           [Enrichment!Next]_(Enrichment!vars)
    PROVE  LabelsInv'
  <1>. USE DEF LabelsInv
  <1>2. ASSUME NEW m \in Models, NEW l \in Labels, Enrichment!AddByHand(m, l)
        PROVE  LabelsInv'
    <2>1. HoldsOne' /\ UNCHANGED ingested
      BY <1>2 DEF Enrichment!AddByHand, HoldsOne
    <2>2. /\ labels' = [labels EXCEPT ![m] = Enrichment!WithEdit(labels[m], l)]
          /\ Enrichment!Consistent(Enrichment!WithEdit(labels[m], l))
      BY <1>2 DEF Enrichment!AddByHand
    <2>. QED
      BY <2>1, <2>2, RelabelKeeps
  <1>3. ASSUME NEW m \in Models, NEW l \in Labels, Enrichment!RemoveByHand(m, l)
        PROVE  LabelsInv'
    <2>1. HoldsOne' /\ UNCHANGED ingested
      BY <1>3 DEF Enrichment!RemoveByHand, HoldsOne
    <2>2. labels' = [labels EXCEPT ![m] = labels[m] \ {l}]
      BY <1>3 DEF Enrichment!RemoveByHand
    <2>3. Enrichment!Consistent(labels[m] \ {l})
      BY FewerAreConsistent
    <2>. QED
      BY <2>1, <2>2, <2>3, RelabelKeeps
  <1>4. ASSUME NEW m \in Models, NEW o \in Owners, Enrichment!ChooseOwner(m, o)
        PROVE  LabelsInv'
    BY <1>4, RestKeepsLabels DEF Enrichment!ChooseOwner, HoldsOne
  <1>5. ASSUME NEW m \in Models, Enrichment!IngestTable(m) PROVE LabelsInv'
    BY <1>5, RestKeepsLabels DEF Enrichment!IngestTable, Enrichment!people, HoldsOne
  <1>6. ASSUME NEW m \in Models, Enrichment!ReadTable(m) PROVE LabelsInv'
    <2>1. job'.on = {m} \/ job'.on = job.on
      BY <1>6 DEF Enrichment!ReadTable, EnrichmentTyped
    <2>2. HoldsOne'
      BY <2>1 DEF HoldsOne
    <2>. QED
      BY <1>6, <2>2, RestKeepsLabels DEF Enrichment!ReadTable
  <1>7. ASSUME NEW m \in Models, Enrichment!PatchTable(m) PROVE LabelsInv'
    <2>. DEFINE new == Enrichment!United(job.read, job.manifest[m])
    <2>1. job'.on = {} /\ UNCHANGED ingested
      BY <1>7 DEF Enrichment!PatchTable, EnrichmentTyped
    <2>2. HoldsOne'
      BY <2>1 DEF HoldsOne
    <2>3. CASE UNCHANGED labels
      BY <2>1, <2>2, <2>3, RestKeepsLabels
    <2>4. CASE Enrichment!Consistent(new) /\ labels' = [labels EXCEPT ![m] = new]
      <3>. HIDE DEF new
      <3>. QED
        BY <2>1, <2>2, <2>4, RelabelKeeps
    <2>. QED
      BY <1>7, <2>3, <2>4 DEF Enrichment!PatchTable
  <1>8. CASE Enrichment!FetchManifest \/ Enrichment!JobEnds
    <2>1. job'.on = {}
      <3>1. Enrichment!Resting.on = {}
        BY DEF Enrichment!Resting
      <3>2. ASSUME NEW manifest,
                   job' = [Enrichment!Resting EXCEPT !.pc = "next", !.todo = Models,
                                                     !.manifest = manifest]
            PROVE  job'.on = {}
        BY <3>2 DEF Enrichment!Resting
      <3>. QED
        BY <1>8, <3>1, <3>2 DEF Enrichment!FetchManifest, Enrichment!JobEnds
    <2>2. HoldsOne'
      BY <2>1 DEF HoldsOne
    <2>. QED
      BY <1>8, <2>2, RestKeepsLabels
      DEF Enrichment!FetchManifest, Enrichment!JobEnds, Enrichment!people
  <1>9. CASE Enrichment!LookUp
    <2>1. job'.on = job.on
      BY <1>9 DEF Enrichment!LookUp, EnrichmentTyped
    <2>. QED
      BY <1>9, <2>1, RestKeepsLabels DEF Enrichment!LookUp, Enrichment!people, HoldsOne
  <1>10. CASE UNCHANGED Enrichment!vars
    BY <1>10, RestKeepsLabels DEF Enrichment!vars, HoldsOne
  <1>. QED
    BY <1>2, <1>3, <1>4, <1>5, <1>6, <1>7, <1>8, <1>9, <1>10 DEF Enrichment!Next

\* The type invariant of Enrichment follows.
LEMMA EnrichmentTypes == LabelsInv => Enrichment!EnrichmentTypeOK
  <1>. SUFFICES ASSUME LabelsInv PROVE Enrichment!EnrichmentTypeOK
    OBVIOUS
  <1>1. Cardinality(job.on) <= 1
    <2>1. CASE job.on = {}
      BY <2>1, FS_EmptySet
    <2>2. CASE \E m \in Models : job.on = {m}
      <3>1. PICK m \in Models : job.on = {m}
        BY <2>2
      <3>2. Cardinality({m}) = 1
        BY FS_Singleton
      <3>. QED
        BY <3>1, <3>2
    <2>. QED
      BY <2>1, <2>2 DEF LabelsInv, HoldsOne
  <1>. QED
    BY <1>1, LabelsCount DEF LabelsInv, EnrichmentTyped, Enrichment!EnrichmentTypeOK

-----------------------------------------------------------------------------
(* AccessRequest: who may approve *)

\* Types.
FormTyped ==
    /\ account \subseteq People /\ edits \in 0..MaxEdits
    /\ owners \subseteq People \cup Teams /\ members \in [Teams -> SUBSET People]
    /\ form \in [Forms -> Form!Handlers] /\ known \subseteq account
    /\ tasks \subseteq [of : Forms, to : SUBSET People]
    /\ DOMAIN seen = Forms /\ DOMAIN steady = Forms

\* The history of r holds what is, and what lasted is still there.
Witnessed(r) ==
    /\ form[r].at # "unsent" => owners \cup Form!Ways(Teams, members) \subseteq seen[r]
    /\ steady[r] \subseteq Form!Ways(owners, members)

\* The steward stands in only when nobody owned the table all the while or a lookup
\* failed.
MayApprove(r, u) ==
    \/ Form!Owned(r, u)
    \/ u = Steward /\ (steady[r] = {} \/ form[r].failed)

\* Whoever owned the table all the while has been read, or is about to be.
NoneMissed(r) ==
    form[r].at = "teams" /\ ~form[r].failed =>
        \A w \in steady[r] : w[2] \in form[r].names \/ w[1] \in form[r].todo

\* What a handler has read, by how far it is.
Handled(r) ==
    /\ form[r].refs \subseteq account
    /\ form[r].at \in {"unsent", "ensure", "create", "again", "table", "teams"} =>
           form[r].refs = {}
    /\ form[r].at = "again" => RequestedBy[r] \in account
    /\ form[r].at = "teams" =>
           /\ form[r].todo \subseteq Teams \cap seen[r]
           /\ \A u \in form[r].names : Form!Owned(r, u)
    /\ form[r].at = "resolve" =>
           /\ form[r].names # {} /\ form[r].todo \subseteq form[r].names
           /\ form[r].refs \subseteq form[r].names
           /\ \A u \in form[r].names : MayApprove(r, u)
    /\ form[r].at = "refused" /\ ~form[r].failed =>
           form[r].refs = {} /\ form[r].names # {}

\* A task was created with people who may approve it.
TasksFit ==
    \A k \in tasks : /\ form[k.of].at \in {"created", "refused"} /\ k.to # {}
                      /\ \A u \in k.to : MayApprove(k.of, u)

\* Inductive: tasks have an approver.
FormInv ==
    /\ FormTyped /\ TasksFit
    /\ \A r \in Forms : Witnessed(r) /\ NoneMissed(r) /\ Handled(r)

\* What a way to own the table is.
LEMMA WaysAre ==
    ASSUME NEW os, NEW ms, NEW w
    PROVE  w \in Form!Ways(os, ms) <=>
               \/ \E o \in os \cap People : w = <<o, o>>
               \/ \E t \in os \cap Teams : \E u \in ms[t] : w = <<t, u>>
  BY DEF Form!Ways

\* People are named, and are not teams.
LEMMA FormNames ==
    ServicesAssumption =>
        /\ Steward \in People /\ People \cap Teams = {}
        /\ \A r \in Forms : RequestedBy[r] \in People
        /\ MaxEdits \in Nat
  BY DEF ServicesAssumption, Form!RequestAssumption

\* No request yet.
LEMMA FormInit == ServicesAssumption /\ Form!Init => FormInv
  <1>. SUFFICES ASSUME ServicesAssumption, Form!Init PROVE FormInv
    OBVIOUS
  <1>. USE FormNames DEF Form!Init, Form!Unsent
  <1>1. FormTyped
    BY DEF FormTyped, Form!Handlers
  <1>2. TasksFit /\ \A r \in Forms : Witnessed(r) /\ NoneMissed(r) /\ Handled(r)
    BY DEF TasksFit, Witnessed, NoneMissed, Handled
  <1>. QED
    BY <1>1, <1>2 DEF FormInv

\* A step of one handler is the concern of that request only.
LEMMA HandlerFrame ==
    ASSUME FormInv, NEW r \in Forms, UNCHANGED <<owners, members, seen, steady>>,
           account \subseteq account', FormTyped',
           \A s \in Forms \ {r} : form'[s] = form[s],
           form[r].at \notin {"unsent", "created", "refused"}, form'[r].at # "unsent",
           form[r].failed => form'[r].failed,
           Handled(r)', NoneMissed(r)',
           \A k \in tasks' \ tasks : /\ k.of = r /\ form'[r].at \in {"created", "refused"}
                                    /\ k.to # {} /\ \A u \in k.to : MayApprove(r, u)
    PROVE  FormInv'
  <1>1. ASSUME NEW s \in Forms PROVE Witnessed(s)'
    BY DEF FormInv, Witnessed
  <1>2. ASSUME NEW s \in Forms, NEW u, MayApprove(s, u) PROVE MayApprove(s, u)'
    BY <1>2 DEF MayApprove, Form!Owned
  <1>3. ASSUME NEW s \in Forms \ {r} PROVE Handled(s)' /\ NoneMissed(s)'
    BY <1>2 DEF FormInv, Handled, NoneMissed, Form!Owned
  <1>4. TasksFit'
    <2>. SUFFICES ASSUME NEW k \in tasks'
                  PROVE  /\ form'[k.of].at \in {"created", "refused"} /\ k.to # {}
                         /\ \A u \in k.to : MayApprove(k.of, u)'
      BY DEF TasksFit
    <2>1. CASE k \in tasks
      <3>1. k.of \in Forms /\ k.of # r
        BY <2>1 DEF FormInv, FormTyped, TasksFit
      <3>. QED
        BY <1>2, <2>1, <3>1 DEF FormInv, TasksFit
    <2>2. CASE k \notin tasks
      BY <1>2, <2>2
    <2>. QED
      BY <2>1, <2>2
  <1>. QED
    BY <1>1, <1>3, <1>4 DEF FormInv

\* An administrator's edit is witnessed by every request, and ends what it ends.
LEMMA EditKeeps ==
    ASSUME ServicesAssumption, FormInv, NEW os \in SUBSET (People \cup Teams),
           NEW ms \in [Teams -> SUBSET People], Form!EditOwners(os, ms)
    PROVE  FormInv'
  <1>1. /\ edits < MaxEdits /\ edits' = edits + 1 /\ owners' = os /\ members' = ms
        /\ seen' = [r \in Forms |-> seen[r] \cup os \cup Form!Ways(Teams, ms)]
        /\ steady' = [r \in Forms |-> steady[r] \cap Form!Ways(os, ms)]
        /\ UNCHANGED <<account, known, form, tasks>>
    BY DEF Form!EditOwners
  <1>2. FormTyped'
    <2>1. edits' \in 0..MaxEdits
      BY <1>1, FormNames DEF FormInv, FormTyped
    <2>. QED
      BY <1>1, <2>1 DEF FormInv, FormTyped
  <1>3. ASSUME NEW r \in Forms PROVE seen[r] \subseteq seen'[r] /\ steady'[r] \subseteq steady[r]
    BY <1>1
  <1>4. ASSUME NEW r \in Forms, NEW u, MayApprove(r, u) PROVE MayApprove(r, u)'
    BY <1>1, <1>3, <1>4 DEF MayApprove, Form!Owned
  <1>5. ASSUME NEW r \in Forms PROVE Witnessed(r)'
    <2>1. owners' \cup Form!Ways(Teams, members') \subseteq seen'[r]
      BY <1>1
    <2>2. steady'[r] \subseteq Form!Ways(owners', members')
      BY <1>1
    <2>. QED
      BY <2>1, <2>2 DEF Witnessed, Form!Ways
  <1>6. ASSUME NEW r \in Forms PROVE NoneMissed(r)' /\ Handled(r)'
    <2>1. NoneMissed(r) /\ Handled(r)
      BY DEF FormInv
    <2>2. form'[r] = form[r] /\ account' = account
      BY <1>1
    <2>3. NoneMissed(r)'
      BY <1>3, <2>1, <2>2 DEF NoneMissed
    <2>4. seen[r] \subseteq seen'[r]
      BY <1>3
    <2>5. \A u : Form!Owned(r, u) => Form!Owned(r, u)'
      BY <2>4 DEF Form!Owned
    <2>6. \A u : MayApprove(r, u) => MayApprove(r, u)'
      BY <1>4
    <2>. QED
      BY <2>1, <2>2, <2>3, <2>4, <2>5, <2>6 DEF Handled
  <1>7. TasksFit'
    BY <1>1, <1>4 DEF FormInv, FormTyped, TasksFit
  <1>. QED
    BY <1>2, <1>5, <1>6, <1>7 DEF FormInv

\* One handler moves on.
LEMMA DecisionMoves ==
    ASSUME FormTyped, NEW r \in Forms, NEW j \in Form!Handlers,
           form' = [form EXCEPT ![r] = j]
    PROVE  /\ form' \in [Forms -> Form!Handlers] /\ form'[r] = j
           /\ \A s \in Forms \ {r} : form'[s] = form[s]
  BY DEF FormTyped

\* A handler moves on, and keeps what it has read.
LEMMA HandlerGoes ==
    ASSUME FormTyped, NEW r \in Forms,
           NEW at \in {"ensure", "create", "again", "table", "teams", "resolve", "created",
                       "refused"},
           Form!Goto(r, at)
    PROVE  /\ form' \in [Forms -> Form!Handlers] /\ form'[r].at = at
           /\ form'[r].names = form[r].names /\ form'[r].todo = form[r].todo
           /\ form'[r].refs = form[r].refs /\ form'[r].failed = form[r].failed
           /\ \A s \in Forms \ {r} : form'[s] = form[s]
  <1>. DEFINE j == [form[r] EXCEPT !.at = at]
  <1>1. /\ j \in Form!Handlers /\ j.at = at
        /\ j.names = form[r].names /\ j.todo = form[r].todo
        /\ j.refs = form[r].refs /\ j.failed = form[r].failed
    BY DEF FormTyped, Form!Handlers
  <1>2. form' = [form EXCEPT ![r] = j]
    BY DEF Form!Goto
  <1>. HIDE DEF j
  <1>. QED
    BY <1>1, <1>2, DecisionMoves

\* A request comes: its history begins with what is.
LEMMA SubmitKeeps ==
    ASSUME FormInv, NEW r \in Forms, Form!Submit(r)
    PROVE  FormInv'
  <1>1. /\ form[r].at = "unsent" /\ Form!Goto(r, "ensure")
        /\ seen' = [seen EXCEPT ![r] = owners \cup Form!Ways(Teams, members)]
        /\ steady' = [steady EXCEPT ![r] = Form!Ways(owners, members)]
        /\ UNCHANGED <<account, owners, members, edits, known, tasks>>
    BY DEF Form!Submit, Form!At, Form!world
  <1>2. /\ form' \in [Forms -> Form!Handlers] /\ form'[r].at = "ensure"
        /\ form'[r].refs = form[r].refs
        /\ \A s \in Forms \ {r} : form'[s] = form[s]
    BY <1>1, HandlerGoes DEF FormInv
  <1>3. /\ DOMAIN seen' = Forms /\ DOMAIN steady' = Forms
        /\ seen'[r] = owners \cup Form!Ways(Teams, members)
        /\ steady'[r] = Form!Ways(owners, members)
        /\ \A s \in Forms \ {r} : seen'[s] = seen[s] /\ steady'[s] = steady[s]
    BY <1>1 DEF FormInv, FormTyped
  <1>4. FormTyped'
    BY <1>1, <1>2, <1>3 DEF FormInv, FormTyped
  <1>5. NoneMissed(r)' /\ Handled(r)'
    BY <1>1, <1>2 DEF FormInv, NoneMissed, Handled
  <1>6. Witnessed(r)'
    <2>1. owners' \cup Form!Ways(Teams, members)' \subseteq seen'[r]
      BY <1>1, <1>3 DEF Form!Ways
    <2>2. steady'[r] \subseteq Form!Ways(owners, members)'
      BY <1>1, <1>3 DEF Form!Ways
    <2>. QED
      BY <2>1, <2>2 DEF Witnessed
  <1>7. ASSUME NEW s \in Forms \ {r} PROVE Witnessed(s)' /\ NoneMissed(s)' /\ Handled(s)'
    <2>1. Witnessed(s)'
      BY <1>1, <1>2, <1>3 DEF FormInv, Witnessed, Form!Ways
    <2>2. form'[s] = form[s] /\ seen'[s] = seen[s] /\ steady'[s] = steady[s]
      BY <1>2, <1>3
    <2>3. \A u : Form!Owned(s, u)' <=> Form!Owned(s, u)
      BY <2>2 DEF Form!Owned
    <2>4. \A u : MayApprove(s, u)' <=> MayApprove(s, u)
      BY <2>2, <2>3 DEF MayApprove
    <2>5. NoneMissed(s)'
      BY <2>2 DEF FormInv, NoneMissed
    <2>6. Handled(s)'
      BY <1>1, <2>2, <2>3, <2>4 DEF FormInv, Handled
    <2>. QED
      BY <2>1, <2>5, <2>6
  <1>8. TasksFit'
    <2>1. \A k \in tasks : k.of \in Forms \ {r}
      BY <1>1 DEF FormInv, FormTyped, TasksFit
    <2>. QED
      BY <1>1, <1>2, <1>3, <2>1 DEF FormInv, TasksFit, MayApprove, Form!Owned
  <1>. QED
    BY <1>4, <1>5, <1>6, <1>7, <1>8 DEF FormInv

\* ensure_user: when it is over the requester has an account, whoever made it.
LEMMA EnsureKeeps ==
    ASSUME ServicesAssumption, FormInv, NEW r \in Forms,
           Form!Ensure(r) \/ Form!CreateUser(r) \/ Form!LookAgain(r)
    PROVE  FormInv'
  <1>1. RequestedBy[r] \in People
    BY FormNames
  <1>2. /\ form[r].at \in {"ensure", "create", "again"}
        /\ \E at \in {"create", "again", "table"} :
              Form!Goto(r, at) /\ (at = "again" => RequestedBy[r] \in account)
        /\ account' \in {account, account \cup {RequestedBy[r]}}
        /\ known' \subseteq known \cup {RequestedBy[r]}
        /\ RequestedBy[r] \in known' => RequestedBy[r] \in account' \/ RequestedBy[r] \in known
        /\ UNCHANGED <<owners, members, edits, tasks, seen, steady>>
    <2>1. CASE Form!Ensure(r)
      BY <2>1 DEF Form!Ensure, Form!At, Form!Found, Form!world, Form!history
    <2>2. CASE Form!CreateUser(r)
      BY <2>2 DEF Form!CreateUser, Form!At, Form!world, Form!history
    <2>3. CASE Form!LookAgain(r)
      <3>1. RequestedBy[r] \in account
        BY <2>3 DEF FormInv, Handled, Form!LookAgain, Form!At
      <3>. QED
        BY <2>3, <3>1 DEF Form!LookAgain, Form!At, Form!world, Form!history
    <2>. QED
      BY <2>1, <2>2, <2>3
  <1>3. PICK at \in {"create", "again", "table"} :
           Form!Goto(r, at) /\ (at = "again" => RequestedBy[r] \in account)
    BY <1>2
  <1>4. /\ form' \in [Forms -> Form!Handlers] /\ form'[r].at = at
        /\ form'[r].refs = form[r].refs /\ form'[r].failed = form[r].failed
        /\ \A s \in Forms \ {r} : form'[s] = form[s]
    BY <1>3, HandlerGoes DEF FormInv
  <1>5. FormTyped' /\ account \subseteq account'
    BY <1>1, <1>2, <1>4 DEF FormInv, FormTyped
  <1>6. Handled(r)' /\ NoneMissed(r)'
    BY <1>2, <1>3, <1>4, <1>5 DEF FormInv, Handled, NoneMissed
  <1>. QED
    BY <1>2, <1>4, <1>5, <1>6, HandlerFrame

\* get_table: who owns the table is a candidate, or a team to be asked.
LEMMA ReadTableKeeps ==
    ASSUME ServicesAssumption, FormInv, NEW r \in Forms, Form!ReadTable(r)
    PROVE  FormInv'
  <1>. DEFINE j == [form[r] EXCEPT !.at = "teams", !.names = owners \cap People,
                                   !.todo = owners \cap Teams]
  <1>1. /\ form[r].at = "table" /\ form' = [form EXCEPT ![r] = j]
        /\ UNCHANGED <<account, owners, members, edits, known, tasks, seen, steady>>
    BY DEF Form!ReadTable, Form!At, Form!world, Form!history
  <1>2. /\ j \in Form!Handlers /\ j.at = "teams"
        /\ j.names = owners \cap People /\ j.todo = owners \cap Teams
        /\ j.refs = form[r].refs /\ j.failed = form[r].failed
    BY DEF FormInv, FormTyped, Form!Handlers
  <1>. HIDE DEF j
  <1>3. /\ form' \in [Forms -> Form!Handlers] /\ form'[r] = j
        /\ \A s \in Forms \ {r} : form'[s] = form[s]
    BY <1>1, <1>2, DecisionMoves DEF FormInv
  <1>4. FormTyped'
    BY <1>1, <1>3 DEF FormInv, FormTyped
  <1>5. owners \subseteq seen[r] /\ steady[r] \subseteq Form!Ways(owners, members)
    BY <1>1 DEF FormInv, Witnessed
  <1>6. Handled(r)'
    BY <1>1, <1>2, <1>3, <1>5 DEF FormInv, Handled, Form!Owned
  <1>7. NoneMissed(r)'
    <2>. SUFFICES ASSUME NEW w \in steady[r] PROVE w[2] \in j.names \/ w[1] \in j.todo
      BY <1>1, <1>3 DEF NoneMissed
    <2>. QED
      BY <1>2, <1>5, WaysAre
  <1>. QED
    BY <1>1, <1>2, <1>3, <1>4, <1>6, <1>7, HandlerFrame

\* lookup_team_users: the members own the table, or the call failed.
LEMMA ReadTeamKeeps ==
    ASSUME ServicesAssumption, FormInv, NEW r \in Forms, NEW t \in Teams,
           Form!ReadTeam(r, t)
    PROVE  FormInv'
  <1>1. /\ form[r].at = "teams" /\ t \in form[r].todo
        /\ UNCHANGED <<account, owners, members, edits, known, tasks, seen, steady>>
    BY DEF Form!ReadTeam, Form!At, Form!world, Form!history
  <1>2. /\ members[t] \subseteq People /\ form[r] \in Form!Handlers
        /\ t \in Teams \cap seen[r]
        /\ \A u \in members[t] : <<t, u>> \in seen[r]
        /\ steady[r] \subseteq Form!Ways(owners, members)
    <2>1. \A u \in members[t] : <<t, u>> \in Form!Ways(Teams, members)
      BY WaysAre
    <2>. QED
      BY <1>1, <2>1 DEF FormInv, FormTyped, Witnessed, Handled
  <1>3. PICK j \in Form!Handlers :
           /\ form' = [form EXCEPT ![r] = j]
           /\ j.at = "teams" /\ j.todo = form[r].todo \ {t} /\ j.refs = form[r].refs
           /\ \/ j.names = form[r].names \cup members[t] /\ j.failed = form[r].failed
              \/ j.names = form[r].names /\ j.failed = TRUE
    <2>1. CASE form' = [form EXCEPT ![r].todo = @ \ {t}, ![r].names = @ \cup members[t]]
      <3>. DEFINE j == [form[r] EXCEPT !.todo = @ \ {t}, !.names = @ \cup members[t]]
      <3>1. /\ j \in Form!Handlers
            /\ j.at = "teams" /\ j.todo = form[r].todo \ {t} /\ j.refs = form[r].refs
            /\ j.names = form[r].names \cup members[t] /\ j.failed = form[r].failed
        BY <1>1, <1>2 DEF Form!Handlers
      <3>2. form' = [form EXCEPT ![r] = j]
        BY <2>1 DEF FormInv, FormTyped
      <3>. HIDE DEF j
      <3>. QED
        BY <3>1, <3>2
    <2>2. CASE form' = [form EXCEPT ![r].todo = @ \ {t}, ![r].failed = TRUE]
      <3>. DEFINE j == [form[r] EXCEPT !.todo = @ \ {t}, !.failed = TRUE]
      <3>1. /\ j \in Form!Handlers
            /\ j.at = "teams" /\ j.todo = form[r].todo \ {t} /\ j.refs = form[r].refs
            /\ j.names = form[r].names /\ j.failed = TRUE
        BY <1>1, <1>2 DEF Form!Handlers
      <3>2. form' = [form EXCEPT ![r] = j]
        BY <2>2 DEF FormInv, FormTyped
      <3>. HIDE DEF j
      <3>. QED
        BY <3>1, <3>2
    <2>. QED
      BY <2>1, <2>2 DEF Form!ReadTeam
  <1>4. /\ form' \in [Forms -> Form!Handlers] /\ form'[r] = j
        /\ \A s \in Forms \ {r} : form'[s] = form[s]
    BY <1>3, DecisionMoves DEF FormInv
  <1>5. FormTyped'
    BY <1>1, <1>4 DEF FormInv, FormTyped
  <1>6. Handled(r)'
    <2>1. \A u \in members[t] : Form!Owned(r, u)
      BY <1>2 DEF Form!Owned
    <2>2. \A u : Form!Owned(r, u)' <=> Form!Owned(r, u)
      BY <1>1 DEF Form!Owned
    <2>. QED
      BY <1>1, <1>3, <1>4, <2>1, <2>2 DEF FormInv, Handled
  <1>7. NoneMissed(r)'
    <2>. SUFFICES ASSUME NEW w \in steady[r], ~j.failed PROVE w[2] \in j.names \/ w[1] \in j.todo
      BY <1>1, <1>4 DEF NoneMissed
    <2>1. j.names = form[r].names \cup members[t] /\ ~form[r].failed
      BY <1>3
    <2>2. w[2] \in form[r].names \/ w[1] \in form[r].todo
      BY <1>1, <2>1 DEF FormInv, NoneMissed
    <2>3. CASE w[1] = t
      <3>1. w \in Form!Ways(owners, members) /\ t \notin People
        BY <1>2, FormNames
      <3>2. w[2] \in members[t]
        BY <2>3, <3>1, WaysAre
      <3>. QED
        BY <2>1, <3>2
    <2>. QED
      BY <1>3, <2>1, <2>2, <2>3
  <1>. QED
    BY <1>1, <1>3, <1>4, <1>5, <1>6, <1>7, HandlerFrame

\* Nobody was read: then nobody owned the table all the while, or a call failed.
LEMMA AssignKeeps ==
    ASSUME ServicesAssumption, FormInv, NEW r \in Forms, Form!Assign(r)
    PROVE  FormInv'
  <1>. DEFINE names == IF form[r].names = {} THEN {Steward} ELSE form[r].names
              j == [form[r] EXCEPT !.at = "resolve", !.names = names, !.todo = names]
  <1>1. /\ form[r].at = "teams" /\ form[r].todo = {} /\ form' = [form EXCEPT ![r] = j]
        /\ UNCHANGED <<account, owners, members, edits, known, tasks, seen, steady>>
    BY DEF Form!Assign, Form!At, Form!world, Form!history, FormInv, FormTyped
  <1>2. names \subseteq People /\ names # {} /\ form[r] \in Form!Handlers
    BY FormNames DEF FormInv, FormTyped, Form!Handlers
  <1>3. \A u \in names : MayApprove(r, u)
    <2>1. CASE form[r].names = {}
      BY <1>1, <2>1 DEF FormInv, NoneMissed, MayApprove
    <2>2. CASE form[r].names # {}
      <3>1. \A u \in form[r].names : MayApprove(r, u)
        BY <1>1 DEF FormInv, Handled, MayApprove
      <3>. QED
        BY <2>2, <3>1
    <2>. QED
      BY <2>1, <2>2
  <1>. HIDE DEF names
  <1>4. /\ j \in Form!Handlers /\ j.at = "resolve" /\ j.names = names /\ j.todo = names
        /\ j.refs = form[r].refs /\ j.failed = form[r].failed
    BY <1>2 DEF Form!Handlers
  <1>. HIDE DEF j
  <1>5. /\ form' \in [Forms -> Form!Handlers] /\ form'[r] = j
        /\ \A s \in Forms \ {r} : form'[s] = form[s]
    BY <1>1, <1>4, DecisionMoves DEF FormInv
  <1>6. FormTyped'
    BY <1>1, <1>5 DEF FormInv, FormTyped
  <1>7. Handled(r)' /\ NoneMissed(r)'
    <2>1. \A u \in names : MayApprove(r, u)'
      BY <1>1, <1>3, <1>4, <1>5 DEF MayApprove, Form!Owned
    <2>. QED
      BY <1>1, <1>2, <1>4, <1>5, <2>1 DEF FormInv, Handled, NoneMissed
  <1>. QED
    BY <1>1, <1>4, <1>5, <1>6, <1>7, HandlerFrame

\* resolve_assignee_refs keeps those who have an account.
LEMMA ResolveKeeps ==
    ASSUME FormInv, NEW r \in Forms, NEW u \in People, Form!Resolve(r, u)
    PROVE  FormInv'
  <1>1. /\ form[r].at = "resolve" /\ u \in form[r].todo
        /\ UNCHANGED <<account, owners, members, edits, tasks, seen, steady>>
    BY DEF Form!Resolve, Form!At, Form!world, Form!history
  <1>2. form[r] \in Form!Handlers
    BY DEF FormInv, FormTyped
  <1>3. PICK j \in Form!Handlers :
           /\ form' = [form EXCEPT ![r] = j]
           /\ j.at = "resolve" /\ j.names = form[r].names /\ j.todo = form[r].todo \ {u}
           /\ form[r].failed => j.failed
           /\ \/ j.refs = form[r].refs \cup {u} /\ u \in account /\ known' = known \cup {u}
              \/ j.refs = form[r].refs /\ known' = known
    <2>1. CASE /\ Form!Found(u) /\ known' = known \cup {u}
               /\ form' = [form EXCEPT ![r].todo = @ \ {u}, ![r].refs = @ \cup {u}]
      <3>. DEFINE j == [form[r] EXCEPT !.todo = @ \ {u}, !.refs = @ \cup {u}]
      <3>1. /\ j \in Form!Handlers
            /\ j.at = "resolve" /\ j.names = form[r].names /\ j.todo = form[r].todo \ {u}
            /\ j.failed = form[r].failed /\ j.refs = form[r].refs \cup {u}
        BY <1>1, <1>2 DEF Form!Handlers
      <3>2. form' = [form EXCEPT ![r] = j] /\ u \in account
        BY <2>1 DEF FormInv, FormTyped, Form!Found
      <3>. HIDE DEF j
      <3>. QED
        BY <2>1, <3>1, <3>2
    <2>2. CASE /\ u \notin known /\ UNCHANGED known
               /\ form' = [form EXCEPT ![r].todo = @ \ {u}, ![r].failed = @ \/ u \in account]
      <3>. DEFINE j == [form[r] EXCEPT !.todo = @ \ {u}, !.failed = @ \/ u \in account]
      <3>1. form[r].failed \in BOOLEAN /\ (form[r].failed \/ u \in account) \in BOOLEAN
        BY <1>2 DEF Form!Handlers
      <3>2. /\ j \in Form!Handlers
            /\ j.at = "resolve" /\ j.names = form[r].names /\ j.todo = form[r].todo \ {u}
            /\ j.failed = (form[r].failed \/ u \in account) /\ j.refs = form[r].refs
        BY <1>1, <1>2, <3>1 DEF Form!Handlers
      <3>3. form' = [form EXCEPT ![r] = j]
        BY <2>2 DEF FormInv, FormTyped
      <3>. HIDE DEF j
      <3>. QED
        BY <2>2, <3>2, <3>3
    <2>. QED
      BY <2>1, <2>2 DEF Form!Resolve
  <1>4. /\ form' \in [Forms -> Form!Handlers] /\ form'[r] = j
        /\ \A s \in Forms \ {r} : form'[s] = form[s]
    BY <1>3, DecisionMoves DEF FormInv
  <1>5. FormTyped'
    BY <1>1, <1>3, <1>4 DEF FormInv, FormTyped
  <1>6. Handled(r)' /\ NoneMissed(r)'
    <2>1. \A v \in form[r].names : MayApprove(r, v)'
      BY <1>1, <1>3, <1>4 DEF FormInv, Handled, MayApprove, Form!Owned
    <2>. QED
      BY <1>1, <1>3, <1>4, <2>1 DEF FormInv, Handled, NoneMissed
  <1>. QED
    BY <1>1, <1>3, <1>4, <1>5, <1>6, HandlerFrame

\* create_request_task: the task goes to whom was found.
LEMMA PostTaskKeeps ==
    ASSUME FormInv, NEW r \in Forms, Form!PostTask(r)
    PROVE  FormInv'
  <1>1. /\ form[r].at = "resolve"
        /\ UNCHANGED <<account, owners, members, edits, known, seen, steady>>
    BY DEF Form!PostTask, Form!At, Form!world, Form!history
  <1>2. /\ form[r] \in Form!Handlers
        /\ form[r].names # {} /\ form[r].refs \subseteq form[r].names
        /\ form[r].refs \subseteq account /\ form[r].refs \subseteq People
        /\ \A u \in form[r].names : MayApprove(r, u)
    BY <1>1 DEF FormInv, FormTyped, Handled, Form!Handlers
  <1>3. CASE form[r].refs = {}
    <2>1. Form!Goto(r, "refused") /\ tasks' = tasks
      BY <1>3 DEF Form!PostTask, Form!Refusal
    <2>2. /\ form' \in [Forms -> Form!Handlers] /\ form'[r].at = "refused"
          /\ form'[r].names = form[r].names /\ form'[r].refs = form[r].refs
          /\ form'[r].failed = form[r].failed
          /\ \A s \in Forms \ {r} : form'[s] = form[s]
      BY <2>1, HandlerGoes DEF FormInv
    <2>3. FormTyped'
      BY <1>1, <2>1, <2>2 DEF FormInv, FormTyped
    <2>4. Handled(r)' /\ NoneMissed(r)'
      BY <1>1, <1>2, <1>3, <2>2 DEF Handled, NoneMissed
    <2>. QED
      BY <1>1, <2>1, <2>2, <2>3, <2>4, HandlerFrame
  <1>4. CASE form[r].refs # {}
    <2>1. PICK at \in {"created", "refused"} :
             form' = [form EXCEPT ![r].at = at, ![r].failed = @ \/ at = "refused"]
      BY <1>4 DEF Form!PostTask, Form!Refusal
    <2>. DEFINE j == [form[r] EXCEPT !.at = at, !.failed = @ \/ at = "refused"]
                k == [of |-> r, to |-> form[r].refs]
    <2>2. tasks' = tasks \cup {k}
      BY <1>4 DEF Form!PostTask, Form!Refusal
    <2>3. (form[r].failed \/ at = "refused") \in BOOLEAN
      BY <1>2 DEF Form!Handlers
    <2>4. /\ j \in Form!Handlers /\ j.at = at /\ j.refs = form[r].refs
          /\ j.failed = (form[r].failed \/ at = "refused")
      BY <1>2, <2>3 DEF Form!Handlers
    <2>5. form' = [form EXCEPT ![r] = j]
      BY <2>1 DEF FormInv, FormTyped
    <2>6. /\ k \in [of : Forms, to : SUBSET People] /\ k.of = r /\ k.to = form[r].refs
      BY <1>2
    <2>. HIDE DEF j, k
    <2>7. /\ form' \in [Forms -> Form!Handlers] /\ form'[r] = j
          /\ \A s \in Forms \ {r} : form'[s] = form[s]
      BY <2>4, <2>5, DecisionMoves DEF FormInv
    <2>8. FormTyped'
      BY <1>1, <2>2, <2>6, <2>7 DEF FormInv, FormTyped
    <2>9. Handled(r)' /\ NoneMissed(r)'
      BY <1>1, <1>2, <2>4, <2>7 DEF Handled, NoneMissed
    <2>10. /\ form[r].at \notin {"unsent", "created", "refused"} /\ form'[r].at # "unsent"
           /\ form'[r].at \in {"created", "refused"}
           /\ form[r].failed => form'[r].failed
      BY <1>1, <2>4, <2>7
    <2>11. \A t \in tasks' \ tasks : /\ t.of = r /\ t.to # {}
                                     /\ \A u \in t.to : MayApprove(r, u)
      BY <1>2, <1>4, <2>2, <2>6
    <2>12. \A t \in tasks' \ tasks : /\ t.of = r /\ form'[r].at \in {"created", "refused"}
                                     /\ t.to # {} /\ \A u \in t.to : MayApprove(r, u)
      BY <2>10, <2>11
    <2>13. /\ UNCHANGED <<owners, members, seen, steady>> /\ account \subseteq account'
           /\ \A s \in Forms \ {r} : form'[s] = form[s]
           /\ form[r].at \notin {"unsent", "created", "refused"} /\ form'[r].at # "unsent"
           /\ form[r].failed => form'[r].failed
      BY <1>1, <2>7, <2>10
    <2>. QED
      BY <2>8, <2>9, <2>12, <2>13, HandlerFrame
  <1>. QED
    BY <1>3, <1>4

\* A handler that is given up has failed.
LEMMA FailKeeps ==
    ASSUME FormInv, NEW r \in Forms, Form!RequestFails(r)
    PROVE  FormInv'
  <1>. DEFINE j == [form[r] EXCEPT !.at = "refused", !.failed = TRUE]
  <1>1. /\ form[r].at \notin {"unsent", "created", "refused"}
        /\ form' = [form EXCEPT ![r] = j]
        /\ UNCHANGED <<account, owners, members, edits, known, tasks, seen, steady>>
    BY DEF Form!RequestFails, Form!At, Form!world, Form!history, FormInv, FormTyped
  <1>2. /\ j \in Form!Handlers /\ j.at = "refused" /\ j.failed = TRUE
        /\ j.refs = form[r].refs
    BY DEF FormInv, FormTyped, Form!Handlers
  <1>. HIDE DEF j
  <1>3. /\ form' \in [Forms -> Form!Handlers] /\ form'[r] = j
        /\ \A s \in Forms \ {r} : form'[s] = form[s]
    BY <1>1, <1>2, DecisionMoves DEF FormInv
  <1>4. FormTyped'
    BY <1>1, <1>3 DEF FormInv, FormTyped
  <1>5. Handled(r)' /\ NoneMissed(r)'
    BY <1>1, <1>2, <1>3 DEF FormInv, Handled, NoneMissed
  <1>. QED
    BY <1>1, <1>2, <1>3, <1>4, <1>5, HandlerFrame

\* With the pod go its handlers and its cache.
LEMMA RestartKeeps ==
    ASSUME FormInv, Form!BridgeRestarts
    PROVE  FormInv'
  <1>1. /\ known' = {}
        /\ UNCHANGED <<account, owners, members, edits, tasks, seen, steady>>
        /\ DOMAIN form' = Forms
        /\ form' = [r \in Forms |->
                       IF form[r].at \in {"unsent", "created", "refused"} THEN form[r]
                       ELSE [form[r] EXCEPT !.at = "refused", !.failed = TRUE]]
    BY DEF Form!BridgeRestarts, Form!world, Form!history
  <1>2. ASSUME NEW r \in Forms
        PROVE  /\ form'[r] \in Form!Handlers /\ form'[r].refs = form[r].refs
               /\ \/ form'[r] = form[r]
                  \/ /\ form'[r].at = "refused" /\ form'[r].failed = TRUE
                     /\ form[r].at \notin {"unsent", "created", "refused"}
    <2>1. form[r] \in Form!Handlers
      BY DEF FormInv, FormTyped
    <2>. DEFINE j == [form[r] EXCEPT !.at = "refused", !.failed = TRUE]
    <2>2. /\ j \in Form!Handlers /\ j.at = "refused" /\ j.failed = TRUE
          /\ j.refs = form[r].refs
      BY <2>1 DEF Form!Handlers
    <2>3. form'[r] = IF form[r].at \in {"unsent", "created", "refused"} THEN form[r] ELSE j
      BY <1>1
    <2>. HIDE DEF j
    <2>. QED
      BY <2>1, <2>2, <2>3
  <1>3. form' \in [Forms -> Form!Handlers]
    <2>1. \A r \in Forms : form'[r] \in Form!Handlers
      BY <1>2
    <2>. QED
      BY <1>1, <2>1
  <1>4. FormTyped'
    BY <1>1, <1>3 DEF FormInv, FormTyped
  <1>5. ASSUME NEW r \in Forms, NEW u, MayApprove(r, u) PROVE MayApprove(r, u)'
    BY <1>1, <1>2, <1>5 DEF MayApprove, Form!Owned
  <1>6. ASSUME NEW r \in Forms PROVE Witnessed(r)' /\ NoneMissed(r)' /\ Handled(r)'
    <2>1. CASE form'[r] = form[r]
      <3>1. Witnessed(r)' /\ NoneMissed(r)'
        BY <1>1, <2>1 DEF FormInv, Witnessed, NoneMissed
      <3>2. \A u : Form!Owned(r, u)' <=> Form!Owned(r, u)
        BY <1>1 DEF Form!Owned
      <3>3. Handled(r)'
        BY <1>1, <1>5, <2>1, <3>2 DEF FormInv, Handled
      <3>. QED
        BY <3>1, <3>3
    <2>2. CASE /\ form'[r].at = "refused" /\ form'[r].failed = TRUE
               /\ form[r].at \notin {"unsent", "created", "refused"}
      BY <1>1, <1>2, <2>2 DEF FormInv, Witnessed, NoneMissed, Handled
    <2>. QED
      BY <1>2, <2>1, <2>2
  <1>7. TasksFit'
    <2>. SUFFICES ASSUME NEW k \in tasks
                  PROVE  /\ form'[k.of].at \in {"created", "refused"} /\ k.to # {}
                         /\ \A u \in k.to : MayApprove(k.of, u)'
      BY <1>1 DEF TasksFit
    <2>1. k.of \in Forms /\ form[k.of].at \in {"created", "refused"}
      BY DEF FormInv, FormTyped, TasksFit
    <2>. QED
      BY <1>2, <1>5, <2>1 DEF FormInv, TasksFit
  <1>. QED
    BY <1>4, <1>6, <1>7 DEF FormInv

\* The form keeps it.
LEMMA FormPreserved ==
    ServicesAssumption /\ FormInv /\ [Form!Next]_(Form!vars) => FormInv'
  <1>. SUFFICES ASSUME ServicesAssumption, FormInv, [Form!Next]_(Form!vars)
                PROVE  FormInv'
    OBVIOUS
  <1>0. ASSUME UNCHANGED <<owners, members, edits, form, tasks, seen, steady>>,
               account \subseteq account', account' \subseteq People, known' = known
        PROVE  FormInv'
    <2>1. FormTyped'
      BY <1>0 DEF FormInv, FormTyped
    <2>2. TasksFit'
      BY <1>0 DEF FormInv, TasksFit, MayApprove, Form!Owned
    <2>3. ASSUME NEW r \in Forms PROVE Witnessed(r)' /\ NoneMissed(r)'
      BY <1>0 DEF FormInv, Witnessed, NoneMissed
    <2>4. ASSUME NEW r \in Forms PROVE Handled(r)'
      BY <1>0 DEF FormInv, Handled, MayApprove, Form!Owned
    <2>. QED
      BY <2>1, <2>2, <2>3, <2>4 DEF FormInv
  <1>1. CASE UNCHANGED Form!vars
    BY <1>0, <1>1 DEF FormInv, FormTyped, Form!vars, Form!world, Form!history
  <1>2. ASSUME NEW u \in People, Form!AccountMade(u) PROVE FormInv'
    <2>1. /\ account' = account \cup {u}
          /\ UNCHANGED <<owners, members, edits, known, form, tasks, seen, steady>>
      BY <1>2 DEF Form!AccountMade, Form!world, Form!history
    <2>. QED
      BY <1>0, <2>1 DEF FormInv, FormTyped
  <1>. QED
    BY <1>1, <1>2, EditKeeps, SubmitKeeps, EnsureKeeps, ReadTableKeeps, ReadTeamKeeps,
       AssignKeeps, ResolveKeeps, PostTaskKeeps, FailKeeps, RestartKeeps DEF Form!Next

\* The type invariant of the module.
LEMMA FormTypes == FormInv => Form!RequestTypeOK
  BY DEF FormInv, FormTyped, Handled, Form!RequestTypeOK

\* Every task of the form has an approver, each an owner of the table while the
\* request was handled or the data steward, who stands in only when nobody owned it
\* all the while or a lookup failed; a refusal has a cause
\* (create_access_request, 663-702; ensure_user, 358).
THEOREM TasksGoToApprovers == Spec => []TasksHaveApprover
  <1>. DEFINE Inv == part = "form" => FormInv
  <1>1. Init => Inv
    BY ServicesAssumption, JobsStart, FormInit
  <1>2. Inv /\ [Next]_vars => Inv'
    BY ServicesAssumption, JobsStep, FormPreserved
  <1>3. Inv => TasksHaveApprover
    <2>1. FormInv => Form!TasksHaveApprover
      BY DEF FormInv, FormTyped, TasksFit, MayApprove, Handled, Form!TasksHaveApprover
    <2>. QED
      BY <2>1 DEF TasksHaveApprover
  <1>. QED
    BY <1>1, <1>2, <1>3, PTL DEF Spec

-----------------------------------------------------------------------------
(* UserSync: everybody in the realm gets an syncAccount *)

\* Who is listed, and the records of the job.
Entries == [name : Sync!RealmUsers, profile : Sync!Profiles]
SyncJobs == [at : {"idle", "list", "post", "get", "patch"}, first : Nat,
             users : Seq(Entries), failed : BOOLEAN]

\* Types; who is settled is in the realm, and nobody is without a job.
UsersTyped ==
    /\ realm \in [Sync!RealmUsers -> Sync!Profiles \cup {Sync!NoAccount}]
    /\ syncAccount \in [Sync!RealmUsers -> Sync!Profiles \cup {Sync!NoAccount, Sync!Bare}]
    /\ syncEdits \in 0..MaxEdits
    /\ pass \in SyncJobs
    /\ pass.at \in {"get", "patch"} => Len(pass.users) > 0
    /\ settled \subseteq Sync!Present /\ (pass.at = "idle" => settled = {})

\* User u is listed and not yet done.
ToDo(u) == \E n \in 1..Len(pass.users) : pass.users[n].name = u

\* A settled user is listed, or will be, or has the account the realm asks for.
Covered(u) ==
    \/ pass.failed
    \/ ToDo(u)
    \/ pass.at = "list" /\ Sync!Before(u) >= pass.first
    \/ pass.at \in {"post", "get", "patch"} /\ syncAccount[u] = realm[u]

\* What is listed of a settled user is what the realm has.
ListedIsCurrent ==
    \A n \in 1..Len(pass.users) :
        pass.users[n].name \in settled =>
            pass.users[n].profile = realm[pass.users[n].name]

\* Inductive: nobody who is settled is missed.
UsersInv == UsersTyped /\ ListedIsCurrent /\ \A u \in settled : Covered(u)

-----------------------------------------------------------------------------
\* An instance has copies of the operators of FiniteSets of its own.
LEMMA UsersCount == \A S : Sync!Cardinality(S) = Cardinality(S)
  BY DEF Sync!Cardinality, Cardinality, Sync!IsFiniteSet, IsFiniteSet

\* Every user has a place of their own in Keycloak's order.
LEMMA Places ==
    ASSUME Sync!UsersAssumption
    PROVE  /\ Len(RealmOrder) \in Nat /\ IsFiniteSet(Sync!RealmUsers)
           /\ \A u \in Sync!RealmUsers :
                 Sync!Place(u) \in 1..Len(RealmOrder) /\ RealmOrder[Sync!Place(u)] = u
  <1>1. /\ Len(RealmOrder) \in Nat /\ DOMAIN RealmOrder = 1..Len(RealmOrder)
        /\ RealmOrder \in [1..Len(RealmOrder) -> Sync!RealmUsers]
    BY LenProperties DEF Sync!UsersAssumption
  <1>2. ASSUME NEW u \in Sync!RealmUsers
        PROVE  Sync!Place(u) \in 1..Len(RealmOrder) /\ RealmOrder[Sync!Place(u)] = u
    <2>1. \E i \in DOMAIN RealmOrder : RealmOrder[i] = u
      BY <1>2 DEF Sync!RealmUsers, Sync!ToSet
    <2>. QED
      BY <1>1, <2>1 DEF Sync!Place
  <1>3. RealmOrder \in Surjection(1..Len(RealmOrder), Sync!RealmUsers)
    <2>1. \A u \in Sync!RealmUsers : \E i \in 1..Len(RealmOrder) : RealmOrder[i] = u
      BY <1>2
    <2>. QED
      BY <1>1, <2>1 DEF Surjection
  <1>4. IsFiniteSet(Sync!RealmUsers)
    BY <1>1, <1>3, FS_Interval, FS_Surjection
  <1>. QED
    BY <1>1, <1>2, <1>4

\* How many of the users P come before u.
Ahead(P, u) == {v \in P : Sync!Place(v) < Sync!Place(u)}
Rank(P, u) == Cardinality(Ahead(P, u))

\* Ranks count from 0; different users have different ranks; each is taken.
LEMMA Ranks ==
    ASSUME Sync!UsersAssumption, NEW P, P \subseteq Sync!RealmUsers
    PROVE  /\ IsFiniteSet(P) /\ Cardinality(P) \in Nat
           /\ \A u \in P : Rank(P, u) \in 0..(Cardinality(P) - 1)
           /\ \A u, v \in P : Rank(P, u) = Rank(P, v) => u = v
           /\ \A n \in 0..(Cardinality(P) - 1) : \E u \in P : Rank(P, u) = n
  <1>1. IsFiniteSet(P) /\ Cardinality(P) \in Nat
    BY Places, FS_Subset, FS_CardinalityType
  <1>2. \A u \in Sync!RealmUsers : IsFiniteSet(Ahead(P, u)) /\ Rank(P, u) \in Nat
    BY <1>1, FS_Subset, FS_CardinalityType DEF Ahead, Rank
  <1>3. \A u \in P : Sync!Place(u) \in Nat /\ RealmOrder[Sync!Place(u)] = u
    BY Places
  <1>4. ASSUME NEW u \in P PROVE Rank(P, u) < Cardinality(P)
    <2>1. Ahead(P, u) \in SUBSET P /\ u \notin Ahead(P, u)
      BY <1>3, <1>4 DEF Ahead
    <2>2. Ahead(P, u) # P
      BY <1>4, <2>1
    <2>. QED
      BY <1>1, <1>2, <1>4, <2>1, <2>2, FS_Subset DEF Rank
  <1>5. ASSUME NEW u \in P, NEW v \in P, Sync!Place(u) < Sync!Place(v)
        PROVE  Rank(P, u) < Rank(P, v)
    <2>1. Ahead(P, u) \in SUBSET Ahead(P, v) /\ u \in Ahead(P, v) /\ u \notin Ahead(P, u)
      BY <1>3, <1>5 DEF Ahead
    <2>2. Ahead(P, u) # Ahead(P, v)
      BY <2>1
    <2>3. IsFiniteSet(Ahead(P, v)) /\ Rank(P, u) \in Nat /\ Rank(P, v) \in Nat
      BY <1>2
    <2>4. Cardinality(Ahead(P, u)) <= Cardinality(Ahead(P, v))
          /\ Cardinality(Ahead(P, v)) # Cardinality(Ahead(P, u))
      BY <2>1, <2>2, <2>3, FS_Subset
    <2>. QED
      BY <2>3, <2>4 DEF Rank
  <1>6. ASSUME NEW u \in P, NEW v \in P, Rank(P, u) = Rank(P, v) PROVE u = v
    <2>1. Sync!Place(u) = Sync!Place(v)
      BY <1>2, <1>3, <1>5, <1>6
    <2>. QED
      BY <1>3, <2>1
  <1>7. \A u \in P : Rank(P, u) \in 0..(Cardinality(P) - 1)
    BY <1>1, <1>2, <1>4
  <1>8. \A n \in 0..(Cardinality(P) - 1) : \E u \in P : Rank(P, u) = n
    <2>. DEFINE T == 0..(Cardinality(P) - 1)
    <2>. DEFINE f == [u \in P |-> Rank(P, u)]
    <2>1. f \in Injection(P, T)
      <3>1. f \in [P -> T]
        BY <1>7
      <3>2. \A u, v \in DOMAIN f : f[u] = f[v] => u = v
        BY <1>6
      <3>. QED
        BY <3>1, <3>2 DEF Injection, IsInjective
    <2>2. IsFiniteSet(T) /\ Cardinality(T) = Cardinality(P)
      <3>1. 0 \in Int /\ Cardinality(P) - 1 \in Int
        BY <1>1
      <3>2. /\ IsFiniteSet(T)
            /\ Cardinality(T) = IF 0 > Cardinality(P) - 1 THEN 0 ELSE Cardinality(P) - 1 - 0 + 1
        BY <3>1, FS_Interval
      <3>. QED
        BY <1>1, <3>2
    <2>3. f \in Surjection(P, T)
      BY <2>1, <2>2, FS_Injection
    <2>. QED
      BY <2>3 DEF Surjection
  <1>. QED
    BY <1>1, <1>6, <1>7, <1>8

\* Who is added comes before somebody or not; nobody loses a place by it.
LEMMA RanksGrow ==
    ASSUME Sync!UsersAssumption, NEW P, NEW Q, P \subseteq Q, Q \subseteq Sync!RealmUsers,
           NEW u \in P
    PROVE  Rank(P, u) <= Rank(Q, u)
  <1>1. Ahead(P, u) \in SUBSET Ahead(Q, u) /\ Ahead(Q, u) \in SUBSET Sync!RealmUsers
    BY DEF Ahead
  <1>2. IsFiniteSet(Ahead(Q, u))
    BY <1>1, Places, FS_Subset
  <1>. QED
    BY <1>1, <1>2, FS_Subset DEF Rank

\* Keycloak's list has the users by their rank.
LEMMA RealmList ==
    ASSUME Sync!UsersAssumption
    PROVE  /\ Sync!InRealm \in Seq(Sync!Present)
           /\ Len(Sync!InRealm) = Cardinality(Sync!Present)
           /\ \A u \in Sync!Present :
                 /\ Sync!Before(u) \in 0..(Cardinality(Sync!Present) - 1)
                 /\ Sync!InRealm[Sync!Before(u) + 1] = u
  <1>1. Sync!Present \subseteq Sync!RealmUsers
    BY DEF Sync!Present
  <1>2. \A u : Sync!Before(u) = Rank(Sync!Present, u)
    BY UsersCount DEF Sync!Before, Rank, Ahead
  <1>. DEFINE N == Cardinality(Sync!Present)
  <1>3. N \in Nat
    BY <1>1, Ranks
  <1>4. Sync!InRealm = [n \in 1..N |-> CHOOSE u \in Sync!Present : Sync!Before(u) = n - 1]
    BY UsersCount DEF Sync!InRealm
  <1>5. ASSUME NEW n \in 1..N PROVE \E u \in Sync!Present : Sync!Before(u) = n - 1
    <2>1. n - 1 \in 0..(N - 1)
      BY <1>3, <1>5
    <2>. QED
      BY <1>1, <1>2, <2>1, Ranks
  <1>6. \A n \in 1..N : Sync!InRealm[n] \in Sync!Present /\ Sync!Before(Sync!InRealm[n]) = n - 1
    BY <1>4, <1>5
  <1>7. Sync!InRealm \in [1..N -> Sync!Present]
    BY <1>4, <1>6
  <1>8. Sync!InRealm \in Seq(Sync!Present) /\ Len(Sync!InRealm) = N
    BY <1>3, <1>7, LenProperties, SeqDef
  <1>9. ASSUME NEW u \in Sync!Present
        PROVE  Sync!Before(u) \in 0..(N - 1) /\ Sync!InRealm[Sync!Before(u) + 1] = u
    <2>1. Sync!Before(u) \in 0..(N - 1)
      BY <1>1, <1>2, <1>9, Ranks
    <2>2. Sync!Before(u) + 1 \in 1..N /\ Sync!Before(u) + 1 - 1 = Sync!Before(u)
      BY <1>3, <2>1
    <2>3. Sync!InRealm[Sync!Before(u) + 1] \in Sync!Present
          /\ Sync!Before(Sync!InRealm[Sync!Before(u) + 1]) = Sync!Before(u)
      <3>. DEFINE n == Sync!Before(u) + 1
      <3>1. n \in 1..N /\ n - 1 = Sync!Before(u)
        BY <1>3, <2>1
      <3>. HIDE DEF n
      <3>2. Sync!InRealm[n] \in Sync!Present /\ Sync!Before(Sync!InRealm[n]) = Sync!Before(u)
        BY <1>6, <3>1
      <3>. QED
        BY <3>2 DEF n
    <2>4. Sync!InRealm[Sync!Before(u) + 1] = u
      BY <1>1, <1>2, <1>9, <2>3, Ranks
    <2>. QED
      BY <2>1, <2>4
  <1>. QED
    BY <1>8, <1>9

-----------------------------------------------------------------------------
\* Before the first job nobody is settled.
LEMMA UsersInit == Sync!UsersAssumption /\ Sync!Init => UsersInv
  <1>. SUFFICES ASSUME Sync!UsersAssumption, Sync!Init PROVE UsersInv
    OBVIOUS
  <1>1. /\ pass.at = "idle" /\ pass.users = <<>> /\ pass.first = 0 /\ pass.failed = FALSE
        /\ settled = {} /\ syncEdits = 0
    BY DEF Sync!Init, Sync!NoJob
  <1>2. <<>> \in Seq(Entries) /\ Len(<<>>) = 0
    BY EmptySeq
  <1>3. pass \in SyncJobs
    BY <1>2 DEF Sync!Init, Sync!NoJob, SyncJobs
  <1>4. realm \in [Sync!RealmUsers -> Sync!Profiles \cup {Sync!NoAccount}]
    BY DEF Sync!Init, Sync!Profiles
  <1>5. syncAccount \in [Sync!RealmUsers -> Sync!Profiles \cup {Sync!NoAccount, Sync!Bare}]
    BY DEF Sync!Init
  <1>6. syncEdits \in 0..MaxEdits
    BY <1>1 DEF Sync!UsersAssumption
  <1>7. UsersTyped
    BY <1>1, <1>3, <1>4, <1>5, <1>6 DEF UsersTyped
  <1>8. ListedIsCurrent
    BY <1>1, <1>2 DEF ListedIsCurrent
  <1>. QED
    BY <1>1, <1>7, <1>8 DEF UsersInv

\* The parts of a record of the job.
LEMMA JobParts ==
    ASSUME UsersTyped
    PROVE  /\ pass.at \in {"idle", "list", "post", "get", "patch"} /\ pass.first \in Nat
           /\ pass.users \in Seq(Entries) /\ pass.failed \in BOOLEAN
           /\ Len(pass.users) \in Nat
           /\ \A n \in 1..Len(pass.users) : pass.users[n] \in Entries
  <1>1. /\ pass.at \in {"idle", "list", "post", "get", "patch"} /\ pass.first \in Nat
        /\ pass.users \in Seq(Entries) /\ pass.failed \in BOOLEAN
    BY DEF UsersTyped, SyncJobs
  <1>. QED
    BY <1>1, LenProperties, ElementOfSeq

\* An administrator: no user who stays settled moves to an earlier place, unless
\* one is removed while the pages are read, and then nobody stays settled.
LEMMA EditKeepsUsers ==
    ASSUME Sync!UsersAssumption, UsersInv,
           NEW u \in Sync!RealmUsers, NEW p \in Sync!Profiles \cup {Sync!NoAccount},
           Sync!EditRealm(u, p)
    PROVE  UsersInv'
  <1>1. /\ realm' = [realm EXCEPT ![u] = p] /\ syncAccount' = syncAccount /\ pass' = pass
        /\ syncEdits < MaxEdits /\ syncEdits' = syncEdits + 1
        /\ settled' = IF p = Sync!NoAccount /\ pass.at = "list" THEN {} ELSE settled \ {u}
    BY DEF Sync!EditRealm
  <1>2. /\ realm \in [Sync!RealmUsers -> Sync!Profiles \cup {Sync!NoAccount}]
        /\ syncEdits \in 0..MaxEdits /\ settled \subseteq Sync!Present
        /\ pass.at = "idle" => settled = {}
    BY DEF UsersInv, UsersTyped
  <1>3. settled' \subseteq settled \ {u}
    BY <1>1
  <1>4. \A v \in Sync!RealmUsers : v # u => realm'[v] = realm[v]
    BY <1>1, <1>2
  <1>5. syncEdits' \in 0..MaxEdits
    BY <1>1, <1>2 DEF Sync!UsersAssumption
  <1>6. settled' \subseteq Sync!Present'
    BY <1>2, <1>3, <1>4 DEF Sync!Present
  <1>7. realm' \in [Sync!RealmUsers -> Sync!Profiles \cup {Sync!NoAccount}]
    BY <1>1, <1>2
  <1>8. UsersTyped'
    BY <1>1, <1>2, <1>3, <1>5, <1>6, <1>7 DEF UsersInv, UsersTyped
  <1>9. ListedIsCurrent'
    <2>1. \A n \in 1..Len(pass.users) :
             pass.users[n].name \in settled => pass.users[n].profile = realm[pass.users[n].name]
      BY DEF UsersInv, ListedIsCurrent
    <2>2. \A v \in settled' : v \in settled /\ realm'[v] = realm[v]
      BY <1>2, <1>3, <1>4 DEF Sync!Present
    <2>. QED
      BY <1>1, <2>1, <2>2 DEF ListedIsCurrent
  <1>10. ASSUME NEW v \in settled' PROVE Covered(v)'
    <2>1. v \in settled /\ v # u /\ v \in Sync!Present /\ realm'[v] = realm[v]
      BY <1>2, <1>3, <1>4, <1>10 DEF Sync!Present
    <2>2. Covered(v)
      BY <2>1 DEF UsersInv
    <2>3. ToDo(v)' <=> ToDo(v)
      BY <1>1 DEF ToDo
    <2>4. CASE pass.at = "list" /\ Sync!Before(v) >= pass.first
      <3>1. p # Sync!NoAccount
        BY <1>1, <1>10, <2>4
      <3>2. Sync!Present \subseteq Sync!Present' /\ Sync!Present' \subseteq Sync!RealmUsers
        BY <1>1, <1>2, <1>4, <3>1 DEF Sync!Present
      <3>3. Sync!Present \subseteq Sync!RealmUsers
        BY DEF Sync!Present
      <3>4. Sync!Before(v) = Rank(Sync!Present, v)
        BY UsersCount DEF Sync!Before, Rank, Ahead
      <3>5. Sync!Before(v)' = Rank(Sync!Present', v)
        BY UsersCount DEF Sync!Before, Rank, Ahead
      <3>6. Rank(Sync!Present, v) <= Rank(Sync!Present', v)
        BY <2>1, <3>2, RanksGrow
      <3>7. Rank(Sync!Present, v) \in Nat /\ Rank(Sync!Present', v) \in Nat
        <4>1. v \in Sync!Present /\ v \in Sync!Present'
          BY <2>1, <3>2
        <4>2. Rank(Sync!Present, v) \in 0..(Cardinality(Sync!Present) - 1)
              /\ Cardinality(Sync!Present) \in Nat
          BY <3>3, <4>1, Ranks
        <4>3. Rank(Sync!Present', v) \in 0..(Cardinality(Sync!Present') - 1)
              /\ Cardinality(Sync!Present') \in Nat
          BY <3>2, <4>1, Ranks
        <4>. QED
          BY <4>2, <4>3
      <3>8. pass.first \in Nat
        BY JobParts DEF UsersInv
      <3>9. Sync!Before(v)' >= pass.first
        BY <2>4, <3>4, <3>5, <3>6, <3>7, <3>8
      <3>. QED
        BY <1>1, <2>4, <3>9 DEF Covered
    <2>. QED
      BY <1>1, <2>1, <2>2, <2>3, <2>4 DEF Covered
  <1>. QED
    BY <1>8, <1>9, <1>10 DEF UsersInv

\* A login or the request form: it makes no account that is there already.
LEMMA AccountKeepsUsers ==
    ASSUME UsersInv, NEW u \in Sync!RealmUsers, NEW p \in Sync!Profiles \cup {Sync!Bare},
           Sync!AccountMade(u, p)
    PROVE  UsersInv'
  <1>1. /\ syncAccount[u] = Sync!NoAccount /\ syncAccount' = [syncAccount EXCEPT ![u] = p]
        /\ UNCHANGED <<realm, syncEdits, pass, settled>>
    BY DEF Sync!AccountMade
  <1>2. syncAccount \in [Sync!RealmUsers -> Sync!Profiles \cup {Sync!NoAccount, Sync!Bare}]
        /\ settled \subseteq Sync!Present
    BY DEF UsersInv, UsersTyped
  <1>3. syncAccount' \in [Sync!RealmUsers -> Sync!Profiles \cup {Sync!NoAccount, Sync!Bare}]
    BY <1>1, <1>2
  <1>4. UsersTyped'
    BY <1>1, <1>3 DEF UsersInv, UsersTyped, Sync!Present
  <1>5. ListedIsCurrent'
    BY <1>1 DEF UsersInv, ListedIsCurrent
  <1>6. ASSUME NEW v \in settled' PROVE Covered(v)'
    <2>1. v \in settled /\ v \in Sync!RealmUsers /\ realm[v] # Sync!NoAccount
      BY <1>1, <1>2, <1>6 DEF Sync!Present
    <2>2. Covered(v)
      BY <2>1 DEF UsersInv
    <2>3. syncAccount[v] = realm[v] => syncAccount'[v] = realm'[v]
      BY <1>1, <1>2, <2>1
    <2>4. (ToDo(v)' <=> ToDo(v)) /\ Sync!Before(v)' = Sync!Before(v)
      BY <1>1 DEF ToDo, Sync!Before, Sync!Present
    <2>. QED
      BY <1>1, <2>2, <2>3, <2>4 DEF Covered
  <1>. QED
    BY <1>4, <1>5, <1>6 DEF UsersInv

\* A job begins: everybody is at place 0 or later.
LEMMA StartKeepsUsers ==
    ASSUME Sync!UsersAssumption, UsersInv, Sync!StartSync
    PROVE  UsersInv'
  <1>1. /\ pass' = [Sync!NoJob EXCEPT !.at = "list"] /\ settled' = Sync!Present
        /\ UNCHANGED <<realm, syncAccount, syncEdits>>
    BY DEF Sync!StartSync
  <1>2. <<>> \in Seq(Entries) /\ Len(<<>>) = 0
    BY EmptySeq
  <1>3. /\ pass'.at = "list" /\ pass'.users = <<>> /\ pass'.first = 0
        /\ pass' \in SyncJobs
    BY <1>1, <1>2 DEF Sync!NoJob, SyncJobs
  <1>4. Sync!Present' = Sync!Present
    BY <1>1 DEF Sync!Present
  <1>5. UsersTyped'
    BY <1>1, <1>3, <1>4 DEF UsersInv, UsersTyped
  <1>6. ListedIsCurrent'
    BY <1>2, <1>3 DEF ListedIsCurrent
  <1>7. ASSUME NEW v \in settled' PROVE Covered(v)'
    <2>1. Sync!Before(v)' = Sync!Before(v)
      BY <1>4 DEF Sync!Before
    <2>2. Sync!Before(v) >= 0
      BY <1>1, <1>7, RealmList, UsersCount, Ranks
    <2>. QED
      BY <1>3, <2>1, <2>2 DEF Covered
  <1>. QED
    BY <1>5, <1>6, <1>7 DEF UsersInv

-----------------------------------------------------------------------------
\* The page the job lists next, and what it notes of it.
PageEnd == IF pass.first + Page < Len(Sync!InRealm) THEN pass.first + Page ELSE Len(Sync!InRealm)
Batch == SubSeq(Sync!InRealm, pass.first + 1, PageEnd)
Noted == [i \in 1..Len(Batch) |-> [name |-> Batch[i], profile |-> realm[Batch[i]]]]

\* A page has whoever has a place in it, and is full unless it is the last.
LEMMA PageLists ==
    ASSUME Sync!UsersAssumption, pass.first \in Nat
    PROVE  /\ Batch \in Seq(Sync!Present) /\ Len(Batch) \in Nat
           /\ \A v \in Sync!Present :
                 Sync!Before(v) >= pass.first =>
                     \/ Sync!Before(v) >= pass.first + Page /\ Len(Batch) = Page
                     \/ \E n \in 1..Len(Batch) : Batch[n] = v
  <1>. DEFINE N == Len(Sync!InRealm)
  <1>. DEFINE m == pass.first + 1
  <1>1. /\ N \in Nat /\ N = Cardinality(Sync!Present)
        /\ Sync!InRealm \in Seq(Sync!Present)
    BY RealmList, LenProperties
  <1>2. Page \in Nat /\ Page # 0
    BY DEF Sync!UsersAssumption
  <1>3. m \in Int /\ PageEnd \in Int /\ PageEnd <= N /\ PageEnd <= pass.first + Page
    BY <1>1, <1>2 DEF PageEnd
  <1>4. m \in Nat /\ m >= 1 /\ m = pass.first + 1
    OBVIOUS
  <1>5. ASSUME NEW v \in Sync!Present
        PROVE  Sync!Before(v) \in 0..(N - 1) /\ Sync!InRealm[Sync!Before(v) + 1] = v
    BY <1>1, <1>5, RealmList
  <1>6. PageEnd = IF pass.first + Page < N THEN pass.first + Page ELSE N
    BY DEF PageEnd
  <1>7. Batch = SubSeq(Sync!InRealm, m, PageEnd)
    BY DEF Batch
  <1>. HIDE DEF N, m
  <1>8. ASSUME NEW i \in m..PageEnd PROVE Sync!InRealm[i] \in Sync!Present
    <2>1. i \in 1..N
      BY <1>1, <1>3, <1>4, <1>8
    <2>. QED
      BY <1>1, <2>1, ElementOfSeq DEF N
  <1>9. /\ Batch \in Seq(Sync!Present)
        /\ Len(Batch) = IF m <= PageEnd THEN PageEnd - m + 1 ELSE 0
        /\ \A i \in 1..(PageEnd - m + 1) : Batch[i] = Sync!InRealm[m + i - 1]
    BY <1>3, <1>7, <1>8, SubSeqProperties
  <1>10. Len(Batch) \in Nat
    BY <1>3, <1>9
  <1>11. ASSUME NEW v \in Sync!Present, Sync!Before(v) >= pass.first
         PROVE  \/ Sync!Before(v) >= pass.first + Page /\ Len(Batch) = Page
                \/ \E n \in 1..Len(Batch) : Batch[n] = v
    <2>. DEFINE b == Sync!Before(v)
    <2>1. b \in 0..(N - 1) /\ Sync!InRealm[b + 1] = v /\ b >= pass.first /\ b = Sync!Before(v)
      BY <1>5, <1>11
    <2>. HIDE DEF b
    <2>2. CASE b >= pass.first + Page
      <3>1. PageEnd = pass.first + Page
        BY <1>1, <1>2, <1>6, <2>1, <2>2
      <3>2. m <= PageEnd /\ PageEnd - m + 1 = Page
        BY <1>2, <1>4, <3>1
      <3>3. Len(Batch) = Page
        BY <1>9, <3>2
      <3>. QED
        BY <2>1, <2>2, <3>3
    <2>3. CASE b < pass.first + Page
      <3>. DEFINE n == b + 1 - pass.first
      <3>0. b \in Nat /\ b + 1 <= PageEnd
        <4>1. N \in Nat
          BY <1>1
        <4>2. b \in 0..(N - 1)
          BY <2>1
        <4>3. b \in Nat /\ b + 1 <= N
          BY <4>1, <4>2
        <4>4. b + 1 <= pass.first + Page
          BY <1>2, <2>3, <4>3
        <4>. QED
          BY <1>6, <4>3, <4>4
      <3>1. n \in 1..(PageEnd - m + 1) /\ m + n - 1 = b + 1
        <4>1. b >= pass.first /\ PageEnd \in Int
          BY <1>3, <2>1
        <4>2. n \in Int /\ n >= 1 /\ m + n - 1 = b + 1
          BY <1>4, <3>0, <4>1
        <4>3. n <= PageEnd - m + 1
          BY <1>4, <3>0, <4>1
        <4>. QED
          BY <1>4, <4>1, <4>2, <4>3
      <3>. HIDE DEF n
      <3>2. m <= PageEnd
        BY <1>3, <1>4, <3>1
      <3>3. n \in 1..Len(Batch) /\ Batch[n] = Sync!InRealm[b + 1]
        BY <1>9, <3>1, <3>2
      <3>. QED
        BY <2>1, <3>3
    <2>. QED
      BY <1>2, <2>1, <2>2, <2>3
  <1>. QED
    BY <1>9, <1>10, <1>11

\* A page is listed: who is at a later place is on a later page, and who is at
\* a place of this one is noted as the realm has them now.
LEMMA ListKeepsUsers ==
    ASSUME Sync!UsersAssumption, UsersInv, Sync!ListPage
    PROVE  UsersInv'
  <1>1. /\ pass.at = "list" /\ UNCHANGED <<realm, syncAccount, syncEdits, settled>>
        /\ pass.at \in {"idle", "list", "post", "get", "patch"} /\ pass.first \in Nat
        /\ pass.users \in Seq(Entries) /\ pass.failed \in BOOLEAN
        /\ Len(pass.users) \in Nat /\ UsersTyped
    BY JobParts DEF Sync!ListPage, UsersInv
  <1>2. /\ Batch \in Seq(Sync!Present) /\ Len(Batch) \in Nat
        /\ DOMAIN Batch = 1..Len(Batch)
        /\ \A n \in 1..Len(Batch) : Batch[n] \in Sync!Present
    BY <1>1, PageLists, LenProperties, ElementOfSeq
  <1>3. Page \in Nat
    BY DEF Sync!UsersAssumption
  <1>4. pass' = [pass EXCEPT !.at = IF Len(Batch) < Page THEN "post" ELSE "list",
                             !.first = pass.first + Page,
                             !.users = pass.users \o Noted]
    BY <1>2 DEF Sync!ListPage, Sync!LastPage, Batch, PageEnd, Noted
  <1>5. Noted \in Seq(Entries) /\ Len(Noted) = Len(Batch)
    <2>1. \A n \in 1..Len(Batch) : Batch[n] \in Sync!RealmUsers
                                   /\ realm[Batch[n]] \in Sync!Profiles
      BY <1>1, <1>2 DEF Sync!Present, UsersTyped
    <2>2. Noted \in [1..Len(Batch) -> Entries]
      BY <2>1 DEF Noted, Entries
    <2>. QED
      BY <1>2, <2>2, SeqDef, LenProperties
  <1>6. /\ pass.users \o Noted \in Seq(Entries)
        /\ Len(pass.users \o Noted) = Len(pass.users) + Len(Batch)
        /\ \A i \in 1..(Len(pass.users) + Len(Batch)) :
              (pass.users \o Noted)[i] =
                  IF i <= Len(pass.users) THEN pass.users[i] ELSE Noted[i - Len(pass.users)]
    <2>1. /\ pass.users \o Noted \in Seq(Entries)
          /\ Len(pass.users \o Noted) = Len(pass.users) + Len(Noted)
          /\ \A i \in 1..(Len(pass.users) + Len(Noted)) :
                (pass.users \o Noted)[i] =
                    IF i <= Len(pass.users) THEN pass.users[i] ELSE Noted[i - Len(pass.users)]
      <3>1. pass.users \in Seq(Entries) /\ Noted \in Seq(Entries)
        BY <1>1, <1>5
      <3>. QED
        BY <3>1, ConcatProperties
    <2>2. Len(Noted) = Len(Batch)
      BY <1>5
    <2>. QED
      BY <2>1, <2>2
  <1>7. pass \in SyncJobs
    BY <1>1 DEF UsersTyped
  <1>8. /\ pass'.at = (IF Len(Batch) < Page THEN "post" ELSE "list")
        /\ pass'.first = pass.first + Page
        /\ pass'.users = pass.users \o Noted /\ pass'.failed = pass.failed
    BY <1>4, <1>7 DEF SyncJobs
  <1>9. pass' \in SyncJobs
    <2>. DEFINE at == IF Len(Batch) < Page THEN "post" ELSE "list"
    <2>. DEFINE upTo == pass.first + Page
    <2>. DEFINE all == pass.users \o Noted
    <2>1. at \in {"post", "list"} /\ upTo \in Nat /\ all \in Seq(Entries)
      BY <1>1, <1>3, <1>6
    <2>2. pass' = [pass EXCEPT !.at = at, !.first = upTo, !.users = all]
      BY <1>4
    <2>. HIDE DEF at, upTo, all
    <2>. QED
      BY <1>7, <2>1, <2>2 DEF SyncJobs
  <1>10. Sync!Present' = Sync!Present
    BY <1>1 DEF Sync!Present
  <1>11. UsersTyped'
    BY <1>1, <1>8, <1>9, <1>10 DEF UsersTyped
  <1>12. ASSUME NEW i \in 1..Len(pass.users)
         PROVE  i \in 1..Len(pass'.users) /\ pass'.users[i] = pass.users[i]
    BY <1>1, <1>2, <1>6, <1>8, <1>12
  <1>13. ASSUME NEW n \in 1..Len(Batch)
         PROVE  /\ Len(pass.users) + n \in 1..Len(pass'.users)
                /\ pass'.users[Len(pass.users) + n] = [name |-> Batch[n],
                                                       profile |-> realm[Batch[n]]]
    <2>. DEFINE i == Len(pass.users) + n
    <2>1. /\ i \in 1..(Len(pass.users) + Len(Batch)) /\ ~(i <= Len(pass.users))
          /\ i - Len(pass.users) = n
      BY <1>1, <1>2, <1>13
    <2>. HIDE DEF i
    <2>2. pass'.users[i] = Noted[n] /\ i \in 1..Len(pass'.users)
      BY <1>6, <1>8, <2>1
    <2>3. Noted[n] = [name |-> Batch[n], profile |-> realm[Batch[n]]]
      BY <1>13 DEF Noted
    <2>. QED
      BY <2>2, <2>3 DEF i
  <1>14. ListedIsCurrent'
    <2>. SUFFICES ASSUME NEW i \in 1..Len(pass'.users)
                  PROVE  pass'.users[i].name \in settled =>
                             pass'.users[i].profile = realm[pass'.users[i].name]
      BY <1>1 DEF ListedIsCurrent
    <2>1. CASE i <= Len(pass.users)
      <3>1. i \in 1..Len(pass.users)
        BY <1>1, <2>1
      <3>. QED
        BY <1>12, <3>1 DEF UsersInv, ListedIsCurrent
    <2>2. CASE i > Len(pass.users)
      <3>. DEFINE n == i - Len(pass.users)
      <3>1. n \in 1..Len(Batch) /\ i = Len(pass.users) + n
        BY <1>1, <1>2, <1>6, <1>8, <2>2
      <3>. HIDE DEF n
      <3>2. pass'.users[i] = [name |-> Batch[n], profile |-> realm[Batch[n]]]
        BY <1>13, <3>1
      <3>. QED
        BY <3>2
    <2>. QED
      BY <1>1, <2>1, <2>2
  <1>15. ASSUME NEW v \in settled' PROVE Covered(v)'
    <2>1. v \in settled /\ v \in Sync!Present
      BY <1>1, <1>15 DEF UsersTyped
    <2>2. Covered(v)
      BY <2>1 DEF UsersInv
    <2>3. CASE ToDo(v)
      <3>1. ToDo(v)'
        BY <1>12, <2>3 DEF ToDo
      <3>. QED
        BY <3>1 DEF Covered
    <2>4. CASE Sync!Before(v) >= pass.first
      <3>1. CASE Sync!Before(v) >= pass.first + Page /\ Len(Batch) = Page
        <4>1. pass'.at = "list" /\ pass'.first = pass.first + Page
          BY <1>3, <1>8, <3>1
        <4>2. Sync!Before(v)' = Sync!Before(v)
          BY <1>10 DEF Sync!Before
        <4>. QED
          BY <3>1, <4>1, <4>2 DEF Covered
      <3>2. CASE \E n \in 1..Len(Batch) : Batch[n] = v
        <4>1. PICK n \in 1..Len(Batch) : Batch[n] = v
          BY <3>2
        <4>2. \E i \in 1..Len(pass'.users) : pass'.users[i].name = v
          <5>. DEFINE i == Len(pass.users) + n
          <5>1. /\ i \in 1..Len(pass'.users)
                /\ pass'.users[i] = [name |-> Batch[n], profile |-> realm[Batch[n]]]
            BY <1>13
          <5>. HIDE DEF i
          <5>2. pass'.users[i].name = v
            BY <4>1, <5>1
          <5>. QED
            BY <5>1, <5>2
        <4>. QED
          BY <4>2 DEF Covered, ToDo
      <3>. QED
        BY <1>1, <2>1, <2>4, <3>1, <3>2, PageLists
    <2>5. CASE pass.failed
      BY <1>8, <2>5 DEF Covered
    <2>. QED
      BY <1>1, <2>2, <2>3, <2>4, <2>5 DEF Covered
  <1>. QED
    BY <1>11, <1>14, <1>15 DEF UsersInv

-----------------------------------------------------------------------------
\* The parts of the job once its first entry is done.
LEMMA TailParts ==
    ASSUME UsersTyped, Len(pass.users) > 0
    PROVE  /\ Head(pass.users) = pass.users[1] /\ Head(pass.users) \in Entries
           /\ Tail(pass.users) \in Seq(Entries)
           /\ Len(Tail(pass.users)) \in Nat /\ Len(Tail(pass.users)) + 1 = Len(pass.users)
           /\ \A i \in 1..Len(Tail(pass.users)) :
                 i + 1 \in 1..Len(pass.users) /\ Tail(pass.users)[i] = pass.users[i + 1]
           /\ Sync!NextUser \in SyncJobs
           /\ Sync!NextUser.at = "post" /\ Sync!NextUser.users = Tail(pass.users)
           /\ Sync!NextUser.failed = pass.failed
  <1>1. /\ pass.users \in Seq(Entries) /\ Len(pass.users) \in Nat /\ pass \in SyncJobs
    BY JobParts DEF UsersTyped
  <1>2. pass.users # <<>>
    BY EmptySeq
  <1>3. /\ Head(pass.users) \in Entries /\ Tail(pass.users) \in Seq(Entries)
        /\ Len(Tail(pass.users)) = Len(pass.users) - 1
        /\ \A i \in 1..Len(Tail(pass.users)) : Tail(pass.users)[i] = pass.users[i + 1]
    BY <1>1, <1>2, HeadTailProperties
  <1>4. Head(pass.users) = pass.users[1]
    OBVIOUS
  <1>5. Len(Tail(pass.users)) \in Nat /\ Len(Tail(pass.users)) + 1 = Len(pass.users)
    BY <1>1, <1>3
  <1>6. \A i \in 1..Len(Tail(pass.users)) : i + 1 \in 1..Len(pass.users)
    BY <1>1, <1>5
  <1>7. /\ Sync!NextUser \in SyncJobs
        /\ Sync!NextUser.at = "post" /\ Sync!NextUser.users = Tail(pass.users)
        /\ Sync!NextUser.failed = pass.failed
    BY <1>1, <1>3 DEF Sync!NextUser, SyncJobs
  <1>. QED
    BY <1>3, <1>4, <1>5, <1>6, <1>7

\* The next user: who is not the one just done is still to do.
LEMMA TailCovers ==
    ASSUME UsersInv, Len(pass.users) > 0, pass.at \in {"post", "get", "patch"},
           pass'.users = Tail(pass.users), UNCHANGED <<realm, settled>>
    PROVE  /\ ListedIsCurrent'
           /\ \A v \in settled' :
                 \/ pass.failed \/ ToDo(v)' \/ v = Head(pass.users).name
                 \/ syncAccount[v] = realm[v]
  <1>1. UsersTyped /\ Len(pass.users) \in Nat
    BY JobParts DEF UsersInv
  <1>2. /\ Head(pass.users) = pass.users[1]
        /\ Len(Tail(pass.users)) \in Nat /\ Len(Tail(pass.users)) + 1 = Len(pass.users)
        /\ \A i \in 1..Len(Tail(pass.users)) :
              i + 1 \in 1..Len(pass.users) /\ Tail(pass.users)[i] = pass.users[i + 1]
    BY <1>1, TailParts
  <1>3. ListedIsCurrent'
    <2>. SUFFICES ASSUME NEW i \in 1..Len(Tail(pass.users))
                  PROVE  Tail(pass.users)[i].name \in settled =>
                             Tail(pass.users)[i].profile = realm[Tail(pass.users)[i].name]
      BY DEF ListedIsCurrent
    <2>. DEFINE n == i + 1
    <2>1. n \in 1..Len(pass.users) /\ Tail(pass.users)[i] = pass.users[n]
      BY <1>2
    <2>. HIDE DEF n
    <2>2. pass.users[n].name \in settled =>
              pass.users[n].profile = realm[pass.users[n].name]
      BY <2>1 DEF UsersInv, ListedIsCurrent
    <2>. QED
      BY <2>1, <2>2
  <1>4. ASSUME NEW v \in settled', ToDo(v), v # Head(pass.users).name
        PROVE  ToDo(v)'
    <2>1. PICK n \in 1..Len(pass.users) : pass.users[n].name = v
      BY <1>4 DEF ToDo
    <2>2. n # 1
      BY <1>2, <1>4, <2>1
    <2>. DEFINE i == n - 1
    <2>3. i \in 1..Len(Tail(pass.users)) /\ i + 1 = n
      BY <1>1, <1>2, <2>1, <2>2
    <2>. HIDE DEF i
    <2>4. Tail(pass.users)[i].name = v
      BY <1>2, <2>1, <2>3
    <2>. QED
      BY <2>3, <2>4 DEF ToDo
  <1>5. \A v \in settled' : Covered(v)
    BY DEF UsersInv
  <1>6. ASSUME NEW v \in settled'
        PROVE  \/ pass.failed \/ ToDo(v)' \/ v = Head(pass.users).name
               \/ syncAccount[v] = realm[v]
    BY <1>4, <1>5, <1>6 DEF Covered
  <1>. QED
    BY <1>3, <1>6

\* The entry is done, with the account it asks for.
LEMMA DoneKeepsUsers ==
    ASSUME UsersInv, Len(pass.users) > 0, pass.at \in {"post", "get", "patch"},
           pass' = Sync!NextUser, UNCHANGED <<realm, syncEdits, settled>>,
           syncAccount' \in [Sync!RealmUsers -> Sync!Profiles \cup {Sync!NoAccount, Sync!Bare}],
           syncAccount'[Head(pass.users).name] = Head(pass.users).profile,
           \A v \in Sync!RealmUsers : v # Head(pass.users).name => syncAccount'[v] = syncAccount[v]
    PROVE  UsersInv'
  <1>1. UsersTyped
    BY DEF UsersInv
  <1>2. /\ pass' \in SyncJobs /\ pass'.at = "post" /\ pass'.users = Tail(pass.users)
        /\ pass'.failed = pass.failed /\ Head(pass.users) = pass.users[1]
        /\ 1 \in 1..Len(pass.users)
    BY <1>1, TailParts, JobParts
  <1>3. UsersTyped'
    BY <1>1, <1>2 DEF UsersTyped, Sync!Present
  <1>4. /\ ListedIsCurrent'
        /\ \A v \in settled' :
              \/ pass.failed \/ ToDo(v)' \/ v = Head(pass.users).name \/ syncAccount[v] = realm[v]
    BY <1>2, TailCovers
  <1>5. Head(pass.users).name \in settled =>
            Head(pass.users).profile = realm[Head(pass.users).name]
    BY <1>2 DEF UsersInv, ListedIsCurrent
  <1>6. ASSUME NEW v \in settled' PROVE Covered(v)'
    <2>1. v \in settled /\ v \in Sync!RealmUsers
      BY <1>1, <1>6 DEF UsersTyped, Sync!Present
    <2>2. v = Head(pass.users).name \/ syncAccount[v] = realm[v] => syncAccount'[v] = realm'[v]
      BY <1>5, <2>1
    <2>. QED
      BY <1>2, <1>4, <1>6, <2>2 DEF Covered
  <1>. QED
    BY <1>3, <1>4, <1>6 DEF UsersInv

\* The entry is done by a call that makes the account or changes it.
LEMMA SetKeepsUsers ==
    ASSUME UsersInv, Len(pass.users) > 0, pass.at \in {"post", "get", "patch"},
           pass' = Sync!NextUser, UNCHANGED <<realm, syncEdits, settled>>,
           syncAccount' = [syncAccount EXCEPT ![Head(pass.users).name] = Head(pass.users).profile]
    PROVE  UsersInv'
  <1>1. Head(pass.users) \in Entries
    BY TailParts DEF UsersInv
  <1>. DEFINE u == Head(pass.users).name
  <1>. DEFINE p == Head(pass.users).profile
  <1>2. u \in Sync!RealmUsers /\ p \in Sync!Profiles
    BY <1>1 DEF Entries
  <1>3. syncAccount \in [Sync!RealmUsers -> Sync!Profiles \cup {Sync!NoAccount, Sync!Bare}]
    BY DEF UsersInv, UsersTyped
  <1>4. syncAccount' = [syncAccount EXCEPT ![u] = p]
    OBVIOUS
  <1>. HIDE DEF u, p
  <1>5. /\ syncAccount' \in [Sync!RealmUsers -> Sync!Profiles \cup {Sync!NoAccount, Sync!Bare}]
        /\ syncAccount'[u] = p
        /\ \A v \in Sync!RealmUsers : v # u => syncAccount'[v] = syncAccount[v]
    BY <1>2, <1>3, <1>4
  <1>. QED
    BY <1>5, DoneKeepsUsers DEF u, p

\* The entry needs another call first.
LEMMA CallKeepsUsers ==
    ASSUME UsersInv, Len(pass.users) > 0, pass.at \in {"post", "get", "patch"},
           NEW at \in {"get", "patch"}, pass' = [pass EXCEPT !.at = at],
           UNCHANGED <<realm, syncAccount, syncEdits, settled>>
    PROVE  UsersInv'
  <1>1. pass \in SyncJobs /\ UsersTyped
    BY DEF UsersInv, UsersTyped
  <1>2. /\ pass' \in SyncJobs /\ pass'.at = at /\ pass'.users = pass.users
        /\ pass'.failed = pass.failed
    BY <1>1 DEF SyncJobs
  <1>3. UsersTyped'
    BY <1>1, <1>2 DEF UsersTyped, Sync!Present
  <1>4. ListedIsCurrent'
    BY <1>2 DEF UsersInv, ListedIsCurrent
  <1>5. ASSUME NEW v \in settled' PROVE Covered(v)'
    <2>1. Covered(v)
      BY <1>5 DEF UsersInv
    <2>2. ToDo(v)' <=> ToDo(v)
      BY <1>2 DEF ToDo
    <2>. QED
      BY <1>2, <2>1, <2>2 DEF Covered
  <1>. QED
    BY <1>3, <1>4, <1>5 DEF UsersInv

\* upsert_om_user: create it, read it, change it.
LEMMA PostKeepsUsers ==
    ASSUME UsersInv, Sync!PostUser
    PROVE  UsersInv'
  <1>1. /\ pass.at = "post" /\ pass.users # <<>> /\ UNCHANGED <<realm, syncEdits, settled>>
    BY DEF Sync!PostUser
  <1>2. UsersTyped /\ pass.users \in Seq(Entries)
    BY JobParts DEF UsersInv
  <1>3. Len(pass.users) > 0
    BY <1>1, <1>2, EmptySeq
  <1>4. CASE syncAccount[Head(pass.users).name] = Sync!NoAccount
    <2>1. /\ syncAccount' = [syncAccount EXCEPT ![Head(pass.users).name] = Head(pass.users).profile]
          /\ pass' = Sync!NextUser
      BY <1>4 DEF Sync!PostUser, Sync!Current
    <2>. QED
      BY <1>1, <1>2, <1>3, <2>1, SetKeepsUsers
  <1>5. CASE syncAccount[Head(pass.users).name] # Sync!NoAccount
    <2>1. pass' = [pass EXCEPT !.at = "get"] /\ UNCHANGED syncAccount
      BY <1>5 DEF Sync!PostUser, Sync!Current
    <2>. QED
      BY <1>1, <1>3, <2>1, CallKeepsUsers
  <1>. QED
    BY <1>4, <1>5

\* The read shows whether the account has the profile already.
LEMMA GetKeepsUsers ==
    ASSUME UsersInv, Sync!GetUser
    PROVE  UsersInv'
  <1>1. /\ pass.at = "get" /\ UNCHANGED <<realm, syncAccount, syncEdits, settled>>
    BY DEF Sync!GetUser
  <1>2. UsersTyped /\ Len(pass.users) > 0
        /\ syncAccount \in [Sync!RealmUsers -> Sync!Profiles \cup {Sync!NoAccount, Sync!Bare}]
    BY <1>1 DEF UsersInv, UsersTyped
  <1>3. CASE syncAccount[Head(pass.users).name] = Head(pass.users).profile
    <2>1. pass' = Sync!NextUser
      BY <1>3 DEF Sync!GetUser, Sync!Current
    <2>. QED
      BY <1>1, <1>2, <1>3, <2>1, DoneKeepsUsers
  <1>4. CASE syncAccount[Head(pass.users).name] # Head(pass.users).profile
    <2>1. pass' = [pass EXCEPT !.at = "patch"]
      BY <1>4 DEF Sync!GetUser, Sync!Current
    <2>. QED
      BY <1>1, <1>2, <2>1, CallKeepsUsers
  <1>. QED
    BY <1>3, <1>4

\* The change brings it.
LEMMA PatchKeepsUsers ==
    ASSUME UsersInv, Sync!PatchUser
    PROVE  UsersInv'
  <1>1. /\ pass.at = "patch" /\ UNCHANGED <<realm, syncEdits, settled>>
        /\ syncAccount' = [syncAccount EXCEPT ![Head(pass.users).name] = Head(pass.users).profile]
        /\ pass' = Sync!NextUser
    BY DEF Sync!PatchUser, Sync!Current
  <1>2. Len(pass.users) > 0
    BY <1>1 DEF UsersInv, UsersTyped
  <1>. QED
    BY <1>1, <1>2, SetKeepsUsers

\* A failed call: the job goes on with the next user, and says it failed.
LEMMA FailKeepsUsers ==
    ASSUME UsersInv, Sync!UserFails
    PROVE  UsersInv'
  <1>1. /\ pass.at \in {"post", "get", "patch"} /\ pass.users # <<>>
        /\ pass' = [Sync!NextUser EXCEPT !.failed = TRUE]
        /\ UNCHANGED <<realm, syncAccount, syncEdits, settled>>
    BY DEF Sync!UserFails
  <1>2. UsersTyped /\ pass.users \in Seq(Entries)
    BY JobParts DEF UsersInv
  <1>3. Len(pass.users) > 0
    BY <1>1, <1>2, EmptySeq
  <1>4. /\ Sync!NextUser \in SyncJobs /\ Sync!NextUser.at = "post"
        /\ Sync!NextUser.users = Tail(pass.users)
    BY <1>2, <1>3, TailParts
  <1>5. /\ pass' \in SyncJobs /\ pass'.at = "post" /\ pass'.users = Tail(pass.users)
        /\ pass'.failed = TRUE
    BY <1>1, <1>4 DEF SyncJobs
  <1>6. UsersTyped'
    BY <1>1, <1>2, <1>5 DEF UsersTyped, Sync!Present
  <1>7. ListedIsCurrent'
    BY <1>1, <1>3, <1>5, TailCovers
  <1>8. \A v \in settled' : Covered(v)'
    BY <1>5 DEF Covered
  <1>. QED
    BY <1>6, <1>7, <1>8 DEF UsersInv

\* The job ends.
LEMMA EndKeepsUsers ==
    ASSUME UsersInv, Sync!SyncEnds
    PROVE  UsersInv'
  <1>1. /\ pass' = Sync!NoJob /\ settled' = {} /\ UNCHANGED <<realm, syncAccount, syncEdits>>
    BY DEF Sync!SyncEnds
  <1>2. <<>> \in Seq(Entries) /\ Len(<<>>) = 0
    BY EmptySeq
  <1>3. pass' \in SyncJobs /\ pass'.at = "idle" /\ pass'.users = <<>>
    BY <1>1, <1>2 DEF Sync!NoJob, SyncJobs
  <1>4. UsersTyped'
    BY <1>1, <1>3 DEF UsersInv, UsersTyped
  <1>5. ListedIsCurrent'
    BY <1>2, <1>3 DEF ListedIsCurrent
  <1>. QED
    BY <1>1, <1>4, <1>5 DEF UsersInv

\* Nothing happens to the users.
LEMMA StillUsers ==
    ASSUME UsersInv, UNCHANGED Sync!vars
    PROVE  UsersInv'
  <1>1. UNCHANGED <<realm, syncAccount, syncEdits, pass, settled>>
    BY DEF Sync!vars
  <1>2. UsersTyped'
    BY <1>1 DEF UsersInv, UsersTyped, Sync!Present
  <1>3. ListedIsCurrent'
    BY <1>1 DEF UsersInv, ListedIsCurrent
  <1>4. \A v \in settled' : Covered(v)'
    BY <1>1 DEF UsersInv, Covered, ToDo, Sync!Before, Sync!Present
  <1>. QED
    BY <1>2, <1>3, <1>4 DEF UsersInv

\* Every step keeps the invariant.
LEMMA UsersPreserved ==
    Sync!UsersAssumption /\ UsersInv /\ [Sync!Next]_(Sync!vars) => UsersInv'
  <1>. SUFFICES ASSUME Sync!UsersAssumption, UsersInv, [Sync!Next]_(Sync!vars) PROVE UsersInv'
    OBVIOUS
  <1>1. ASSUME NEW u \in Sync!RealmUsers, NEW p \in Sync!Profiles \cup {Sync!NoAccount},
               Sync!EditRealm(u, p)
        PROVE  UsersInv'
    BY <1>1, EditKeepsUsers
  <1>2. ASSUME NEW u \in Sync!RealmUsers, NEW p \in Sync!Profiles \cup {Sync!Bare},
               Sync!AccountMade(u, p)
        PROVE  UsersInv'
    BY <1>2, AccountKeepsUsers
  <1>. QED
    BY <1>1, <1>2, StartKeepsUsers, ListKeepsUsers, PostKeepsUsers, GetKeepsUsers,
       PatchKeepsUsers, FailKeepsUsers, EndKeepsUsers, StillUsers DEF Sync!Next

\* The invariant has the types of the part.
LEMMA UsersTypes == UsersInv => Sync!UsersTypeOK
  <1>. SUFFICES ASSUME UsersInv PROVE Sync!UsersTypeOK
    OBVIOUS
  <1>1. UsersTyped /\ pass.users \in Seq(Entries)
    BY JobParts DEF UsersInv
  <1>2. Len(pass.users) > 0 => pass.users # <<>>
    BY EmptySeq
  <1>. QED
    BY <1>1, <1>2 DEF UsersTyped, SyncJobs, Entries, Sync!UsersTypeOK

\* A sync without failed calls brings every user who is in the realm all the
\* while, unchanged, to OpenMetadata with that profile (list_kc_users,
\* upsert_om_user), with any number of users, pages and edits: an edit other
\* than a removal moves nobody who is settled to a page that was already read.
THEOREM SyncReachesEverybody == Spec => []SyncCoversRealm
  <1>. DEFINE Inv == part = "sync" => UsersInv
  <1>1. Init => Inv
    BY JobsStart, UsersInit, ServicesAssumption DEF ServicesAssumption
  <1>2. Inv /\ [Next]_vars => Inv'
    BY JobsStep, UsersPreserved, ServicesAssumption DEF ServicesAssumption
  <1>3. Inv => SyncCoversRealm
    <2>. SUFFICES ASSUME part = "sync", UsersInv, pass.at = "post", pass.users = <<>>,
                         ~pass.failed, NEW v \in settled
                  PROVE  syncAccount[v] = realm[v]
      BY DEF SyncCoversRealm, Sync!SyncCoversRealm
    <2>1. ~ToDo(v)
      BY DEF ToDo
    <2>2. Covered(v)
      BY DEF UsersInv
    <2>. QED
      BY <2>1, <2>2 DEF Covered
  <1>. QED
    BY <1>1, <1>2, <1>3, PTL DEF Spec

-----------------------------------------------------------------------------
(* WiaSpark: a run that was alone refreshes gold *)

\* A zone of the lake, a Spark application and a run of the DAG.
Zones == [rows : 0..MaxSeeds, known : BOOLEAN]
Applications == [phase : {"none", "Running", "Succeeded", "Failed"},
                 at : {"none", "read", "look", "merge", "append", "overwrite",
                       "drop", "create", "count"},
                 read : 0..MaxSeeds]
WiaRuns == [at : {"none", "apply", "poll", "success", "failed"},
            layer : {"silver", "gold"}, label : (Days \cup {0}) \X (1..MaxTries),
            since : 0..MaxSeeds, own : BOOLEAN, alone : BOOLEAN]

\* Types.
WiaTyped ==
    /\ lake \in [{"bronze", "silver", "gold"} -> Zones]
    /\ apps \in [Wia!Names -> Applications]
    /\ seeder \in {"none", "append", "create"}
    /\ seeder = "append" => lake["bronze"].rows < MaxSeeds
    /\ dag \in WiaRuns
    /\ dag.at # "none" => dag.label \in Wia!RunLabels
    /\ orphan \in BOOLEAN

\* What a driver may be doing: silver merges into rows, and registers rows.
Fits(n, a) ==
    /\ a.at = "none" <=> a.phase # "Running"
    /\ a.at \in {"look", "merge", "append"} => n[1] = "silver" /\ a.read > 0
    /\ a.at = "overwrite" => n[1] = "gold" /\ a.read > 0
    /\ a.at \in {"merge", "drop", "create"} /\ n[1] = "silver" => lake["silver"].rows > 0

\* Silver's files have a registration, or will, or a driver died.
SilverIsFound ==
    /\ lake["silver"].known => lake["silver"].rows > 0
    /\ lake["silver"].rows > 0 /\ ~lake["silver"].known =>
          \/ orphan
          \/ \E n \in Wia!Names : n[1] = "silver" /\ apps[n].at \in {"drop", "create"}

\* The application of an undisturbed run carries on what bronze had when it began.
OnCourse(a) ==
    /\ a.at \in {"look", "merge", "append", "overwrite"} => a.read >= dag.since
    /\ a.at \in {"drop", "create", "count"} => lake[dag.layer].rows >= dag.since
    /\ a.phase = "Succeeded" => lake[dag.layer].known /\ lake[dag.layer].rows >= dag.since

\* The application of the run, and a run whose outcome is claimed.
Own == <<dag.layer, dag.label>>
Counts == dag.own /\ dag.alone /\ dag.since > 0

\* What such a run has achieved, by how far it is.
Refreshes ==
    /\ dag.layer = "gold" => lake["silver"].rows >= dag.since
    /\ dag.at = "poll" => OnCourse(apps[Own])
    /\ dag.at = "success" =>
          /\ dag.layer = "gold" /\ apps[Own].phase # "Running"
          /\ lake["gold"].known /\ lake["gold"].rows >= dag.since

\* Inductive: a run that was alone has refreshed gold.
WiaInv ==
    /\ WiaTyped /\ SilverIsFound
    /\ \A n \in Wia!Names : Fits(n, apps[n])
    /\ dag.since <= lake["bronze"].rows
    /\ Counts => Refreshes

\* The lake may have a registered bronze without rows, and nothing runs.
LEMMA WiaInit == Wia!WiaAssumption /\ Wia!Init => WiaInv
  <1>. SUFFICES ASSUME Wia!WiaAssumption, Wia!Init PROVE WiaInv
    OBVIOUS
  <1>1. /\ apps = [n \in Wia!Names |-> Wia!NoApp] /\ seeder = "none" /\ orphan = FALSE
        /\ dag = Wia!NoRun
        /\ \E found \in BOOLEAN :
              lake = [z \in {"bronze", "silver", "gold"} |->
                        [rows |-> 0, known |-> z = "bronze" /\ found]]
    BY DEF Wia!Init
  <1>2. 0 \in 0..MaxSeeds /\ <<0, 1>> \in (Days \cup {0}) \X (1..MaxTries)
    BY DEF Wia!WiaAssumption
  <1>3. PICK found \in BOOLEAN :
           lake = [z \in {"bronze", "silver", "gold"} |->
                     [rows |-> 0, known |-> z = "bronze" /\ found]]
    BY <1>1
  <1>4. /\ lake \in [{"bronze", "silver", "gold"} -> Zones]
        /\ lake["silver"].known = FALSE /\ lake["silver"].rows = 0 /\ lake["bronze"].rows = 0
    BY <1>2, <1>3 DEF Zones
  <1>5. Wia!NoApp \in Applications /\ \A n : Fits(n, Wia!NoApp)
    BY <1>2 DEF Wia!NoApp, Applications, Fits
  <1>6. Wia!NoRun \in WiaRuns /\ Wia!NoRun.at = "none" /\ Wia!NoRun.since = 0
    BY <1>2 DEF Wia!NoRun, WiaRuns
  <1>7. WiaTyped
    BY <1>1, <1>4, <1>5, <1>6 DEF WiaTyped
  <1>8. SilverIsFound /\ ~Counts /\ dag.since <= lake["bronze"].rows
    BY <1>1, <1>4, <1>6 DEF SilverIsFound, Counts
  <1>. QED
    BY <1>1, <1>5, <1>7, <1>8 DEF WiaInv

\* The run's application is one of the applications.
LEMMA OwnIsNamed == WiaTyped /\ dag.at # "none" => Own \in Wia!Names
  BY DEF WiaTyped, WiaRuns, Own, Wia!Names

\* A driver goes on without writing, or ends.
LEMMA QuietStep ==
    ASSUME WiaInv, NEW n \in Wia!Names, Wia!Running(n), NEW a \in Applications,
           apps' = [apps EXCEPT ![n] = a], UNCHANGED <<lake, seeder, dag>>,
           orphan' \in BOOLEAN, orphan => orphan', Fits(n, a),
           n[1] = "silver" /\ apps[n].at \in {"drop", "create"} =>
               orphan' \/ a.at \in {"drop", "create"},
           Counts /\ dag.at = "poll" /\ Own = n /\ OnCourse(apps[n]) => OnCourse(a)
    PROVE  WiaInv'
  <1>1. /\ apps' \in [Wia!Names -> Applications] /\ apps'[n] = a
        /\ \A m \in Wia!Names \ {n} : apps'[m] = apps[m]
    BY DEF WiaInv, WiaTyped
  <1>2. WiaTyped'
    BY <1>1 DEF WiaInv, WiaTyped, Wia!Names, Wia!RunLabels, Applications, Zones, WiaRuns
  <1>3. ASSUME NEW m \in Wia!Names PROVE Fits(m, apps[m])'
    <2>1. Fits(m, apps'[m])
      BY <1>1 DEF WiaInv
    <2>. QED
      BY <2>1 DEF Fits
  <1>4. SilverIsFound'
    <2>1. SilverIsFound
      BY DEF WiaInv
    <2>2. (\E m \in Wia!Names : m[1] = "silver" /\ apps[m].at \in {"drop", "create"}) =>
              \/ orphan'
              \/ \E m \in Wia!Names : m[1] = "silver" /\ apps'[m].at \in {"drop", "create"}
      BY <1>1
    <2>. QED
      BY <2>1, <2>2 DEF SilverIsFound, Wia!Names, Wia!RunLabels
  <1>5. Own' = Own /\ Counts' = Counts /\ \A b : OnCourse(b)' = OnCourse(b)
    BY DEF Own, Counts, OnCourse
  <1>6. ASSUME Counts PROVE Refreshes'
    <2>1. Refreshes
      BY <1>6 DEF WiaInv
    <2>2. dag.at = "poll" => OnCourse(apps'[Own])
      BY <1>1, <1>6, <2>1, OwnIsNamed DEF Refreshes, WiaInv
    <2>3. dag.at = "success" => Own # n /\ Own \in Wia!Names
      BY <2>1, OwnIsNamed DEF Refreshes, Wia!Running, WiaInv
    <2>4. dag.at = "success" => apps'[Own].phase # "Running"
      BY <1>1, <2>1, <2>3 DEF Refreshes
    <2>5. dag.at' = "poll" => OnCourse(apps[Own])'
      BY <1>5, <2>2
    <2>6. dag.at' = "success" => apps[Own]'.phase # "Running"
      BY <1>5, <2>4
    <2>. QED
      BY <2>1, <2>5, <2>6 DEF Refreshes
  <1>7. dag'.since <= lake'["bronze"].rows
    BY DEF WiaInv
  <1>. QED
    BY <1>2, <1>3, <1>4, <1>5, <1>6, <1>7 DEF WiaInv

\* A driver writes its table.
LEMMA WriteStep ==
    ASSUME WiaInv, NEW n \in Wia!Names, Wia!Running(n), NEW a \in Applications, NEW z \in Zones,
           apps' = [apps EXCEPT ![n] = a], lake' = [lake EXCEPT ![n[1]] = z],
           dag' = [dag EXCEPT !.alone = @ /\ Wia!Mine(n)], UNCHANGED <<seeder, orphan>>,
           Fits(n, a)', a.phase = "Running",
           n[1] = "silver" => z.rows > 0,
           n[1] = "silver" /\ ~z.known =>
               \/ orphan \/ a.at \in {"drop", "create"}
               \/ \E m \in Wia!Names \ {n} : m[1] = "silver" /\ apps[m].at \in {"drop", "create"},
           Counts /\ dag.at = "poll" /\ Own = n /\ OnCourse(apps[n]) =>
               /\ a.at \in {"look", "merge", "append", "overwrite"} => a.read >= dag.since
               /\ a.at \in {"drop", "create", "count"} => z.rows >= dag.since
    PROVE  WiaInv'
  <1>1. /\ apps' \in [Wia!Names -> Applications] /\ apps'[n] = a
        /\ \A m \in Wia!Names \ {n} : apps'[m] = apps[m]
    BY DEF WiaInv, WiaTyped
  <1>2. n[1] \in {"silver", "gold"}
    BY DEF Wia!Names
  <1>3. /\ lake' \in [{"bronze", "silver", "gold"} -> Zones] /\ lake'[n[1]] = z
        /\ \A y \in {"bronze", "silver", "gold"} \ {n[1]} : lake'[y] = lake[y]
        /\ lake'["bronze"] = lake["bronze"]
    BY <1>2 DEF WiaInv, WiaTyped
  <1>4. dag \in WiaRuns
    BY DEF WiaInv, WiaTyped
  <1>. DEFINE d == [dag EXCEPT !.alone = @ /\ Wia!Mine(n)]
  <1>5. /\ d \in WiaRuns /\ d.at = dag.at /\ d.layer = dag.layer /\ d.label = dag.label
        /\ d.since = dag.since /\ d.own = dag.own /\ d.alone = (dag.alone /\ Wia!Mine(n))
    BY <1>4 DEF WiaRuns
  <1>6. dag' = d
    OBVIOUS
  <1>. HIDE DEF d
  <1>7. WiaTyped'
    BY <1>1, <1>3, <1>5, <1>6
    DEF WiaInv, WiaTyped, Wia!Names, Wia!RunLabels, Applications, Zones, WiaRuns
  <1>8. lake["silver"].rows > 0 => lake'["silver"].rows > 0
    BY <1>2, <1>3
  <1>9. ASSUME NEW m \in Wia!Names PROVE Fits(m, apps[m])'
    <2>1. CASE m = n
      BY <1>1, <2>1
    <2>2. CASE m # n
      <3>1. Fits(m, apps[m]) /\ apps'[m] = apps[m]
        BY <1>1, <2>2 DEF WiaInv
      <3>. QED
        BY <1>8, <3>1 DEF Fits
    <2>. QED
      BY <2>1, <2>2
  <1>10. SilverIsFound'
    <2>1. SilverIsFound
      BY DEF WiaInv
    <2>2. CASE n[1] = "silver"
      <3>1. lake'["silver"] = z /\ apps'[n].at = a.at /\ n \in Wia!Names'
        BY <1>1, <1>3, <2>2 DEF Wia!Names, Wia!RunLabels
      <3>2. \A m \in Wia!Names \ {n} : m \in Wia!Names' /\ apps'[m] = apps[m]
        BY <1>1 DEF Wia!Names, Wia!RunLabels
      <3>. QED
        BY <2>2, <3>1, <3>2 DEF SilverIsFound
    <2>3. CASE n[1] = "gold"
      <3>1. lake'["silver"] = lake["silver"]
        BY <1>3, <2>3
      <3>2. \A m \in Wia!Names : m[1] = "silver" => apps'[m] = apps[m]
        BY <1>1, <2>3
      <3>. QED
        BY <2>1, <3>1, <3>2 DEF SilverIsFound, Wia!Names, Wia!RunLabels
    <2>. QED
      BY <1>2, <2>2, <2>3
  <1>11. ASSUME Counts' PROVE Refreshes'
    <2>1. Counts /\ n = Own
      BY <1>5, <1>6, <1>11 DEF Counts, Own, Wia!Mine
    <2>2. Refreshes
      BY <2>1 DEF WiaInv
    <2>3. n[1] = dag.layer /\ Own' = n
      BY <1>5, <1>6, <2>1 DEF Own
    <2>4. dag.layer = "gold" => lake'["silver"].rows >= dag.since
      BY <1>3, <2>2, <2>3 DEF Refreshes
    <2>5. dag.at # "success"
      BY <2>1, <2>2 DEF Refreshes, Wia!Running
    <2>6. ASSUME dag.at = "poll" PROVE OnCourse(apps[Own])'
      <3>1. OnCourse(apps[n])
        BY <2>1, <2>2, <2>6 DEF Refreshes
      <3>2. lake'[dag.layer] = z /\ apps'[n] = a
        BY <1>1, <1>3, <2>3
      <3>3. /\ a.at \in {"look", "merge", "append", "overwrite"} => a.read >= dag.since
            /\ a.at \in {"drop", "create", "count"} => z.rows >= dag.since
        BY <2>1, <2>6, <3>1
      <3>. QED
        BY <1>5, <1>6, <2>3, <3>2, <3>3 DEF OnCourse
    <2>. QED
      BY <1>5, <1>6, <2>4, <2>5, <2>6 DEF Refreshes
  <1>12. dag'.since <= lake'["bronze"].rows
    BY <1>3, <1>5, <1>6 DEF WiaInv
  <1>. QED
    BY <1>7, <1>9, <1>10, <1>11, <1>12 DEF WiaInv

\* The record of a running application.
LEMMA RunningIsTyped ==
    ASSUME WiaInv, NEW n \in Wia!Names
    PROVE  /\ apps[n] \in Applications /\ Fits(n, apps[n]) /\ n[1] \in {"silver", "gold"}
           /\ lake["bronze"] \in Zones /\ lake["silver"] \in Zones /\ lake["gold"] \in Zones
  BY DEF WiaInv, WiaTyped, Wia!Names

\* An application that has ended does not move any more.
LEMMA EndStep ==
    ASSUME WiaInv, NEW n \in Wia!Names, Wia!Running(n), NEW p \in {"Succeeded", "Failed"},
           Wia!End(n, p), UNCHANGED <<lake, seeder, dag>>,
           orphan' \in BOOLEAN, orphan => orphan',
           n[1] = "silver" /\ apps[n].at \in {"drop", "create"} => orphan',
           Counts /\ dag.at = "poll" /\ Own = n /\ OnCourse(apps[n]) /\ p = "Succeeded" =>
               lake[dag.layer].known /\ lake[dag.layer].rows >= dag.since
    PROVE  WiaInv'
  <1>. DEFINE a == [Wia!NoApp EXCEPT !.phase = p]
  <1>1. 0 \in 0..MaxSeeds
    BY ServicesAssumption DEF Wia!WiaAssumption
  <1>2. a \in Applications /\ a.at = "none" /\ a.phase = p
    BY <1>1 DEF Wia!NoApp, Applications
  <1>3. apps' = [apps EXCEPT ![n] = a]
    BY DEF Wia!End
  <1>. HIDE DEF a
  <1>4. Fits(n, a)
    BY <1>2 DEF Fits
  <1>5. Counts /\ dag.at = "poll" /\ Own = n /\ OnCourse(apps[n]) => OnCourse(a)
    BY <1>2 DEF OnCourse
  <1>. QED
    BY <1>2, <1>3, <1>4, <1>5, QuietStep

\* An application in its next step.
Moved(n, at, r) == [apps[n] EXCEPT !.at = at, !.read = r]

\* It is an application that runs.
LEMMA MovedApp ==
    ASSUME WiaInv, NEW n \in Wia!Names, Wia!Running(n), NEW r \in 0..MaxSeeds,
           NEW at \in {"look", "merge", "append", "overwrite", "drop", "create", "count"}
    PROVE  /\ Moved(n, at, r) \in Applications /\ Moved(n, at, r).at = at
           /\ Moved(n, at, r).read = r /\ Moved(n, at, r).phase = "Running"
  BY RunningIsTyped DEF Applications, Moved, Wia!Running

\* spark.table and count.
LEMMA ReadSourceKeeps ==
    ASSUME WiaInv, NEW n \in Wia!Names, Wia!ReadSource(n)
    PROVE  WiaInv'
  <1>. DEFINE src == lake[Wia!Source(n)]
              at == IF n[1] = "silver" THEN "look" ELSE "overwrite"
  <1>1. /\ Wia!Running(n) /\ apps[n].at = "read" /\ UNCHANGED <<lake, seeder, dag, orphan>>
        /\ \/ ~src.known /\ Wia!End(n, "Failed")
           \/ src.rows = 0 /\ Wia!End(n, "Succeeded")
           \/ src.rows # 0 /\ apps' = [apps EXCEPT ![n].read = src.rows, ![n].at = at]
    BY DEF Wia!ReadSource, WiaInv, WiaTyped
  <1>2. /\ src \in Zones /\ n[1] \in {"silver", "gold"}
        /\ n[1] = "silver" => src = lake["bronze"]
        /\ n[1] = "gold" => src = lake["silver"]
    BY RunningIsTyped DEF Wia!Source
  <1>3. Counts /\ Own = n => src.rows >= dag.since
    BY <1>2 DEF WiaInv, Own, Refreshes
  <1>4. dag.since \in Nat /\ src.rows \in Nat /\ orphan \in BOOLEAN
    BY <1>2 DEF WiaInv, WiaTyped, WiaRuns, Zones
  <1>. HIDE DEF src
  <1>5. CASE ~src.known /\ Wia!End(n, "Failed")
    BY <1>1, <1>4, <1>5, EndStep
  <1>6. CASE src.rows = 0 /\ Wia!End(n, "Succeeded")
    <2>1. ~(Counts /\ Own = n)
      BY <1>3, <1>4, <1>6 DEF Counts
    <2>. QED
      BY <1>1, <1>4, <1>6, <2>1, EndStep
  <1>7. CASE src.rows # 0 /\ apps' = [apps EXCEPT ![n].read = src.rows, ![n].at = at]
    <2>1. /\ at \in {"look", "overwrite"} /\ src.rows \in 0..MaxSeeds
          /\ at = "look" => n[1] = "silver"
          /\ at = "overwrite" => n[1] = "gold"
      BY <1>2 DEF Zones
    <2>. HIDE DEF at
    <2>2. PICK a \in Applications : /\ a = Moved(n, at, src.rows)
                                    /\ a.at = at /\ a.read = src.rows /\ a.phase = "Running"
      BY <1>1, <2>1, MovedApp
    <2>5. apps' = [apps EXCEPT ![n] = a]
      BY <1>7, <2>2, RunningIsTyped DEF Applications, Moved, WiaInv, WiaTyped
    <2>3. Fits(n, a)
      BY <1>4, <1>7, <2>1, <2>2 DEF Fits
    <2>4. Counts /\ Own = n => OnCourse(a)
      BY <1>3, <2>1, <2>2 DEF OnCourse
    <2>. QED
      BY <1>1, <1>4, <2>2, <2>3, <2>4, <2>5, QuietStep
  <1>. QED
    BY <1>1, <1>5, <1>6, <1>7

\* isDeltaTable
LEMMA LookKeeps ==
    ASSUME WiaInv, NEW n \in Wia!Names, Wia!Look(n)
    PROVE  WiaInv'
  <1>. DEFINE at == IF lake["silver"].rows > 0 THEN "merge" ELSE "append"
  <1>1. /\ Wia!Running(n) /\ apps[n].at = "look" /\ UNCHANGED <<lake, seeder, dag, orphan>>
        /\ apps' = [apps EXCEPT ![n].at = at]
    BY DEF Wia!Look, Wia!Move
  <1>2. /\ at \in {"merge", "append"} /\ (at = "merge" => lake["silver"].rows > 0)
    OBVIOUS
  <1>. HIDE DEF at
  <1>3. apps[n] \in Applications /\ apps[n].read \in 0..MaxSeeds /\ Fits(n, apps[n])
    BY RunningIsTyped DEF Applications
  <1>4. PICK a \in Applications : /\ a = Moved(n, at, apps[n].read)
                                  /\ a.at = at /\ a.read = apps[n].read
                                  /\ a.phase = "Running"
    BY <1>1, <1>2, <1>3, MovedApp
  <1>5. apps' = [apps EXCEPT ![n] = a]
    BY <1>1, <1>3, <1>4 DEF Applications, Moved, WiaInv, WiaTyped
  <1>6. Fits(n, a)
    BY <1>1, <1>2, <1>3, <1>4 DEF Fits
  <1>7. OnCourse(apps[n]) => OnCourse(a)
    BY <1>1, <1>2, <1>4 DEF OnCourse
  <1>. QED
    BY <1>1, <1>4, <1>5, <1>6, <1>7, QuietStep DEF WiaInv, WiaTyped

\* MERGE, or the first write of silver, or gold's write.
LEMMA WritesKeep ==
    ASSUME WiaInv, NEW n \in Wia!Names, Wia!Merge(n) \/ Wia!WriteTable(n)
    PROVE  WiaInv'
  <1>. DEFINE at == IF apps[n].at = "merge" THEN "count" ELSE "drop"
              z == [lake[n[1]] EXCEPT !.rows = apps[n].read]
  <1>1. /\ Wia!Running(n) /\ apps[n].at \in {"merge", "append", "overwrite"}
        /\ UNCHANGED <<seeder, orphan>>
        /\ dag' = [dag EXCEPT !.alone = @ /\ Wia!Mine(n)]
        /\ apps' = [apps EXCEPT ![n].at = at]
    BY DEF Wia!Merge, Wia!WriteTable, Wia!Move, Wia!Writes
  <1>2. /\ apps[n] \in Applications /\ apps[n].read \in 0..MaxSeeds /\ Fits(n, apps[n])
        /\ n[1] \in {"silver", "gold"} /\ lake[n[1]] \in Zones
    BY RunningIsTyped DEF Applications
  <1>3. lake' = [lake EXCEPT ![n[1]].rows = apps[n].read]
    BY <1>1, <1>2 DEF Fits, Wia!Merge, Wia!WriteTable
  <1>4. /\ at \in {"count", "drop"} /\ (at = "count" <=> apps[n].at = "merge")
    OBVIOUS
  <1>. HIDE DEF at
  <1>5. PICK a \in Applications : /\ a = Moved(n, at, apps[n].read)
                                  /\ a.at = at /\ a.read = apps[n].read
                                  /\ a.phase = "Running"
    BY <1>1, <1>2, <1>4, MovedApp
  <1>6. apps' = [apps EXCEPT ![n] = a]
    BY <1>1, <1>2, <1>5 DEF Applications, Moved, WiaInv, WiaTyped
  <1>7. /\ z \in Zones /\ z.rows = apps[n].read /\ z.known = lake[n[1]].known
        /\ lake' = [lake EXCEPT ![n[1]] = z]
    BY <1>2, <1>3 DEF Zones, WiaInv, WiaTyped
  <1>. HIDE DEF z
  <1>8. apps[n].read > 0 /\ z.rows > 0
    BY <1>1, <1>2, <1>7 DEF Fits
  <1>9. n[1] = "silver" => lake'["silver"].rows > 0
    BY <1>2, <1>7, <1>8 DEF WiaInv, WiaTyped
  <1>10. Fits(n, a)'
    BY <1>4, <1>5, <1>9 DEF Fits
  <1>11. ASSUME n[1] = "silver", ~z.known 
         PROVE  \/ orphan \/ a.at \in {"drop", "create"}
                \/ \E m \in Wia!Names \ {n} :
                      m[1] = "silver" /\ apps[m].at \in {"drop", "create"}
    <2>1. CASE apps[n].at = "merge"
      <3>1. lake["silver"].rows > 0 /\ ~lake["silver"].known
        BY <1>2, <1>7, <1>11, <2>1 DEF Fits
      <3>. QED
        BY <2>1, <3>1 DEF WiaInv, SilverIsFound
    <2>2. CASE apps[n].at # "merge"
      BY <1>4, <1>5, <2>2
    <2>. QED
      BY <2>1, <2>2
  <1>12. OnCourse(apps[n]) => z.rows >= dag.since
    BY <1>1, <1>7 DEF OnCourse
  <1>. QED
    BY <1>1, <1>4, <1>5, <1>6, <1>7, <1>8, <1>10, <1>11, <1>12, WriteStep

\* DROP and CREATE of the registration.
LEMMA RegistersKeep ==
    ASSUME WiaInv, NEW n \in Wia!Names, Wia!DropTable(n) \/ Wia!CreateTable(n)
    PROVE  WiaInv'
  <1>. DEFINE at == IF apps[n].at = "drop" THEN "create" ELSE "count"
              found == apps[n].at = "create"
              z == [lake[n[1]] EXCEPT !.known = found]
  <1>1. /\ Wia!Running(n) /\ apps[n].at \in {"drop", "create"}
        /\ UNCHANGED <<seeder, orphan>>
        /\ dag' = [dag EXCEPT !.alone = @ /\ Wia!Mine(n)]
        /\ apps' = [apps EXCEPT ![n].at = at]
        /\ lake' = [lake EXCEPT ![n[1]].known = found]
    BY DEF Wia!DropTable, Wia!CreateTable, Wia!Move, Wia!Writes
  <1>2. /\ apps[n] \in Applications /\ apps[n].read \in 0..MaxSeeds /\ Fits(n, apps[n])
        /\ n[1] \in {"silver", "gold"} /\ lake[n[1]] \in Zones
    BY RunningIsTyped DEF Applications
  <1>3. /\ at \in {"create", "count"} /\ (at = "create" <=> apps[n].at = "drop")
        /\ found \in BOOLEAN /\ (~found => apps[n].at = "drop")
    BY <1>1
  <1>. HIDE DEF at, found
  <1>4. PICK a \in Applications : /\ a = Moved(n, at, apps[n].read)
                                  /\ a.at = at /\ a.read = apps[n].read
                                  /\ a.phase = "Running"
    BY <1>1, <1>2, <1>3, MovedApp
  <1>5. apps' = [apps EXCEPT ![n] = a]
    BY <1>1, <1>2, <1>4 DEF Applications, Moved, WiaInv, WiaTyped
  <1>6. /\ z \in Zones /\ z.rows = lake[n[1]].rows /\ z.known = found
        /\ lake' = [lake EXCEPT ![n[1]] = z]
    BY <1>1, <1>2, <1>3 DEF Zones, WiaInv, WiaTyped
  <1>. HIDE DEF z
  <1>7. n[1] = "silver" => z.rows > 0
    BY <1>1, <1>2, <1>6 DEF Fits
  <1>8. n[1] = "silver" => lake'["silver"].rows > 0
    BY <1>2, <1>6, <1>7 DEF WiaInv, WiaTyped
  <1>9. Fits(n, a)'
    BY <1>3, <1>4, <1>8 DEF Fits
  <1>10. ~z.known => a.at = "create"
    BY <1>3, <1>4, <1>6
  <1>11. Own = n /\ OnCourse(apps[n]) => z.rows >= dag.since
    BY <1>1, <1>6 DEF OnCourse, Own
  <1>12. a.at \in {"create", "count"}
    BY <1>3, <1>4
  <1>. QED
    BY <1>1, <1>4, <1>5, <1>6, <1>7, <1>9, <1>10, <1>11, <1>12, WriteStep

\* The closing count.
LEMMA CountKeeps ==
    ASSUME WiaInv, NEW n \in Wia!Names, Wia!Count(n)
    PROVE  WiaInv'
  <1>. DEFINE p == IF lake[n[1]].known THEN "Succeeded" ELSE "Failed"
  <1>1. /\ Wia!Running(n) /\ apps[n].at = "count" /\ UNCHANGED <<lake, seeder, dag, orphan>>
        /\ Wia!End(n, p)
    BY DEF Wia!Count
  <1>2. p \in {"Succeeded", "Failed"} /\ (p = "Succeeded" => lake[n[1]].known)
    BY RunningIsTyped DEF Zones
  <1>. HIDE DEF p
  <1>3. Own = n /\ OnCourse(apps[n]) /\ p = "Succeeded" =>
            lake[dag.layer].known /\ lake[dag.layer].rows >= dag.since
    BY <1>1, <1>2 DEF OnCourse, Own
  <1>. QED
    BY <1>1, <1>2, <1>3, EndStep DEF WiaInv, WiaTyped

\* A driver is lost.
LEMMA DiesKeeps ==
    ASSUME WiaInv, NEW n \in Wia!Names, Wia!Dies(n)
    PROVE  WiaInv'
  <1>1. /\ Wia!Running(n) /\ Wia!End(n, "Failed") /\ UNCHANGED <<lake, seeder, dag>>
        /\ orphan' = (orphan \/ (n[1] = "silver" /\ apps[n].at \in {"drop", "create"}))
    BY DEF Wia!Dies
  <1>2. orphan' \in BOOLEAN /\ (orphan => orphan')
        /\ (n[1] = "silver" /\ apps[n].at \in {"drop", "create"} => orphan')
    BY <1>1 DEF WiaInv, WiaTyped
  <1>. QED
    BY <1>1, <1>2, EndStep

\* Bronze is seeded beside the run.
LEMMA SeederKeeps ==
    ASSUME WiaInv,
           Wia!SeedDrops \/ Wia!SeedAppends \/ Wia!SeedCreates \/ Wia!SeederDies
    PROVE  WiaInv'
  <1>1. lake["bronze"] \in Zones /\ MaxSeeds \in Nat
    BY ServicesAssumption DEF WiaInv, WiaTyped, Wia!WiaAssumption
  <1>2. /\ lake' \in [{"bronze", "silver", "gold"} -> Zones]
        /\ lake'["silver"] = lake["silver"] /\ lake'["gold"] = lake["gold"]
        /\ lake'["bronze"].rows >= lake["bronze"].rows
        /\ seeder' = "append" => lake'["bronze"].rows < MaxSeeds
        /\ seeder' \in {"none", "append", "create"}
    <2>1. CASE Wia!SeedDrops
      <3>. DEFINE z == [lake["bronze"] EXCEPT !.known = FALSE]
      <3>1. z \in Zones /\ z.rows = lake["bronze"].rows
        BY <1>1 DEF Zones
      <3>2. /\ lake' = [lake EXCEPT !["bronze"] = z] /\ seeder' = "append"
            /\ lake["bronze"].rows < MaxSeeds
        BY <2>1 DEF Wia!SeedDrops
      <3>. HIDE DEF z
      <3>3. /\ lake' \in [{"bronze", "silver", "gold"} -> Zones] /\ lake'["bronze"] = z
            /\ lake'["silver"] = lake["silver"] /\ lake'["gold"] = lake["gold"]
        BY <3>1, <3>2 DEF WiaInv, WiaTyped
      <3>. QED
        BY <1>1, <3>1, <3>2, <3>3 DEF Zones
    <2>2. CASE Wia!SeedAppends
      <3>. DEFINE z == [lake["bronze"] EXCEPT !.rows = @ + 1]
      <3>1. lake["bronze"].rows < MaxSeeds
        BY <2>2 DEF Wia!SeedAppends, WiaInv, WiaTyped
      <3>2. z \in Zones /\ z.rows = lake["bronze"].rows + 1
        BY <1>1, <3>1 DEF Zones
      <3>3. lake' = [lake EXCEPT !["bronze"] = z] /\ seeder' = "create"
        BY <2>2 DEF Wia!SeedAppends
      <3>. HIDE DEF z
      <3>4. /\ lake' \in [{"bronze", "silver", "gold"} -> Zones] /\ lake'["bronze"] = z
            /\ lake'["silver"] = lake["silver"] /\ lake'["gold"] = lake["gold"]
        BY <3>2, <3>3 DEF WiaInv, WiaTyped
      <3>. QED
        BY <1>1, <3>2, <3>3, <3>4 DEF Zones
    <2>3. CASE Wia!SeedCreates
      <3>. DEFINE z == [lake["bronze"] EXCEPT !.known = TRUE]
      <3>1. z \in Zones /\ z.rows = lake["bronze"].rows
        BY <1>1 DEF Zones
      <3>2. lake' = [lake EXCEPT !["bronze"] = z] /\ seeder' = "none"
        BY <2>3 DEF Wia!SeedCreates
      <3>. HIDE DEF z
      <3>3. /\ lake' \in [{"bronze", "silver", "gold"} -> Zones] /\ lake'["bronze"] = z
            /\ lake'["silver"] = lake["silver"] /\ lake'["gold"] = lake["gold"]
        BY <3>1, <3>2 DEF WiaInv, WiaTyped
      <3>. QED
        BY <1>1, <3>1, <3>2, <3>3 DEF Zones
    <2>4. CASE Wia!SeederDies
      <3>1. lake' = lake /\ seeder' = "none"
        BY <2>4 DEF Wia!SeederDies
      <3>. QED
        BY <1>1, <3>1 DEF Zones, WiaInv, WiaTyped
    <2>. QED
      BY <2>1, <2>2, <2>3, <2>4
  <1>3. UNCHANGED <<apps, dag, orphan>>
    BY DEF Wia!SeedDrops, Wia!SeedAppends, Wia!SeedCreates, Wia!SeederDies
  <1>4. WiaTyped'
    BY <1>2, <1>3
    DEF WiaInv, WiaTyped, Wia!Names, Wia!RunLabels, Applications, Zones, WiaRuns
  <1>5. SilverIsFound' /\ \A n \in Wia!Names : Fits(n, apps[n])'
    BY <1>2, <1>3 DEF WiaInv, SilverIsFound, Fits, Wia!Names, Wia!RunLabels
  <1>6. dag'.since <= lake'["bronze"].rows
    BY <1>1, <1>2, <1>3 DEF WiaInv, WiaTyped, WiaRuns, Zones
  <1>7. ASSUME Counts' PROVE Refreshes'
    <2>1. Counts /\ Refreshes /\ Own' = Own
      BY <1>3, <1>7 DEF WiaInv, Counts, Own
    <2>2. dag.layer \in {"silver", "gold"}
      BY DEF WiaInv, WiaTyped, WiaRuns
    <2>3. lake'[dag.layer] = lake[dag.layer]
      BY <1>2, <2>2
    <2>. QED
      BY <1>2, <1>3, <2>1, <2>3 DEF Refreshes, OnCourse
  <1>. QED
    BY <1>4, <1>5, <1>6, <1>7 DEF WiaInv, Wia!Names, Wia!RunLabels

\* The DAG run moves on; the drivers do not.
LEMMA DagStep ==
    ASSUME WiaInv, UNCHANGED <<lake, seeder, orphan>>, NEW d \in WiaRuns, dag' = d,
           d.at # "none" => d.label \in Wia!RunLabels, d.since <= lake["bronze"].rows,
           apps' \in [Wia!Names -> Applications],
           \A n \in Wia!Names :
               apps'[n] = apps[n] \/ (apps[n].at \notin {"drop", "create"} /\ Fits(n, apps'[n])),
           d.own /\ d.alone /\ d.since > 0 => Refreshes'
    PROVE  WiaInv'
  <1>1. WiaTyped'
    BY DEF WiaInv, WiaTyped, Wia!Names, Wia!RunLabels, Applications, Zones, WiaRuns
  <1>2. \A n \in Wia!Names : Fits(n, apps[n])'
    BY DEF WiaInv, Fits
  <1>3. SilverIsFound'
    BY DEF WiaInv, SilverIsFound, Wia!Names, Wia!RunLabels
  <1>4. Counts' => Refreshes'
    BY DEF Counts
  <1>. QED
    BY <1>1, <1>2, <1>3, <1>4 DEF WiaInv, Wia!Names, Wia!RunLabels

\* A run is triggered, or a task cleared, or it fails.
LEMMA DagMovesKeep ==
    ASSUME WiaInv, (\E d \in Days : Wia!Trigger(d)) \/ Wia!Clear \/ Wia!TaskFails
    PROVE  WiaInv'
  <1>1. /\ dag \in WiaRuns /\ lake["bronze"].rows \in 0..MaxSeeds /\ MaxTries \in Nat \ {0}
        /\ MaxSeeds \in Nat
    BY ServicesAssumption DEF WiaInv, WiaTyped, Wia!WiaAssumption, Zones
  <1>2. UNCHANGED <<lake, seeder, orphan, apps>>
    BY DEF Wia!Trigger, Wia!Clear, Wia!TaskFails
  <1>3. apps' \in [Wia!Names -> Applications] /\ \A n \in Wia!Names : apps'[n] = apps[n]
    BY <1>2 DEF WiaInv, WiaTyped
  <1>4. ASSUME NEW day \in Days, Wia!Trigger(day) PROVE WiaInv'
    <2>. DEFINE d == [Wia!NoRun EXCEPT !.at = "apply", !.label = <<day, 1>>,
                                       !.since = lake["bronze"].rows]
    <2>1. dag' = d
      BY <1>4 DEF Wia!Trigger
    <2>2. <<day, 1>> \in Wia!RunLabels /\ <<day, 1>> \in (Days \cup {0}) \X (1..MaxTries)
      BY <1>1 DEF Wia!RunLabels
    <2>3. /\ d \in WiaRuns /\ d.at = "apply" /\ d.layer = "silver" /\ d.label = <<day, 1>>
          /\ d.since = lake["bronze"].rows
      BY <1>1, <2>2 DEF WiaRuns, Wia!NoRun
    <2>. HIDE DEF d
    <2>4. Refreshes'
      BY <2>1, <2>3 DEF Refreshes
    <2>5. d.since <= lake["bronze"].rows
      BY <1>1, <2>3
    <2>. QED
      BY <1>2, <1>3, <2>1, <2>2, <2>3, <2>4, <2>5, DagStep
  <1>5. CASE Wia!Clear
    <2>. DEFINE d == [dag EXCEPT !.at = "apply", !.label[2] = @ + 1]
    <2>1. dag' = d /\ dag.at = "failed" /\ dag.label[2] < MaxTries
      BY <1>5 DEF Wia!Clear
    <2>2. PICK day \in Days, try \in 1..MaxTries : dag.label = <<day, try>>
      BY <2>1 DEF WiaInv, WiaTyped, Wia!RunLabels
    <2>3. /\ <<day, try + 1>> \in Wia!RunLabels
          /\ <<day, try + 1>> \in (Days \cup {0}) \X (1..MaxTries)
      BY <1>1, <2>1, <2>2 DEF Wia!RunLabels
    <2>4. [dag.label EXCEPT ![2] = @ + 1] = <<day, try + 1>>
      BY <2>2
    <2>5. /\ d \in WiaRuns /\ d.at = "apply" /\ d.layer = dag.layer /\ d.label = <<day, try + 1>>
          /\ d.since = dag.since /\ d.own = dag.own /\ d.alone = dag.alone
      BY <1>1, <2>3, <2>4 DEF WiaRuns
    <2>. HIDE DEF d
    <2>6. d.own /\ d.alone /\ d.since > 0 => Refreshes'
      <3>1. ASSUME d.own, d.alone, d.since > 0 PROVE Refreshes'
        <4>1. Refreshes
          BY <2>5, <3>1 DEF WiaInv, Counts
        <4>. QED
          BY <1>2, <2>1, <2>5, <4>1 DEF Refreshes
      <3>. QED
        BY <3>1
    <2>7. d.since <= lake["bronze"].rows
      BY <2>5 DEF WiaInv
    <2>. QED
      BY <1>2, <1>3, <2>1, <2>3, <2>5, <2>6, <2>7, DagStep
  <1>6. CASE Wia!TaskFails
    <2>. DEFINE d == [dag EXCEPT !.at = "failed"]
    <2>1. dag' = d /\ dag.at # "none"
      BY <1>6 DEF Wia!TaskFails, Wia!Active
    <2>2. /\ d \in WiaRuns /\ d.at = "failed" /\ d.layer = dag.layer /\ d.label = dag.label
          /\ d.since = dag.since /\ d.own = dag.own /\ d.alone = dag.alone
      BY <1>1 DEF WiaRuns
    <2>. HIDE DEF d
    <2>3. d.own /\ d.alone /\ d.since > 0 => Refreshes'
      <3>1. ASSUME d.own, d.alone, d.since > 0 PROVE Refreshes'
        <4>1. Refreshes
          BY <2>2, <3>1 DEF WiaInv, Counts
        <4>. QED
          BY <1>2, <2>1, <2>2, <4>1 DEF Refreshes
      <3>. QED
        BY <3>1
    <2>4. d.since <= lake["bronze"].rows /\ d.label \in Wia!RunLabels
      BY <2>1, <2>2 DEF WiaInv, WiaTyped
    <2>. QED
      BY <1>2, <1>3, <2>1, <2>2, <2>3, <2>4, DagStep
  <1>. QED
    BY <1>4, <1>5, <1>6

\* kubectl apply: the application is made now, or the run knows it is not its own.
LEMMA ApplyKeeps ==
    ASSUME WiaInv, Wia!Apply
    PROVE  WiaInv'
  <1>. DEFINE d == [dag EXCEPT !.at = "poll", !.own = @ /\ apps[Own].phase = "none"]
  <1>1. /\ dag.at = "apply" /\ dag' = d /\ UNCHANGED <<lake, seeder, orphan>>
        /\ apps' = [apps EXCEPT ![Own] = Wia!Created(@)]
    BY DEF Wia!Apply, Own
  <1>2. Own \in Wia!Names /\ dag \in WiaRuns /\ dag.label \in Wia!RunLabels
    BY <1>1, OwnIsNamed DEF WiaInv, WiaTyped
  <1>3. /\ d \in WiaRuns /\ d.at = "poll" /\ d.layer = dag.layer /\ d.label = dag.label
        /\ d.since = dag.since /\ d.own = (dag.own /\ apps[Own].phase = "none")
        /\ d.alone = dag.alone
    BY <1>2 DEF WiaRuns
  <1>. HIDE DEF d
  <1>4. Own' = Own
    BY <1>1, <1>3 DEF Own
  <1>5. apps[Own] \in Applications /\ Fits(Own, apps[Own])
    BY <1>2, RunningIsTyped
  <1>. DEFINE c == Wia!Created(apps[Own])
  <1>6. /\ c \in Applications
        /\ apps[Own].phase = "none" => c.phase = "Running" /\ c.at = "read"
        /\ apps[Own].phase # "none" => c = apps[Own]
    BY <1>5 DEF Wia!Created, Applications
  <1>. HIDE DEF c
  <1>7. apps' = [apps EXCEPT ![Own] = c]
    BY <1>1 DEF c
  <1>8. /\ apps' \in [Wia!Names -> Applications] /\ apps'[Own] = c
        /\ \A n \in Wia!Names \ {Own} : apps'[n] = apps[n]
    BY <1>2, <1>6, <1>7 DEF WiaInv, WiaTyped
  <1>9. apps[Own].phase = "none" => apps[Own].at = "none" /\ Fits(Own, c)
    BY <1>5, <1>6 DEF Fits
  <1>10. \A n \in Wia!Names :
            apps'[n] = apps[n] \/ (apps[n].at \notin {"drop", "create"} /\ Fits(n, apps'[n]))
    BY <1>6, <1>8, <1>9
  <1>11. ASSUME d.own, d.alone, d.since > 0 PROVE Refreshes'
    <2>1. Refreshes /\ apps[Own].phase = "none"
      BY <1>3, <1>11 DEF WiaInv, Counts
    <2>2. c.phase = "Running" /\ c.at = "read"
      BY <1>6, <2>1
    <2>3. OnCourse(apps[Own])'
      BY <1>4, <1>8, <2>2 DEF OnCourse
    <2>. QED
      BY <1>1, <1>3, <2>1, <2>3 DEF Refreshes
  <1>12. d.since <= lake["bronze"].rows
    BY <1>3 DEF WiaInv
  <1>. QED
    BY <1>1, <1>2, <1>3, <1>8, <1>10, <1>11, <1>12, DagStep

\* A layer is finished: its rows are at least those the run began with.
LEMMA PollKeeps ==
    ASSUME WiaInv, Wia!PollSucceeded
    PROVE  WiaInv'
  <1>. DEFINE d == IF dag.layer = "gold" THEN [dag EXCEPT !.at = "success"]
                   ELSE [dag EXCEPT !.layer = "gold", !.at = "apply", !.label[2] = 1]
  <1>1. /\ dag.at = "poll" /\ dag' = d /\ UNCHANGED <<lake, seeder, orphan>>
        /\ apps[Own].phase = "Succeeded"
        /\ apps' = apps \/ apps' = [apps EXCEPT ![Own] = Wia!NoApp]
    BY DEF Wia!PollSucceeded, Wia!Finished, Own
  <1>2. /\ Own \in Wia!Names /\ dag \in WiaRuns /\ dag.label \in Wia!RunLabels
        /\ MaxTries \in Nat \ {0} /\ 0 \in 0..MaxSeeds
    BY <1>1, OwnIsNamed, ServicesAssumption DEF WiaInv, WiaTyped, Wia!WiaAssumption
  <1>3. apps[Own] \in Applications /\ Fits(Own, apps[Own])
    BY <1>2, RunningIsTyped
  <1>4. apps[Own].at = "none"
    BY <1>1, <1>3 DEF Fits
  <1>5. Wia!NoApp \in Applications /\ Wia!NoApp.phase = "none" /\ \A n : Fits(n, Wia!NoApp)
    BY <1>2 DEF Wia!NoApp, Applications, Fits
  <1>6. /\ apps' \in [Wia!Names -> Applications] /\ apps'[Own].phase # "Running"
        /\ \A n \in Wia!Names :
              apps'[n] = apps[n] \/ (apps[n].at \notin {"drop", "create"} /\ Fits(n, apps'[n]))
    BY <1>1, <1>2, <1>4, <1>5 DEF WiaInv, WiaTyped
  <1>7. ASSUME dag.own, dag.alone, dag.since > 0
        PROVE  /\ lake[dag.layer].known /\ lake[dag.layer].rows >= dag.since
               /\ dag.layer = "gold" => lake["silver"].rows >= dag.since
    BY <1>1, <1>7 DEF WiaInv, Counts, Refreshes, OnCourse
  <1>8. CASE dag.layer = "gold"
    <2>1. /\ d \in WiaRuns /\ d.at = "success" /\ d.layer = "gold" /\ d.label = dag.label
          /\ d.since = dag.since /\ d.own = dag.own /\ d.alone = dag.alone
      BY <1>2, <1>8 DEF WiaRuns
    <2>. HIDE DEF d
    <2>2. Own' = Own
      BY <1>1, <1>8, <2>1 DEF Own
    <2>3. ASSUME d.own, d.alone, d.since > 0 PROVE Refreshes'
      <3>1. /\ lake["gold"].known /\ lake["gold"].rows >= dag.since
            /\ lake["silver"].rows >= dag.since
        BY <1>7, <1>8, <2>1, <2>3
      <3>. QED
        BY <1>1, <1>6, <2>1, <2>2, <3>1 DEF Refreshes
    <2>4. d.since <= lake["bronze"].rows /\ d.label \in Wia!RunLabels
      BY <1>2, <2>1 DEF WiaInv
    <2>. QED
      BY <1>1, <1>6, <2>1, <2>3, <2>4, DagStep
  <1>9. CASE dag.layer = "silver"
    <2>1. PICK day \in Days, try \in 1..MaxTries : dag.label = <<day, try>>
      BY <1>2 DEF Wia!RunLabels
    <2>2. <<day, 1>> \in Wia!RunLabels /\ <<day, 1>> \in (Days \cup {0}) \X (1..MaxTries)
      BY <1>2 DEF Wia!RunLabels
    <2>3. [dag.label EXCEPT ![2] = 1] = <<day, 1>>
      BY <2>1
    <2>4. /\ d \in WiaRuns /\ d.at = "apply" /\ d.layer = "gold" /\ d.label = <<day, 1>>
          /\ d.since = dag.since /\ d.own = dag.own /\ d.alone = dag.alone
      BY <1>2, <1>9, <2>2, <2>3 DEF WiaRuns
    <2>. HIDE DEF d
    <2>5. ASSUME d.own, d.alone, d.since > 0 PROVE Refreshes'
      BY <1>1, <1>7, <1>9, <2>4, <2>5 DEF Refreshes
    <2>6. d.since <= lake["bronze"].rows
      BY <2>4 DEF WiaInv
    <2>. QED
      BY <1>1, <1>6, <2>2, <2>4, <2>5, <2>6, DagStep
  <1>. QED
    BY <1>2, <1>8, <1>9 DEF WiaRuns

\* Every step of the drivers, the seeder and the DAG.
LEMMA WiaPreserved == WiaInv /\ [Wia!Next]_(Wia!vars) => WiaInv'
  <1>. SUFFICES ASSUME WiaInv, [Wia!Next]_(Wia!vars) PROVE WiaInv'
    OBVIOUS
  <1>1. CASE UNCHANGED Wia!vars
    BY <1>1 DEF Wia!vars, WiaInv, WiaTyped, SilverIsFound, Fits, Counts, Refreshes, OnCourse,
                Own, Wia!Names, Wia!RunLabels, Applications, Zones, WiaRuns
  <1>2. CASE Wia!Next
    BY <1>2, SeederKeeps, ReadSourceKeeps, LookKeeps, WritesKeep, RegistersKeep, CountKeeps,
       DiesKeeps, DagMovesKeep, ApplyKeeps, PollKeeps
    DEF Wia!Next
  <1>. QED
    BY <1>1, <1>2

\* The invariant is about a typed lake.
LEMMA WiaTypes == WiaInv => Wia!WiaTypeOK
  BY DEF WiaInv, WiaTyped, SilverIsFound, Applications, Zones, WiaRuns, Wia!WiaTypeOK

\* Services keeps it: an undisturbed run that succeeds has refreshed gold, and silver's
\* files are registered, or will be, or a driver died before it could.
THEOREM RunsRefreshGold == Spec => []WiaRunsRefresh
  <1>. DEFINE Inv == part = "wia" => WiaInv
  <1>1. Init => Inv
    BY JobsStart, WiaInit, ServicesAssumption
  <1>2. Inv /\ [Next]_vars => Inv'
    BY JobsStep, WiaPreserved
  <1>3. Inv => WiaRunsRefresh
    BY DEF WiaInv, SilverIsFound, Counts, Refreshes, WiaRunsRefresh, Wia!WiaRunsRefresh
  <1>. QED
    BY <1>1, <1>2, <1>3, PTL DEF Spec

-----------------------------------------------------------------------------
(* BronzeStream: every file of the raw zone lands, and seldom twice *)

\* The generator's pods and the streaming driver.
PodRecords == [at : {"none", "running", "succeeded", "failed"}, done : 0..Len(Order)]
Drivers == [at : {"down", "idle", "append", "drop", "create"},
            on : SUBSET Stream!Streams, todo : SUBSET Stream!Streams]

\* Types.
StreamTyped ==
    /\ pod \in [Stream!Pods -> PodRecords]
    /\ raw \subseteq Stream!Files
    /\ batches \in Seq(SUBSET Stream!Files)
    /\ committed \in Nat /\ committed <= Len(batches) /\ Len(batches) <= committed + 1
    /\ driver \in Drivers
    /\ copies \in [Stream!Files -> Nat]
    /\ registered \subseteq Stream!Streams
    /\ failures \in Seq(0..MaxFailures) /\ Len(failures) = Len(batches)

\* A pod has written the streams it counts, in their order.
Written ==
    \A p \in Stream!Pods :
        /\ \A k \in 1..pod[p].done : <<p, Order[k]>> \in raw
        /\ pod[p].at = "succeeded" => pod[p].done = Len(Order)

\* A file is in one batch.
InOneBatch ==
    /\ \A n \in 1..Len(batches) : batches[n] \subseteq raw
    /\ \A m, n \in 1..Len(batches) : m # n => batches[m] \cap batches[n] = {}

\* The driver is inside a batch.
Busy == driver.at \in {"append", "drop", "create"}

\* The driver works on the batch that is not committed, stream by stream.
AtWork ==
    /\ Busy => /\ committed < Len(batches)
               /\ driver.todo \subseteq Stream!StreamsOf(Stream!CurrentBatch)
               /\ driver.on \subseteq Stream!StreamsOf(Stream!CurrentBatch)
               /\ \A s \in Stream!StreamsOf(Stream!CurrentBatch) :
                     s \in driver.todo \/ s \in driver.on \/ s \in registered
    /\ driver.at \in {"drop", "create"} <=> driver.on # {}

\* How often the rows of file f of batch n are in their table.
Landed(n, f) ==
    IF n <= committed THEN copies[f] > 0 /\ copies[f] <= 1 + failures[n]
    ELSE IF ~Busy THEN copies[f] <= failures[n]
    ELSE IF Stream!StreamOf(f) \in driver.todo THEN copies[f] <= failures[n]
    ELSE copies[f] > 0 /\ copies[f] <= 1 + failures[n]

\* Every row is of a file of some batch, and is there as often as Landed says.
Counted ==
    /\ \A n \in 1..Len(batches) : \A f \in batches[n] :
          Stream!StreamOf(f) \in Stream!Streams => Landed(n, f)
    /\ \A f \in Stream!Files : copies[f] > 0 =>
          \E n \in 1..Len(batches) : f \in batches[n]

\* Rows are unregistered only while their stream is in the batch under way.
Found ==
    \A f \in Stream!Files : copies[f] > 0 /\ Stream!StreamOf(f) \notin registered =>
        committed < Len(batches) /\ Stream!StreamOf(f) \in Stream!StreamsOf(Stream!CurrentBatch)

\* Inductive: every file that was taken lands, and is doubled by failures only.
StreamInv == StreamTyped /\ Written /\ InOneBatch /\ AtWork /\ Counted /\ Found

\* An empty raw zone, no batches, no rows.
LEMMA StreamInit == Stream!StreamAssumption /\ Stream!Init => StreamInv
  <1>. SUFFICES ASSUME Stream!StreamAssumption, Stream!Init PROVE StreamInv
    OBVIOUS
  <1>1. /\ pod = [p \in Stream!Pods |-> [at |-> "none", done |-> 0]]
        /\ raw = {} /\ batches = <<>> /\ committed = 0 /\ driver = Stream!Down
        /\ copies = [f \in Stream!Files |-> 0] /\ registered = {} /\ failures = <<>>
    BY DEF Stream!Init
  <1>2. Len(Order) \in Nat
    BY LenProperties DEF Stream!StreamAssumption
  <1>3. /\ batches \in Seq(SUBSET Stream!Files) /\ Len(batches) = 0
        /\ failures \in Seq(0..MaxFailures) /\ Len(failures) = 0
    BY <1>1, EmptySeq
  <1>4. driver \in Drivers /\ ~Busy /\ driver.on = {} /\ driver.at \notin {"drop", "create"}
    BY <1>1 DEF Stream!Down, Stream!Idle, Drivers, Busy
  <1>5. pod \in [Stream!Pods -> PodRecords] /\ Written
    BY <1>1, <1>2 DEF PodRecords, Written
  <1>6. StreamTyped
    BY <1>1, <1>3, <1>4, <1>5 DEF StreamTyped
  <1>7. InOneBatch /\ AtWork /\ Counted /\ Found
    BY <1>1, <1>3, <1>4 DEF InOneBatch, AtWork, Counted, Found
  <1>. QED
    BY <1>5, <1>6, <1>7 DEF StreamInv

\* The generator and others put files in the raw zone; the loader has not seen them.
LEMMA RawGrows ==
    ASSUME StreamInv, NEW r \in SUBSET Stream!Files, raw' = raw \cup r,
           UNCHANGED <<batches, committed, driver, copies, registered, failures>>,
           pod' \in [Stream!Pods -> PodRecords], Written'
    PROVE  StreamInv'
  <1>1. StreamTyped'
    BY DEF StreamInv, StreamTyped, Stream!Pods, Stream!Files, Stream!Streams, Stream!StrayFiles,
           PodRecords, Drivers
  <1>2. InOneBatch'
    BY DEF StreamInv, InOneBatch
  <1>3. AtWork' /\ Counted' /\ Found'
    BY DEF StreamInv, AtWork, Counted, Landed, Found, Busy, Stream!StreamsOf, Stream!StreamOf,
           Stream!CurrentBatch, Stream!Streams, Stream!Files, Stream!Pods, Stream!StrayFiles
  <1>. QED
    BY <1>1, <1>2, <1>3 DEF StreamInv

\* The pods of the generator.
LEMMA GeneratorKeeps ==
    ASSUME StreamInv, Stream!StreamAssumption, NEW p \in Stream!Pods,
           Stream!StartPod(p) \/ Stream!Emit(p) \/ Stream!PodEnds(p)
    PROVE  StreamInv'
  <1>1. /\ Len(Order) \in Nat /\ \A k \in 1..Len(Order) : Order[k] \in Stream!Streams
        /\ pod \in [Stream!Pods -> PodRecords] /\ pod[p].done \in 0..Len(Order)
    BY LenProperties DEF Stream!StreamAssumption, StreamInv, StreamTyped, PodRecords, Stream!Streams
  <1>2. UNCHANGED <<batches, committed, driver, copies, registered, failures>>
    BY DEF Stream!StartPod, Stream!Emit, Stream!PodEnds, Stream!loader
  <1>3. CASE Stream!StartPod(p) \/ Stream!PodEnds(p)
    <2>1. PICK at \in {"running", "failed", "succeeded"} :
             /\ pod' = [pod EXCEPT ![p].at = at] /\ raw' = raw
             /\ at = "succeeded" => pod[p].done = Len(Order)
      BY <1>3 DEF Stream!StartPod, Stream!PodEnds
    <2>. DEFINE r == [pod[p] EXCEPT !.at = at]
    <2>2. r \in PodRecords /\ r.at = at /\ r.done = pod[p].done
      BY <1>1 DEF PodRecords
    <2>3. pod' = [pod EXCEPT ![p] = r]
      BY <1>1, <2>1
    <2>. HIDE DEF r
    <2>4. /\ pod' \in [Stream!Pods -> PodRecords] /\ pod'[p] = r
          /\ \A q \in Stream!Pods \ {p} : pod'[q] = pod[q]
      BY <1>1, <2>2, <2>3
    <2>5. Written'
      <3>1. ASSUME NEW q \in Stream!Pods
            PROVE  /\ \A k \in 1..pod'[q].done : <<q, Order[k]>> \in raw'
                   /\ pod'[q].at = "succeeded" => pod'[q].done = Len(Order)
        BY <2>1, <2>2, <2>4 DEF StreamInv, Written
      <3>. QED
        BY <3>1 DEF Written, Stream!Pods
    <2>6. {} \in SUBSET Stream!Files /\ raw' = raw \cup {}
      BY <2>1
    <2>. QED
      BY <1>2, <2>4, <2>5, <2>6, RawGrows
  <1>4. CASE Stream!Emit(p)
    <2>. DEFINE n == pod[p].done + 1
                r == [pod[p] EXCEPT !.done = n]
    <2>1. /\ pod[p].at = "running" /\ pod[p].done < Len(Order)
          /\ raw' = raw \cup {<<p, Order[n]>>} /\ pod' = [pod EXCEPT ![p] = r]
      BY <1>1, <1>4 DEF Stream!Emit
    <2>2. /\ n \in 1..Len(Order) /\ n \in 0..Len(Order)
          /\ (\A k \in 1..n : k = n \/ k \in 1..pod[p].done)
      BY <1>1, <2>1
    <2>. HIDE DEF n
    <2>3. r \in PodRecords /\ r.at = "running" /\ r.done = n
      BY <1>1, <2>1, <2>2 DEF PodRecords
    <2>. HIDE DEF r
    <2>4. /\ pod' \in [Stream!Pods -> PodRecords] /\ pod'[p] = r
          /\ \A q \in Stream!Pods \ {p} : pod'[q] = pod[q]
      BY <1>1, <2>1, <2>3
    <2>5. {<<p, Order[n]>>} \in SUBSET Stream!Files
      BY <1>1, <2>2 DEF Stream!Files
    <2>6. Written'
      <3>1. ASSUME NEW q \in Stream!Pods
            PROVE  /\ \A k \in 1..pod'[q].done : <<q, Order[k]>> \in raw'
                   /\ pod'[q].at = "succeeded" => pod'[q].done = Len(Order)
        <4>1. CASE q = p
          BY <2>1, <2>2, <2>3, <2>4, <4>1 DEF StreamInv, Written
        <4>2. CASE q # p
          BY <2>1, <2>4, <4>2 DEF StreamInv, Written
        <4>. QED
          BY <4>1, <4>2
      <3>. QED
        BY <3>1 DEF Written, Stream!Pods
    <2>. QED
      BY <1>2, <2>1, <2>4, <2>5, <2>6, RawGrows
  <1>. QED
    BY <1>3, <1>4

\* Files of others.
LEMMA LandKeeps ==
    ASSUME StreamInv, NEW f \in Stream!StrayFiles, Stream!Land(f)
    PROVE  StreamInv'
  <1>1. /\ raw' = raw \cup {f} /\ pod' = pod
        /\ UNCHANGED <<batches, committed, driver, copies, registered, failures>>
    BY DEF Stream!Land, Stream!loader
  <1>2. Written' /\ pod' \in [Stream!Pods -> PodRecords] /\ f \in Stream!Files
    BY <1>1 DEF StreamInv, StreamTyped, Written, Stream!Pods, Stream!Files
  <1>. QED
    BY <1>1, <1>2, RawGrows

\* What the loader does keeps the generator's part.
LEMMA LoaderFrame ==
    ASSUME StreamInv, UNCHANGED <<pod, raw>>
    PROVE  Written' /\ pod' \in [Stream!Pods -> PodRecords] /\ raw' \subseteq Stream!Files
  BY DEF StreamInv, StreamTyped, Written, Stream!Pods

\* The driver starts, or dies before it has begun a batch.
LEMMA RestKeeps ==
    ASSUME StreamInv, driver' \in Drivers, ~Busy, ~Busy', driver'.on = {},
           UNCHANGED <<pod, raw, batches, committed, copies, registered, failures>>
    PROVE  StreamInv'
  <1>1. StreamTyped'
    BY LoaderFrame DEF StreamInv, StreamTyped, Stream!Files, Stream!Pods, Stream!Streams,
                       Stream!StrayFiles, PodRecords, Drivers
  <1>2. InOneBatch' /\ AtWork' /\ Found'
    BY DEF StreamInv, InOneBatch, AtWork, Busy, Found, Stream!StreamsOf, Stream!StreamOf,
           Stream!CurrentBatch, Stream!Streams, Stream!Files, Stream!Pods, Stream!StrayFiles
  <1>3. Counted'
    <2>1. \A n, f : Landed(n, f)' = Landed(n, f)
      BY DEF Landed
    <2>. QED
      BY <2>1 DEF StreamInv, Counted, Stream!StreamOf, Stream!Streams, Stream!Files, Stream!Pods,
                  Stream!StrayFiles
  <1>. QED
    BY <1>1, <1>2, <1>3, LoaderFrame DEF StreamInv

\* The files of a planned batch, in terms of the checkpoint.
LEMMA PlannedFiles ==
    ASSUME StreamTyped
    PROVE  \A f : f \in Stream!Planned <=> \E n \in 1..Len(batches) : f \in batches[n]
  <1>1. DOMAIN batches = 1..Len(batches)
    BY LenProperties DEF StreamTyped
  <1>. QED
    BY <1>1 DEF Stream!Planned

\* The next batch: what no earlier one has, and what has no rows yet.
LEMMA PlanKeeps ==
    ASSUME StreamInv, Stream!StreamAssumption, Stream!PlanBatch
    PROVE  StreamInv'
  <1>. DEFINE new == raw \ Stream!Planned
              l == Len(batches)
  <1>1. /\ driver.at = "idle" /\ committed = l
        /\ batches' = Append(batches, new) /\ failures' = Append(failures, 0)
        /\ UNCHANGED <<pod, raw, committed, driver, copies, registered>>
    BY DEF Stream!PlanBatch
  <1>2. /\ batches \in Seq(SUBSET Stream!Files) /\ new \in SUBSET Stream!Files /\ l \in Nat
        /\ failures \in Seq(0..MaxFailures) /\ 0 \in 0..MaxFailures /\ Len(failures) = l
        /\ committed \in Nat
    BY LenProperties DEF StreamInv, StreamTyped, Stream!StreamAssumption
  <1>3. \A f \in new : f \in raw /\ \A n \in 1..l : f \notin batches[n]
    BY PlannedFiles DEF StreamInv
  <1>. HIDE DEF new
  <1>4. /\ batches' \in Seq(SUBSET Stream!Files) /\ Len(batches') = l + 1
        /\ \A n \in 1..l : batches'[n] = batches[n]
        /\ batches'[l + 1] = new
    BY <1>1, <1>2, AppendProperties
  <1>5. /\ failures' \in Seq(0..MaxFailures) /\ Len(failures') = l + 1
        /\ \A n \in 1..l : failures'[n] = failures[n]
        /\ failures'[l + 1] = 0
    BY <1>1, <1>2, AppendProperties
  <1>6. committed' = l /\ \A n \in 1..(l + 1) : n \in 1..l \/ n = l + 1
    BY <1>1, <1>2
  <1>7. ~Busy /\ ~Busy'
    BY <1>1 DEF Busy
  <1>8. StreamTyped'
    <2>1. committed' \in Nat /\ committed' <= Len(batches') /\ Len(batches') <= committed' + 1
      BY <1>2, <1>4, <1>6
    <2>. QED
      BY <1>1, <1>4, <1>5, <2>1, LoaderFrame
      DEF StreamInv, StreamTyped, Stream!Files, Stream!Pods, Stream!Streams, Stream!StrayFiles,
          PodRecords, Drivers
  <1>. HIDE DEF l
  <1>9. InOneBatch'
    <2>1. \A n \in 1..l : batches[n] \subseteq raw
      BY DEF StreamInv, InOneBatch, l
    <2>2. \A m, n \in 1..l : m # n => batches[m] \cap batches[n] = {}
      BY DEF StreamInv, InOneBatch, l
    <2>3. \A n \in 1..Len(batches') : n \in 1..l \/ n = l + 1
      BY <1>4, <1>6
    <2>4. \A n \in 1..Len(batches') : batches'[n] \subseteq raw'
      BY <1>1, <1>3, <1>4, <2>1, <2>3
    <2>5. ASSUME NEW m \in 1..Len(batches'), NEW n \in 1..Len(batches'), m # n
          PROVE  batches'[m] \cap batches'[n] = {}
      <3>1. CASE m \in 1..l /\ n \in 1..l
        BY <1>4, <2>2, <2>5, <3>1
      <3>2. CASE m = l + 1 /\ n \in 1..l
        BY <1>3, <1>4, <3>2
      <3>3. CASE n = l + 1 /\ m \in 1..l
        BY <1>3, <1>4, <3>3
      <3>. QED
        BY <2>3, <2>5, <3>1, <3>2, <3>3
    <2>. QED
      BY <2>4, <2>5 DEF InOneBatch
  <1>10. AtWork'
    BY <1>1, <1>7 DEF StreamInv, AtWork
  <1>11. \A f \in new : f \in Stream!Files /\ copies[f] = 0
    <2>1. ASSUME NEW f \in new PROVE f \in Stream!Files /\ copies[f] = 0
      <3>1. f \in Stream!Files /\ copies[f] \in Nat
        BY <1>2 DEF StreamInv, StreamTyped
      <3>2. ~(copies[f] > 0)
        BY <1>3, <3>1 DEF StreamInv, Counted, l
      <3>. QED
        BY <3>1, <3>2
    <2>. QED
      BY <2>1
  <1>12. Counted'
    <2>1. ASSUME NEW n \in 1..Len(batches'), NEW f \in batches'[n],
                 Stream!StreamOf(f) \in Stream!Streams
          PROVE  Landed(n, f)'
      <3>1. CASE n \in 1..l
        <4>1. Landed(n, f)
          BY <1>4, <2>1, <3>1 DEF StreamInv, Counted, l
        <4>. QED
          BY <1>1, <1>5, <1>7, <3>1, <4>1 DEF Landed
      <3>2. CASE n = l + 1
        <4>1. copies'[f] <= failures'[n] /\ ~(n <= committed')
          BY <1>1, <1>2, <1>4, <1>5, <1>6, <1>11, <3>2 DEF l
        <4>. QED
          BY <1>7, <4>1 DEF Landed
      <3>. QED
        BY <1>4, <1>6, <3>1, <3>2
    <2>2. ASSUME NEW f \in Stream!Files, copies'[f] > 0
          PROVE  \E n \in 1..Len(batches') : f \in batches'[n]
      <3>1. PICK n \in 1..l : f \in batches[n]
        BY <1>1, <2>2 DEF StreamInv, Counted, l
      <3>. QED
        BY <1>2, <1>4, <3>1 DEF l
    <2>. QED
      BY <2>1, <2>2 DEF Counted, Stream!StreamOf, Stream!Streams, Stream!Files, Stream!Pods,
                        Stream!StrayFiles
  <1>13. Found'
    <2>1. ~(committed < Len(batches))
      BY <1>1, <1>2 DEF l
    <2>. QED
      BY <1>1, <2>1 DEF StreamInv, Found, Stream!StreamOf, Stream!Streams, Stream!Files,
                        Stream!Pods, Stream!StrayFiles
  <1>. QED
    BY <1>1, <1>8, <1>9, <1>10, <1>12, <1>13, LoaderFrame DEF StreamInv

\* The batch under way.
LEMMA CurrentIsTyped ==
    ASSUME StreamInv, committed < Len(batches)
    PROVE  /\ committed + 1 \in 1..Len(batches) /\ Len(batches) = committed + 1
           /\ committed \in Nat /\ Stream!CurrentBatch \subseteq Stream!Files
           /\ failures[committed + 1] \in 0..MaxFailures
           /\ \A n \in 1..Len(batches) : n <= committed \/ n = committed + 1
  <1>1. /\ committed \in Nat /\ Len(batches) \in Nat /\ Len(batches) <= committed + 1
        /\ batches \in Seq(SUBSET Stream!Files)
        /\ failures \in Seq(0..MaxFailures) /\ Len(failures) = Len(batches)
    BY LenProperties DEF StreamInv, StreamTyped
  <1>2. committed + 1 \in 1..Len(batches) /\ Len(batches) = committed + 1
    BY <1>1
  <1>3. batches[committed + 1] \in SUBSET Stream!Files /\ failures[committed + 1] \in 0..MaxFailures
    BY <1>1, <1>2, ElementOfSeq
  <1>. QED
    BY <1>1, <1>2, <1>3 DEF Stream!CurrentBatch

\* The driver works: batches, and what is counted of them, stay.
LEMMA WorkStep ==
    ASSUME StreamInv, committed < Len(batches), NEW d \in Drivers, driver' = d,
           UNCHANGED <<pod, raw, batches, committed, failures>>,
           d.at \in {"append", "drop", "create"},
           d.at \in {"drop", "create"} <=> d.on # {},
           copies' \in [Stream!Files -> Nat], registered' \subseteq Stream!Streams,
           \A f \in Stream!Files : f \notin Stream!CurrentBatch => copies'[f] = copies[f],
           \A f \in Stream!CurrentBatch : Stream!StreamOf(f) \in Stream!Streams =>
               IF Stream!StreamOf(f) \in d.todo THEN copies'[f] <= failures[committed + 1]
               ELSE copies'[f] > 0 /\ copies'[f] <= 1 + failures[committed + 1],
           d.todo \subseteq Stream!StreamsOf(Stream!CurrentBatch),
           d.on \subseteq Stream!StreamsOf(Stream!CurrentBatch),
           \A s \in Stream!StreamsOf(Stream!CurrentBatch) :
               s \in d.todo \/ s \in d.on \/ s \in registered',
           \A s \in registered : s \in registered' \/ s \in d.on,
           \A f \in Stream!CurrentBatch : copies'[f] > 0 /\ copies[f] = 0 =>
               Stream!StreamOf(f) \in Stream!Streams
    PROVE  StreamInv'
  <1>. USE CurrentIsTyped
  <1>1. StreamTyped'
    BY LoaderFrame DEF StreamInv, StreamTyped, Stream!Files, Stream!Pods, Stream!Streams,
                       Stream!StrayFiles, PodRecords, Drivers
  <1>2. InOneBatch'
    BY DEF StreamInv, InOneBatch
  <1>3. /\ Stream!CurrentBatch' = Stream!CurrentBatch /\ Busy'
        /\ Stream!StreamsOf(Stream!CurrentBatch)' = Stream!StreamsOf(Stream!CurrentBatch)
    BY DEF Stream!CurrentBatch, Stream!StreamsOf, Stream!StreamOf, Stream!Streams, Busy
  <1>4. AtWork'
    BY <1>3 DEF AtWork
  <1>5. Counted'
    <2>1. ASSUME NEW n \in 1..Len(batches), NEW f \in batches[n],
                 Stream!StreamOf(f) \in Stream!Streams
          PROVE  Landed(n, f)'
      <3>1. CASE n <= committed
        <4>1. f \notin Stream!CurrentBatch /\ f \in Stream!Files
          <5>1. n # committed + 1 /\ committed + 1 \in 1..Len(batches)
            BY <3>1
          <5>2. batches[n] \cap batches[committed + 1] = {} /\ batches[n] \subseteq raw
            BY <5>1 DEF StreamInv, InOneBatch
          <5>. QED
            BY <2>1, <5>2 DEF Stream!CurrentBatch, StreamInv, StreamTyped
        <4>2. Landed(n, f) /\ copies'[f] = copies[f]
          BY <2>1, <4>1 DEF StreamInv, Counted
        <4>. QED
          BY <3>1, <4>2 DEF Landed
      <3>2. CASE n = committed + 1
        <4>1. f \in Stream!CurrentBatch /\ ~(n <= committed')
          BY <2>1, <3>2 DEF Stream!CurrentBatch
        <4>. QED
          BY <1>3, <2>1, <3>2, <4>1 DEF Landed
      <3>. QED
        BY <3>1, <3>2
    <2>2. ASSUME NEW f \in Stream!Files, copies'[f] > 0
          PROVE  \E n \in 1..Len(batches') : f \in batches'[n]
      <3>1. CASE f \in Stream!CurrentBatch
        BY <3>1 DEF Stream!CurrentBatch
      <3>2. CASE f \notin Stream!CurrentBatch
        BY <2>2, <3>2 DEF StreamInv, Counted
      <3>. QED
        BY <3>1, <3>2
    <2>. QED
      BY <2>1, <2>2 DEF Counted, Stream!StreamOf, Stream!Streams, Stream!Files, Stream!Pods,
                        Stream!StrayFiles
  <1>6. Found'
    <2>1. ASSUME NEW f \in Stream!Files, copies'[f] > 0,
                 Stream!StreamOf(f) \notin registered'
          PROVE  Stream!StreamOf(f) \in Stream!StreamsOf(Stream!CurrentBatch)
      <3>1. CASE f \in Stream!CurrentBatch
        <4>1. CASE copies[f] = 0
          BY <2>1, <3>1, <4>1 DEF Stream!StreamsOf
        <4>2. CASE copies[f] # 0
          <5>1. copies[f] > 0
            BY <4>2 DEF StreamInv, StreamTyped
          <5>2. Stream!StreamOf(f) \notin registered \/ Stream!StreamOf(f) \in d.on
            BY <2>1
          <5>. QED
            BY <5>1, <5>2 DEF StreamInv, Found
        <4>. QED
          BY <4>1, <4>2
      <3>2. CASE f \notin Stream!CurrentBatch
        <4>1. copies[f] > 0
          BY <2>1, <3>2
        <4>2. Stream!StreamOf(f) \notin registered \/ Stream!StreamOf(f) \in d.on
          BY <2>1
        <4>. QED
          BY <4>1, <4>2 DEF StreamInv, Found
      <3>. QED
        BY <3>1, <3>2
    <2>. QED
      BY <1>3, <2>1 DEF Found, Stream!StreamOf, Stream!Streams, Stream!Files, Stream!Pods,
                        Stream!StrayFiles
  <1>. QED
    BY <1>1, <1>2, <1>4, <1>5, <1>6, LoaderFrame DEF StreamInv

\* What a busy driver has done of its batch.
LEMMA BatchSoFar ==
    ASSUME StreamInv, Busy
    PROVE  /\ committed < Len(batches) /\ driver \in Drivers
           /\ copies \in [Stream!Files -> Nat] /\ registered \subseteq Stream!Streams
           /\ \A f \in Stream!CurrentBatch : Stream!StreamOf(f) \in Stream!Streams =>
                IF Stream!StreamOf(f) \in driver.todo THEN copies[f] <= failures[committed + 1]
                ELSE copies[f] > 0 /\ copies[f] <= 1 + failures[committed + 1]
           /\ driver.todo \subseteq Stream!StreamsOf(Stream!CurrentBatch)
           /\ driver.on \subseteq Stream!StreamsOf(Stream!CurrentBatch)
           /\ \A s \in Stream!StreamsOf(Stream!CurrentBatch) :
                 s \in driver.todo \/ s \in driver.on \/ s \in registered
  <1>1. committed < Len(batches)
    BY DEF StreamInv, AtWork
  <1>2. ASSUME NEW f \in Stream!CurrentBatch, Stream!StreamOf(f) \in Stream!Streams
        PROVE  IF Stream!StreamOf(f) \in driver.todo THEN copies[f] <= failures[committed + 1]
               ELSE copies[f] > 0 /\ copies[f] <= 1 + failures[committed + 1]
    <2>1. committed + 1 \in 1..Len(batches) /\ ~(committed + 1 <= committed)
      BY <1>1, CurrentIsTyped
    <2>2. Landed(committed + 1, f)
      BY <1>2, <2>1 DEF StreamInv, Counted, Stream!CurrentBatch
    <2>. QED
      BY <2>1, <2>2 DEF Landed
  <1>. QED
    BY <1>1, <1>2 DEF StreamInv, StreamTyped, AtWork

\* process_batch begins, and the streams are all to do.
LEMMA BeginKeeps ==
    ASSUME StreamInv, Stream!BeginBatch
    PROVE  StreamInv'
  <1>. DEFINE d == [Stream!Idle EXCEPT !.at = "append",
                                       !.todo = Stream!StreamsOf(Stream!CurrentBatch)]
  <1>1. /\ driver.at = "idle" /\ committed < Len(batches) /\ driver' = d
        /\ UNCHANGED <<pod, raw, batches, committed, copies, registered, failures>>
    BY DEF Stream!BeginBatch
  <1>2. /\ d \in Drivers /\ d.at = "append" /\ d.on = {}
        /\ d.todo = Stream!StreamsOf(Stream!CurrentBatch)
    BY DEF Drivers, Stream!Idle, Stream!StreamsOf
  <1>. HIDE DEF d
  <1>3. ASSUME NEW f \in Stream!CurrentBatch, Stream!StreamOf(f) \in Stream!Streams
        PROVE  Stream!StreamOf(f) \in d.todo /\ copies[f] <= failures[committed + 1]
    <2>1. committed + 1 \in 1..Len(batches) /\ ~(committed + 1 <= committed)
      BY <1>1, CurrentIsTyped
    <2>2. Landed(committed + 1, f)
      BY <1>3, <2>1 DEF StreamInv, Counted, Stream!CurrentBatch
    <2>3. ~Busy
      BY <1>1 DEF Busy
    <2>. QED
      BY <1>2, <1>3, <2>1, <2>2, <2>3 DEF Landed, Stream!StreamsOf
  <1>4. copies' \in [Stream!Files -> Nat] /\ registered' \subseteq Stream!Streams
    BY <1>1 DEF StreamInv, StreamTyped
  <1>. QED
    BY <1>1, <1>2, <1>3, <1>4, WorkStep

\* One stream is appended: its files land, for the first time in this try.
LEMMA AppendKeeps ==
    ASSUME StreamInv, NEW s \in Stream!Streams, Stream!AppendRows(s)
    PROVE  StreamInv'
  <1>. DEFINE d == [at |-> "drop", on |-> {s}, todo |-> driver.todo \ {s}]
              lands(f) == f \in Stream!CurrentBatch /\ Stream!StreamOf(f) = s
  <1>1. /\ driver.at = "append" /\ s \in driver.todo /\ driver' = d
        /\ copies' = [f \in Stream!Files |-> IF lands(f) THEN copies[f] + 1 ELSE copies[f]]
        /\ UNCHANGED <<pod, raw, batches, committed, registered, failures>>
    BY DEF Stream!AppendRows
  <1>2. Busy
    BY <1>1 DEF Busy
  <1>3. /\ d \in Drivers /\ d.at = "drop" /\ d.on = {s} /\ d.todo = driver.todo \ {s}
        /\ d.on # {} /\ driver.on = {}
    BY <1>1, <1>2, BatchSoFar DEF Drivers, StreamInv, AtWork
  <1>. HIDE DEF d
  <1>4. copies' \in [Stream!Files -> Nat] /\ registered' \subseteq Stream!Streams
    BY <1>1, <1>2, BatchSoFar
  <1>5. /\ committed < Len(batches) /\ Stream!CurrentBatch \subseteq Stream!Files
        /\ failures[committed + 1] \in Nat
    BY <1>2, BatchSoFar, CurrentIsTyped
  <1>6. ASSUME NEW f \in Stream!CurrentBatch, Stream!StreamOf(f) \in Stream!Streams
        PROVE  IF Stream!StreamOf(f) \in d.todo THEN copies'[f] <= failures[committed + 1]
               ELSE copies'[f] > 0 /\ copies'[f] <= 1 + failures[committed + 1]
    <2>1. /\ IF Stream!StreamOf(f) \in driver.todo THEN copies[f] <= failures[committed + 1]
             ELSE copies[f] > 0 /\ copies[f] <= 1 + failures[committed + 1]
          /\ f \in Stream!Files /\ copies[f] \in Nat
      BY <1>2, <1>5, <1>6, BatchSoFar
    <2>2. CASE Stream!StreamOf(f) = s
      <3>1. copies'[f] = copies[f] + 1 /\ copies[f] <= failures[committed + 1]
        BY <1>1, <2>1, <2>2
      <3>. QED
        BY <1>3, <1>5, <2>1, <2>2, <3>1
    <2>3. CASE Stream!StreamOf(f) # s
      <3>1. copies'[f] = copies[f]
        BY <1>1, <2>1, <2>3
      <3>. QED
        BY <1>3, <2>1, <2>3, <3>1
    <2>. QED
      BY <2>2, <2>3
  <1>7. \A f \in Stream!Files : f \notin Stream!CurrentBatch => copies'[f] = copies[f]
    BY <1>1
  <1>8. \A f \in Stream!CurrentBatch : copies'[f] > 0 /\ copies[f] = 0 =>
            Stream!StreamOf(f) \in Stream!Streams
    BY <1>1, <1>5
  <1>9. /\ d.todo \subseteq Stream!StreamsOf(Stream!CurrentBatch)
        /\ d.on \subseteq Stream!StreamsOf(Stream!CurrentBatch)
        /\ \A t \in Stream!StreamsOf(Stream!CurrentBatch) :
              t \in d.todo \/ t \in d.on \/ t \in registered'
        /\ \A t \in registered : t \in registered' \/ t \in d.on
    BY <1>1, <1>2, <1>3, BatchSoFar
  <1>. QED
    BY <1>1, <1>3, <1>4, <1>5, <1>6, <1>7, <1>8, <1>9, WorkStep

\* The table of the stream is registered anew.
LEMMA RegisterKeeps ==
    ASSUME StreamInv, Stream!DropTable \/ Stream!CreateTable
    PROVE  StreamInv'
  <1>1. PICK at \in {"create", "append"}, on \in SUBSET Stream!Streams :
           /\ driver' = [driver EXCEPT !.at = at, !.on = on]
           /\ at = "create" => on = driver.on /\ registered' = registered \ driver.on
           /\ at = "append" => on = {} /\ registered' = registered \cup driver.on
           /\ driver.at \in {"drop", "create"}
           /\ UNCHANGED <<pod, raw, batches, committed, copies, failures>>
    <2>0. driver \in Drivers /\ driver.on \in SUBSET Stream!Streams
      BY DEF StreamInv, StreamTyped, Drivers
    <2>1. CASE Stream!DropTable
      <3>1. [driver EXCEPT !.at = "create"] = [driver EXCEPT !.at = "create", !.on = driver.on]
        BY <2>0 DEF Drivers
      <3>. QED
        BY <2>0, <2>1, <3>1 DEF Stream!DropTable
    <2>2. CASE Stream!CreateTable
      <3>1. /\ driver' = [driver EXCEPT !.at = "append", !.on = {}]
            /\ registered' = registered \cup driver.on /\ driver.at = "create"
            /\ UNCHANGED <<pod, raw, batches, committed, copies, failures>>
        BY <2>2 DEF Stream!CreateTable
      <3>2. {} \in SUBSET Stream!Streams
        OBVIOUS
      <3>. QED
        BY <3>1, <3>2
    <2>. QED
      BY <2>1, <2>2
  <1>2. Busy
    BY <1>1 DEF Busy
  <1>. DEFINE d == [driver EXCEPT !.at = at, !.on = on]
  <1>3. driver.on # {} /\ driver.on \subseteq Stream!Streams
    BY <1>1, <1>2, BatchSoFar DEF StreamInv, AtWork, Drivers
  <1>4. d \in Drivers /\ d.at = at /\ d.on = on /\ d.todo = driver.todo /\ driver' = d
    BY <1>1, <1>2, BatchSoFar DEF Drivers
  <1>. HIDE DEF d
  <1>5. copies' \in [Stream!Files -> Nat] /\ registered' \subseteq Stream!Streams
    BY <1>1, <1>2, <1>3, BatchSoFar
  <1>6. d.at \in {"drop", "create"} <=> d.on # {}
    BY <1>1, <1>3, <1>4
  <1>7. /\ committed < Len(batches)
        /\ \A f \in Stream!CurrentBatch : Stream!StreamOf(f) \in Stream!Streams =>
              IF Stream!StreamOf(f) \in d.todo THEN copies'[f] <= failures[committed + 1]
              ELSE copies'[f] > 0 /\ copies'[f] <= 1 + failures[committed + 1]
        /\ d.todo \subseteq Stream!StreamsOf(Stream!CurrentBatch)
    BY <1>1, <1>2, <1>4, BatchSoFar
  <1>8. /\ d.on \subseteq Stream!StreamsOf(Stream!CurrentBatch)
        /\ \A s \in Stream!StreamsOf(Stream!CurrentBatch) :
              s \in d.todo \/ s \in d.on \/ s \in registered'
        /\ \A s \in registered : s \in registered' \/ s \in d.on
    BY <1>1, <1>2, <1>4, BatchSoFar
  <1>9. /\ \A f \in Stream!Files : f \notin Stream!CurrentBatch => copies'[f] = copies[f]
        /\ \A f \in Stream!CurrentBatch : copies'[f] > 0 /\ copies[f] = 0 =>
              Stream!StreamOf(f) \in Stream!Streams
    <2>1. \A f \in Stream!CurrentBatch : f \in Stream!Files /\ copies[f] \in Nat
      BY <1>2, BatchSoFar, CurrentIsTyped
    <2>. QED
      BY <1>1, <2>1
  <1>. QED
    BY <1>1, <1>4, <1>5, <1>6, <1>7, <1>8, <1>9, WorkStep

\* Spark commits the batch: all its streams are appended and registered.
LEMMA CommitKeeps ==
    ASSUME StreamInv, Stream!CommitBatch
    PROVE  StreamInv'
  <1>1. /\ driver.at = "append" /\ driver.todo = {} /\ committed' = committed + 1
        /\ driver' = Stream!Idle
        /\ UNCHANGED <<pod, raw, batches, copies, registered, failures>>
    BY DEF Stream!CommitBatch
  <1>2. Busy /\ ~Busy' /\ driver' \in Drivers /\ driver'.on = {} /\ driver'.at = "idle"
    BY <1>1 DEF Busy, Stream!Idle, Drivers
  <1>3. /\ committed < Len(batches) /\ Len(batches) = committed + 1 /\ committed \in Nat
        /\ committed' = Len(batches) /\ driver.on = {}
    BY <1>1, <1>2, BatchSoFar, CurrentIsTyped DEF StreamInv, AtWork
  <1>4. \A s \in Stream!StreamsOf(Stream!CurrentBatch) : s \in registered
    BY <1>1, <1>2, <1>3, BatchSoFar
  <1>5. StreamTyped'
    <2>1. committed' \in Nat /\ committed' <= Len(batches') /\ Len(batches') <= committed' + 1
      BY <1>1, <1>3
    <2>. QED
      BY <1>1, <1>2, <2>1, LoaderFrame
      DEF StreamInv, StreamTyped, Stream!Files, Stream!Pods, Stream!Streams, Stream!StrayFiles,
          PodRecords, Drivers
  <1>6. InOneBatch' /\ AtWork'
    BY <1>1, <1>2 DEF StreamInv, InOneBatch, AtWork
  <1>7. Counted'
    <2>1. ASSUME NEW n \in 1..Len(batches), NEW f \in batches[n],
                 Stream!StreamOf(f) \in Stream!Streams
          PROVE  copies[f] > 0 /\ copies[f] <= 1 + failures[n] /\ n <= committed'
      <3>1. Landed(n, f)
        BY <2>1 DEF StreamInv, Counted
      <3>. QED
        BY <1>1, <1>2, <1>3, <3>1 DEF Landed
    <2>. QED
      BY <1>1, <2>1 DEF StreamInv, Counted, Landed, Stream!StreamOf, Stream!Streams,
                        Stream!Files, Stream!Pods, Stream!StrayFiles
  <1>8. Found'
    <2>1. ASSUME NEW f \in Stream!Files, copies[f] > 0 PROVE Stream!StreamOf(f) \in registered
      BY <1>4, <2>1 DEF StreamInv, Found
    <2>. QED
      BY <1>1, <2>1 DEF Found, Stream!StreamOf, Stream!Files, Stream!Pods, Stream!Streams,
                        Stream!StrayFiles
  <1>. QED
    BY <1>1, <1>5, <1>6, <1>7, <1>8, LoaderFrame DEF StreamInv

\* The driver dies in a batch: what it has appended, the next one appends again.
LEMMA DriverDiesKeeps ==
    ASSUME StreamInv, Stream!DriverDies
    PROVE  StreamInv'
  <1>1. /\ driver.at # "down" /\ driver' = Stream!Down
        /\ UNCHANGED <<pod, raw, batches, committed, copies, registered>>
        /\ driver.at = "idle" => failures' = failures
        /\ driver.at # "idle" =>
              /\ failures[committed + 1] < MaxFailures
              /\ failures' = [failures EXCEPT ![committed + 1] = @ + 1]
    BY DEF Stream!DriverDies
  <1>2. /\ ~Busy' /\ driver' \in Drivers /\ driver'.on = {} /\ driver'.at = "down"
        /\ driver \in Drivers
    BY <1>1 DEF Busy, Stream!Idle, Stream!Down, Drivers, StreamInv, StreamTyped
  <1>3. CASE driver.at = "idle"
    BY <1>1, <1>2, <1>3, RestKeeps DEF Busy
  <1>4. CASE driver.at # "idle"
    <2>. DEFINE c == committed + 1
    <2>1. Busy
      BY <1>1, <1>2, <1>4 DEF Busy, Drivers
    <2>2. /\ committed < Len(batches) /\ c \in 1..Len(batches) /\ committed \in Nat
          /\ failures[c] \in 0..MaxFailures /\ failures[c] < MaxFailures /\ ~(c <= committed)
          /\ \A n \in 1..Len(batches) : n <= committed \/ n = c
          /\ failures \in Seq(0..MaxFailures) /\ Len(failures) = Len(batches)
      BY <1>1, <1>4, <2>1, BatchSoFar, CurrentIsTyped DEF StreamInv, StreamTyped
    <2>. HIDE DEF c
    <2>3. /\ failures' \in Seq(0..MaxFailures) /\ Len(failures') = Len(batches)
          /\ failures'[c] = failures[c] + 1
          /\ \A n \in 1..Len(batches) : n # c => failures'[n] = failures[n]
      <3>1. failures' = [failures EXCEPT ![c] = failures[c] + 1]
        BY <1>1, <1>4 DEF c
      <3>2. failures[c] + 1 \in 0..MaxFailures
        BY <2>2, ServicesAssumption DEF Stream!StreamAssumption
      <3>. QED
        BY <2>2, <3>1, <3>2, ExceptSeq
    <2>4. StreamTyped'
      BY <1>1, <1>2, <2>3, LoaderFrame
      DEF StreamInv, StreamTyped, Stream!Files, Stream!Pods, Stream!Streams, Stream!StrayFiles,
          PodRecords, Drivers
    <2>5. InOneBatch' /\ AtWork'
      BY <1>1, <1>2 DEF StreamInv, InOneBatch, AtWork
    <2>6. Counted'
      <3>1. ASSUME NEW n \in 1..Len(batches), NEW f \in batches[n],
                   Stream!StreamOf(f) \in Stream!Streams
            PROVE  Landed(n, f)'
        <4>1. Landed(n, f)
          BY <3>1 DEF StreamInv, Counted
        <4>2. copies[f] \in Nat /\ failures[n] \in Nat
          <5>1. f \in Stream!Files
            BY <3>1 DEF StreamInv, StreamTyped, InOneBatch
          <5>2. failures[n] \in 0..MaxFailures
            BY <2>2, <3>1, ElementOfSeq
          <5>. QED
            BY <5>1, <5>2 DEF StreamInv, StreamTyped
        <4>3. CASE n <= committed
          BY <1>1, <2>2, <2>3, <4>1, <4>3 DEF Landed
        <4>4. CASE n = c
          <5>1. copies[f] <= 1 + failures[n]
            BY <2>1, <2>2, <4>1, <4>2, <4>4 DEF Landed
          <5>. QED
            BY <1>1, <1>2, <2>2, <2>3, <4>2, <4>4, <5>1 DEF Landed
        <4>. QED
          BY <2>2, <4>3, <4>4
      <3>. QED
        BY <1>1, <3>1 DEF StreamInv, Counted, Stream!StreamOf, Stream!Streams, Stream!Files,
                          Stream!Pods, Stream!StrayFiles
    <2>7. Found'
      BY <1>1 DEF StreamInv, Found, Stream!StreamsOf, Stream!StreamOf, Stream!CurrentBatch,
                  Stream!Streams, Stream!Files, Stream!Pods, Stream!StrayFiles
    <2>. QED
      BY <1>1, <2>4, <2>5, <2>6, <2>7, LoaderFrame DEF StreamInv
  <1>. QED
    BY <1>3, <1>4

\* Every step of the generator and of the loader.
LEMMA StreamPreserved ==
    Stream!StreamAssumption /\ StreamInv /\ [Stream!Next]_(Stream!vars) => StreamInv'
  <1>. SUFFICES ASSUME Stream!StreamAssumption, StreamInv, [Stream!Next]_(Stream!vars)
                PROVE  StreamInv'
    OBVIOUS
  <1>1. CASE UNCHANGED Stream!vars
    <2>1. /\ UNCHANGED <<batches, committed, driver, copies, registered, failures>>
          /\ {} \in SUBSET Stream!Files /\ raw' = raw \cup {} /\ UNCHANGED <<pod, raw>>
      BY <1>1 DEF Stream!vars
    <2>. QED
      BY <2>1, RawGrows, LoaderFrame
  <1>2. CASE Stream!StartDriver
    <2>1. /\ ~Busy /\ ~Busy' /\ driver' \in Drivers /\ driver'.on = {}
          /\ UNCHANGED <<pod, raw, batches, committed, copies, registered, failures>>
      BY <1>2 DEF Stream!StartDriver, Stream!Idle, Busy, Drivers
    <2>. QED
      BY <2>1, RestKeeps
  <1>. QED
    BY <1>1, <1>2, GeneratorKeeps, LandKeeps, PlanKeeps, BeginKeeps, AppendKeeps, RegisterKeeps,
       CommitKeeps, DriverDiesKeeps
    DEF Stream!Next

\* When all that is in the raw zone is committed, all of it is in its table.
LEMMA RowsLand == Stream!StreamAssumption /\ StreamInv => Stream!BatchesLand
  <1>. SUFFICES ASSUME Stream!StreamAssumption, StreamInv PROVE Stream!BatchesLand
    OBVIOUS
  <1>1. DOMAIN batches = 1..Len(batches) /\ DOMAIN Order = 1..Len(Order)
    BY LenProperties DEF StreamInv, StreamTyped, Stream!StreamAssumption
  <1>2. ASSUME NEW n \in 1..Len(batches), NEW f \in batches[n],
               Stream!StreamOf(f) \in Stream!Streams
        PROVE  copies[f] <= 1 + failures[n] /\ (n <= committed => copies[f] > 0)
    <2>1. f \in Stream!Files
      BY DEF StreamInv, StreamTyped, InOneBatch
    <2>2. failures[n] \in 0..MaxFailures
      BY ElementOfSeq DEF StreamInv, StreamTyped
    <2>3. copies[f] \in Nat /\ failures[n] \in Nat /\ Landed(n, f)
      BY <1>2, <2>1, <2>2 DEF StreamInv, StreamTyped, Counted
    <2>. QED
      BY <2>3 DEF Landed
  <1>3. ASSUME raw = Stream!Planned, committed = Len(batches),
               NEW p \in Stream!Pods, pod[p].at = "succeeded", NEW s \in Stream!Streams
        PROVE  copies[<<p, s>>] > 0
    <2>1. PICK k \in 1..Len(Order) : s = Order[k]
      BY <1>1 DEF Stream!Streams
    <2>2. <<p, s>> \in raw
      BY <1>3, <2>1 DEF StreamInv, Written
    <2>3. PICK n \in 1..Len(batches) : <<p, s>> \in batches[n]
      BY <1>3, <2>2, PlannedFiles DEF StreamInv
    <2>4. Stream!StreamOf(<<p, s>>) = s
      BY DEF Stream!StreamOf
    <2>. QED
      BY <1>2, <1>3, <2>3, <2>4
  <1>4. Found
    BY DEF StreamInv
  <1>. QED
    BY <1>1, <1>2, <1>3, <1>4 DEF Found, Stream!BatchesLand

\* Services keeps it: no row is lost between a Job that succeeded and bronze, only a
\* driver that died makes rows come twice, and tables with rows are registered.
THEOREM NoEventIsLost == Spec => []BatchesLand
  <1>. DEFINE Inv == part = "stream" => StreamInv
  <1>1. Init => Inv
    BY JobsStart, StreamInit, ServicesAssumption
  <1>2. Inv /\ [Next]_vars => Inv'
    BY JobsStep, StreamPreserved, ServicesAssumption
  <1>3. Inv => BatchesLand
    BY RowsLand, ServicesAssumption DEF BatchesLand
  <1>. QED
    BY <1>1, <1>2, <1>3, PTL DEF Spec

-----------------------------------------------------------------------------
\* The type invariant of BronzeStream follows: what is planned is in the raw zone,
\* and only the batch under way is not committed.
LEMMA StreamTypes == Stream!StreamAssumption /\ StreamInv => Stream!StreamLoaderTypeOK
  <1>. SUFFICES ASSUME Stream!StreamAssumption, StreamInv PROVE Stream!StreamLoaderTypeOK
    OBVIOUS
  <1>1. StreamTyped /\ InOneBatch /\ AtWork
    BY DEF StreamInv
  <1>2. DOMAIN batches = 1..Len(batches) /\ Len(batches) \in Nat
    BY <1>1, LenProperties DEF StreamTyped
  <1>3. /\ Stream!Planned \subseteq raw
        /\ \A m, n \in DOMAIN batches : m # n => batches[m] \cap batches[n] = {}
    BY <1>1, <1>2 DEF InOneBatch, Stream!Planned
  <1>4. committed \in {Len(batches), Len(batches) - 1} \cap Nat
    BY <1>1, <1>2 DEF StreamTyped
  <1>5. failures \in [DOMAIN batches -> 0..MaxFailures]
    <2>1. failures \in Seq(0..MaxFailures) /\ Len(failures) = Len(batches)
      BY <1>1 DEF StreamTyped
    <2>2. failures \in [1..Len(failures) -> 0..MaxFailures]
      BY <2>1, LenProperties
    <2>. QED
      BY <1>2, <2>1, <2>2
  <1>6. driver.at \in {"append", "drop", "create"} => committed < Len(batches)
    BY <1>1 DEF AtWork, Busy
  <1>7. driver.at \in {"drop", "create"} <=> driver.on # {}
    BY <1>1 DEF AtWork
  <1>. QED
    BY <1>1, <1>3, <1>4, <1>5, <1>6, <1>7
    DEF StreamTyped, PodRecords, Drivers, Stream!StreamLoaderTypeOK

-----------------------------------------------------------------------------
\* The types of the parts that feed OpenMetadata and fill the lake.
JobsTypesOK ==
    /\ part = "enrichment" => Enrichment!EnrichmentTypeOK
    /\ part = "sync" => Sync!UsersTypeOK
    /\ part = "stream" => Stream!StreamLoaderTypeOK
    /\ part = "wia" => Wia!WiaTypeOK
    /\ part = "form" => Form!RequestTypeOK

\* The jobs keep their type invariants: no table gets two labels of an exclusive
\* classification, no file is in two batches, only the last batch is open.
THEOREM JobsKeepTypes == Spec => []JobsTypesOK
  <1>. DEFINE Inv ==
         /\ part = "enrichment" => EnrichmentInv /\ LabelsInv
         /\ part = "sync" => UsersInv
         /\ part = "stream" => StreamInv
         /\ part = "wia" => WiaInv
         /\ part = "form" => FormInv
  <1>1. Init => Inv
    BY ServicesAssumption, JobsStart, EnrichmentInit, LabelsInit, UsersInit, StreamInit, WiaInit,
       FormInit
    DEF ServicesAssumption
  <1>2. Inv /\ [Next]_vars => Inv'
    <2>1. EnrichmentInv /\ LabelsInv /\ [Enrichment!Next]_(Enrichment!vars)
              => EnrichmentInv' /\ LabelsInv'
      BY ServicesAssumption, EnrichmentPreserved, LabelsPreserved DEF EnrichmentInv
    <2>2. UsersInv /\ [Sync!Next]_(Sync!vars) => UsersInv'
      BY ServicesAssumption, UsersPreserved DEF ServicesAssumption
    <2>. QED
      BY <2>1, <2>2, ServicesAssumption, JobsStep, StreamPreserved, WiaPreserved,
         FormPreserved
  <1>3. Inv => JobsTypesOK
    BY ServicesAssumption, EnrichmentTypes, UsersTypes, StreamTypes, WiaTypes, FormTypes
    DEF JobsTypesOK
  <1>. QED
    BY <1>1, <1>2, <1>3, PTL DEF Spec
=============================================================================
