-------------------------- MODULE DataAccessProofs --------------------------
(***************************************************************************)
(* Theorems about the policy-data sync, for any tables, tags and releases  *)
(* and any number of edits, deployments and failed runs, and about data    *)
(* access end to end, for any users and requests besides.                  *)
(***************************************************************************)
EXTENDS DataAccess, FiniteSetTheorems, TLAPS

-----------------------------------------------------------------------------
(* The sync (OmToOpaSync). *)

\* Data whose role table is that of a release and whose purposes are explained.
Sound(d) ==
  /\ \E release \in Releases : d.roles = release.roles
  /\ \A k \in DOMAIN d.purposes : \A p \in d.purposes[k] : Explained(k, p)

\* Whatever a table is tagged with now, its schema was bound to at some time.
TagsWereBound ==
  \A t \in Tables : extract_doelbindingen(tags[t]) \subseteq everBound[GlobOf[t]]

\* The job has read nothing that was never tagged.
ReadWasBound == \A g \in Globs : job.om[g] \subseteq everBound[g]

SyncInv ==
  /\ SyncTypeOK
  /\ TagsWereBound
  /\ ReadWasBound
  /\ Sound(cm)
  /\ Sound(loaded)
  /\ job.pc = "patch" => Sound(job.new)

\* extract_doelbindingen yields purposes.
LEMMA ExtractType ==
  ASSUME NEW set \in SUBSET Tags
  PROVE  extract_doelbindingen(set) \subseteq Purposes
BY SyncAssumption DEF extract_doelbindingen, Purposes

\* A table's glob is one of the globs.
LEMMA GlobType == \A t \in Tables : GlobOf[t] \in Globs
BY DEF Globs

\* Merging explained purposes into sound data gives sound data.
LEMMA MergeSound ==
  ASSUME Sound(cm), ReadWasBound
  PROVE  Sound(Merge(cm, job.om))
<1> DEFINE covered == {g \in Globs : job.om[g] # {}}
<1> DEFINE new == Merge(cm, job.om)
<1>1. /\ new.roles = cm.roles
      /\ DOMAIN new.purposes = DOMAIN cm.purposes \union covered
      /\ \A k \in DOMAIN new.purposes :
           new.purposes[k] = IF k \in covered THEN job.om[k] ELSE cm.purposes[k]
  BY DEF Merge
<1>2. ASSUME NEW k \in DOMAIN new.purposes, NEW p \in new.purposes[k]
      PROVE  Explained(k, p)
  <2>1. CASE k \in covered
    BY <1>1, <1>2, <2>1 DEF ReadWasBound, Explained
  <2>2. CASE k \notin covered
    BY <1>1, <1>2, <2>2 DEF Sound
  <2>3. QED
    BY <2>1, <2>2
<1>3. QED
  BY <1>1, <1>2 DEF Sound

\* One step keeps the types.
LEMMA SyncTypeStep == SyncTypeOK /\ [SyncNext]_syncVars => SyncTypeOK'
<1> SUFFICES ASSUME SyncTypeOK, [SyncNext]_syncVars PROVE SyncTypeOK'
  OBVIOUS
<1> USE SyncAssumption, GlobType
<1>1. ASSUME NEW t \in Tables, NEW tag \in Tags, EditTags(t, tag) PROVE SyncTypeOK'
  <2>1. {PurposeOf[tag]} \ {NoPurpose} \subseteq Purposes
    BY DEF Purposes
  <2>2. everBound' \in [Globs -> SUBSET Purposes]
    BY <1>1, <2>1 DEF SyncTypeOK, EditTags
  <2>3. QED
    BY <1>1, <2>2 DEF SyncTypeOK, EditTags
<1>2. ASSUME NEW release \in Releases, Deploy(release) PROVE SyncTypeOK'
  BY <1>2 DEF SyncTypeOK, Deploy
<1>3. CASE OpaLoads
  BY <1>3 DEF SyncTypeOK, OpaLoads
<1>4. CASE StartJob
  BY <1>4 DEF SyncTypeOK, StartJob, Job, NothingRead
<1>5. ASSUME NEW t \in Tables, ListPage(t) PROVE SyncTypeOK'
  <2>1. extract_doelbindingen(tags[t]) \subseteq Purposes
    BY ExtractType DEF SyncTypeOK
  <2> DEFINE om == [job.om EXCEPT ![GlobOf[t]] = @ \union extract_doelbindingen(tags[t])]
  <2>2. om \in [Globs -> SUBSET Purposes]
    BY <2>1 DEF SyncTypeOK
  <2>3. QED
    BY <1>5, <2>2 DEF SyncTypeOK, ListPage, Job, Idle, NothingRead
<1>6. CASE GetConfigMap
  BY <1>6 DEF SyncTypeOK, GetConfigMap, Job, Idle, NothingRead
<1>7. CASE PatchConfigMap
  BY <1>7 DEF SyncTypeOK, PatchConfigMap, Job, Idle, NothingRead
<1>8. CASE JobFails
  BY <1>8 DEF SyncTypeOK, JobFails, Job, Idle, NothingRead
<1>9. CASE UNCHANGED syncVars
  BY <1>9 DEF SyncTypeOK, syncVars
<1>10. QED
  BY <1>1, <1>2, <1>3, <1>4, <1>5, <1>6, <1>7, <1>8, <1>9 DEF SyncNext, JobStep

\* One step keeps the inductive invariant.
LEMMA SyncStep == SyncInv /\ [SyncNext]_syncVars => SyncInv'
<1> SUFFICES ASSUME SyncInv, [SyncNext]_syncVars PROVE SyncInv'
  OBVIOUS
<1> USE SyncAssumption, GlobType
<1>0. SyncTypeOK'
  BY SyncTypeStep DEF SyncInv
<1>1. ASSUME NEW t \in Tables, NEW tag \in Tags, EditTags(t, tag) PROVE SyncInv'
  <2>1. \A g \in Globs : everBound[g] \subseteq everBound'[g]
    BY <1>1 DEF EditTags, SyncInv, SyncTypeOK
  <2>2. \A k, p : Explained(k, p) => Explained(k, p)'
    BY <2>1 DEF Explained, Released
  <2>3. Sound(cm)' /\ Sound(loaded)' /\ (job.pc = "patch" => Sound(job.new))'
    BY <1>1, <2>2 DEF SyncInv, Sound, EditTags
  <2>4. ReadWasBound'
    BY <1>1, <2>1 DEF SyncInv, ReadWasBound, EditTags
  <2>5. TagsWereBound'
    <3>1. \A u \in Tables \ {t} : tags'[u] = tags[u]
      BY <1>1 DEF EditTags, SyncInv, SyncTypeOK
    <3>2. extract_doelbindingen(tags'[t]) \subseteq everBound'[GlobOf[t]]
      BY <1>1 DEF EditTags, SyncInv, SyncTypeOK, TagsWereBound, extract_doelbindingen
    <3>3. QED
      BY <2>1, <3>1, <3>2 DEF SyncInv, TagsWereBound, extract_doelbindingen
  <2>6. QED
    BY <1>0, <2>3, <2>4, <2>5 DEF SyncInv
<1>2. ASSUME UNCHANGED <<tags, everBound>>, ReadWasBound', Sound(cm)', Sound(loaded)',
             (job.pc = "patch" => Sound(job.new))'
      PROVE  SyncInv'
  BY <1>0, <1>2 DEF SyncInv, TagsWereBound, extract_doelbindingen
<1>3. ASSUME NEW release \in Releases, Deploy(release) PROVE SyncInv'
  <2>1. Sound(release)
    BY DEF Sound, Explained, Released
  <2>2. QED
    BY <1>2, <1>3, <2>1 DEF SyncInv, Sound, Deploy, ReadWasBound, Explained, Released
<1>4. CASE OpaLoads
  BY <1>2, <1>4 DEF SyncInv, Sound, OpaLoads, ReadWasBound, Explained, Released
<1>5. CASE StartJob
  BY <1>2, <1>5 DEF SyncInv, Sound, StartJob, Job, NothingRead, ReadWasBound, Explained, Released
<1>6. ASSUME NEW t \in Tables, ListPage(t) PROVE SyncInv'
  <2> DEFINE om == [job.om EXCEPT ![GlobOf[t]] = @ \union extract_doelbindingen(tags[t])]
  <2>1. \A g \in Globs : om[g] \subseteq everBound[g]
    BY DEF SyncInv, SyncTypeOK, TagsWereBound, ReadWasBound
  <2>2. /\ job'.om = om \/ job'.om = NothingRead
        /\ job'.pc # "patch"
    <3>1. \/ job' = Job("list", job.todo \ {t}, om, "none")
          \/ job' = Job("get", {}, om, "none")
          \/ job' = Idle
      BY <1>6, Zenon DEF ListPage
    <3> HIDE DEF om
    <3>2. QED
      BY <3>1 DEF Job, Idle
  <2>3. ReadWasBound'
    BY <1>6, <2>1, <2>2 DEF ReadWasBound, ListPage, NothingRead
  <2>4. QED
    BY <1>2, <1>6, <2>2, <2>3 DEF SyncInv, Sound, ListPage, Explained, Released
<1>7. CASE GetConfigMap
  <2>1. Sound(Merge(cm, job.om))
    BY MergeSound DEF SyncInv
  <2>2. /\ job'.om = job.om \/ job'.om = NothingRead
        /\ job'.pc = "patch" => job'.new = Merge(cm, job.om)
    BY <1>7 DEF GetConfigMap, Job, Idle
  <2>3. ReadWasBound'
    BY <1>7, <2>2 DEF SyncInv, ReadWasBound, GetConfigMap, NothingRead
  <2>4. (job.pc = "patch" => Sound(job.new))'
    BY <1>7, <2>1, <2>2 DEF Sound, GetConfigMap, Explained, Released
  <2>5. QED
    BY <1>2, <1>7, <2>3, <2>4 DEF SyncInv, Sound, GetConfigMap, Explained, Released
<1>8. CASE PatchConfigMap
  BY <1>2, <1>8 DEF SyncInv, Sound, PatchConfigMap, Job, Idle, NothingRead, ReadWasBound, Explained, Released
<1>9. CASE JobFails
  BY <1>2, <1>9 DEF SyncInv, Sound, JobFails, Job, Idle, NothingRead, ReadWasBound, Explained, Released
<1>10. CASE UNCHANGED syncVars
  BY <1>2, <1>10 DEF SyncInv, Sound, syncVars, ReadWasBound, Explained, Released
<1>11. QED
  BY <1>1, <1>3, <1>4, <1>5, <1>6, <1>7, <1>8, <1>9, <1>10 DEF SyncNext, JobStep

\* A first deployment is sound and nothing has been read yet.
LEMMA SyncInitially == SyncInit => SyncInv
<1> SUFFICES ASSUME SyncInit PROVE SyncInv
  OBVIOUS
<1> USE SyncAssumption, GlobType
<1>1. SyncTypeOK
  BY DEF SyncInit, SyncTypeOK, Idle, Job, NothingRead
<1>2. Sound(cm)
  BY DEF SyncInit, Sound, Explained, Released
<1>3. TagsWereBound
  BY DEF SyncInit, TagsWereBound, extract_doelbindingen
<1>4. QED
  BY <1>1, <1>2, <1>3 DEF SyncInit, SyncInv, ReadWasBound, Idle, Job, NothingRead

\* OPA only ever evaluates purposes that the repository or a Doelbinding tag
\* of the schema accounts for, in every interleaving of the job with edits,
\* deployments and failures.
THEOREM PurposesExplained == SyncSpec => []PurposesAreExplained
<1>1. SyncInv => PurposesAreExplained
  BY DEF SyncInv, Sound, PurposesAreExplained
<1>2. QED
  BY <1>1, SyncInitially, SyncStep, PTL DEF SyncSpec

-----------------------------------------------------------------------------
(* Data access. *)

\* Role r of user u is theirs by function or comes from an approved request.
Justified(u, r) ==
  \/ r \in Primary[u]
  \/ \E q \in approved : RequestedBy[q] = u /\ r = GrantFor(Asset[q])

AccessInv ==
  /\ SyncInv
  /\ approved \subseteq Requests
  /\ \A m \in held : \E q \in approved : m = <<RequestedBy[q], GrantFor(Asset[q])>>
  /\ token = [u \in Users |-> token[u]]
  /\ \A u \in Users : Primary[u] \subseteq token[u]
  /\ \A u \in Users : \A r \in token[u] : Justified(u, r)

\* The steps of the access variables, with the policy data left alone.
LEMMA AccessStep ==
  ASSUME AccessInv, UNCHANGED syncVars, approved \subseteq approved', approved' \subseteq Requests,
         \A m \in held' : \E q \in approved' : m = <<RequestedBy[q], GrantFor(Asset[q])>>,
         token' = token
  PROVE  AccessInv'
<1>1. SyncInv'
  BY SyncStep DEF AccessInv
<1>2. \A u \in Users : \A r \in token'[u] : Justified(u, r)'
  BY DEF AccessInv, Justified
<1>3. QED
  BY <1>1, <1>2 DEF AccessInv

\* Roles Keycloak would put in a fresh token are justified.
LEMMA FreshRoles ==
  ASSUME AccessInv, NEW u \in Users, NEW r \in RolesOf(u)
  PROVE  Justified(u, r)
<1>1. CASE r \in Primary[u]
  BY <1>1 DEF Justified
<1>2. CASE r \notin Primary[u]
  <2>1. PICK m \in held : m[1] = u /\ m[2] = r
    BY <1>2 DEF RolesOf
  <2>2. PICK q \in approved : m = <<RequestedBy[q], GrantFor(Asset[q])>>
    BY DEF AccessInv
  <2>3. QED
    BY <2>1, <2>2 DEF Justified
<1>3. QED
  BY <1>1, <1>2

\* Nothing is approved at first and every token holds the user's own roles.
LEMMA AccessInitially == Init => AccessInv
<1> SUFFICES ASSUME Init PROVE AccessInv
  OBVIOUS
<1>1. SyncInv
  BY SyncInitially DEF Init
<1>2. approved = {} /\ held = {} /\ token = Primary
  BY DEF Init, Ledger!Init
<1>3. QED
  BY <1>1, <1>2, AccessAssumption DEF AccessInv, Justified

\* One step of any of the parts keeps the invariant.
LEMMA AccessInductive == AccessInv /\ [Next]_vars => AccessInv'
<1> SUFFICES ASSUME AccessInv, [Next]_vars PROVE AccessInv'
  OBVIOUS
<1>1. CASE SyncNext /\ UNCHANGED accessVars
  <2>1. SyncInv'
    BY <1>1, SyncStep DEF AccessInv
  <2>2. QED
    BY <1>1, <2>1 DEF AccessInv, accessVars, Justified
<1>2. ASSUME NEW q \in Requests, Approve(q) PROVE AccessInv'
  <2>1. approved' = approved \union {q} /\ held' = held /\ UNCHANGED <<syncVars, token>>
    BY <1>2 DEF Approve, Ledger!Approve
  <2>2. QED
    BY <2>1, AccessStep DEF AccessInv
<1>3. ASSUME NEW q \in Requests, Grant(q) PROVE AccessInv'
  <2>1. /\ q \in approved
        /\ held' = held \union {<<RequestedBy[q], GrantFor(Asset[q])>>}
        /\ UNCHANGED <<syncVars, approved, token>>
    BY <1>3 DEF Grant, Ledger!Grant
  <2>2. QED
    BY <2>1, AccessStep DEF AccessInv
<1>4. ASSUME NEW g \in held, Revoke(g) PROVE AccessInv'
  <2>1. held' = held \ {g} /\ UNCHANGED <<syncVars, approved, token>>
    BY <1>4 DEF Revoke, Ledger!Revoke
  <2>2. QED
    BY <2>1, AccessStep DEF AccessInv
<1>5. ASSUME NEW u \in Users, RefreshToken(u) PROVE AccessInv'
  <2>1. /\ token' = [token EXCEPT ![u] = RolesOf(u)]
        /\ UNCHANGED <<syncVars, approved, held>>
    BY <1>5 DEF RefreshToken
  <2>2. SyncInv'
    BY <2>1, SyncStep DEF AccessInv
  <2>3. \A v \in Users : token'[v] = IF v = u THEN RolesOf(u) ELSE token[v]
    BY <2>1 DEF AccessInv
  <2>4. token' = [v \in Users |-> token'[v]]
    BY <2>1 DEF AccessInv
  <2>5. \A v \in Users : \A r : Justified(v, r)' <=> Justified(v, r)
    BY <2>1 DEF Justified
  <2>6. \A v \in Users : Primary[v] \subseteq token'[v]
    BY <2>3 DEF AccessInv, RolesOf
  <2>7. \A v \in Users : \A r \in token'[v] : Justified(v, r)'
    BY <2>3, <2>5, FreshRoles DEF AccessInv
  <2>8. QED
    BY <2>1, <2>2, <2>4, <2>6, <2>7 DEF AccessInv
<1>6. CASE UNCHANGED vars
  <2>1. SyncInv'
    BY <1>6, SyncStep DEF AccessInv, vars
  <2>2. QED
    BY <1>6, <2>1 DEF AccessInv, vars, accessVars, Justified
<1>7. QED
  BY <1>1, <1>2, <1>3, <1>4, <1>5, <1>6 DEF Next
-----------------------------------------------------------------------------
(* What a query meets *)

\* A role by function that OPA sees is one the user has without any grant.
LEMMA OwnRoles ==
  ASSUME AccessInv, NEW u \in Users, NEW p, NEW r \in user_roles(Identity(u, p))
  PROVE  \/ r \in user_roles(Without(u, ""))
         \/ \E q \in approved : RequestedBy[q] = u /\ r = GrantFor(Asset[q])
<1>1. CASE token[u] = {}
  <2>1. Primary[u] = {}
    BY <1>1 DEF AccessInv
  <2>2. QED
    BY <1>1, <2>1 DEF user_roles, Identity, Without
<1>2. CASE token[u] # {}
  <2>1. r \in token[u]
    BY <1>2 DEF user_roles, Identity
  <2>2. Justified(u, r)
    BY <2>1 DEF AccessInv
  <2>3. CASE r \in Primary[u]
    BY <2>3 DEF user_roles, Without, Identity
  <2>4. QED
    BY <2>2, <2>3 DEF Justified
<1>3. QED
  BY <1>1, <1>2

\* The grant role of a table is no role of a service account.
LEMMA GrantIsNotStatic ==
  ASSUME NEW t \in Tables, NEW user
  PROVE  GrantFor(t) \notin StaticRoles(user)
<1>1. StaticRoles(user) \subseteq {<<"smoketest">>, <<"nanitics_observer">>, <<"nao_agent">>}
  BY DEF StaticRoles
<1>2. \A x : <<x>> # GrantFor(t)
  BY DEF GrantFor, GrantRole
<1>3. QED
  BY <1>1, <1>2

\* Whoever may read a schema has it by role or by an approved request.
LEMMA ReadHasRole ==
  ASSUME AccessInv, NEW u \in Users, NEW t \in Tables, NEW p,
         role_allows_resource(loaded, Identity(u, p), t)
  PROVE  \/ CoveredByRole(u, t)
         \/ \E q \in approved : RequestedBy[q] = u /\ GrantFor(Asset[q]) = GrantFor(t)
<1>0. PICK release \in Releases : loaded.roles = release.roles
  BY DEF AccessInv, SyncInv, Sound
<1>1. ASSUME NEW r \in user_roles(Identity(u, p)) \cap DOMAIN loaded.roles,
             t.catalog \in loaded.roles[r].catalogs,
             loaded.roles[r].allSchemas \/ t.schema \in loaded.roles[r].schemas
      PROVE  CoveredByRole(u, t)
  <2>1. \A q \in approved : r # GrantFor(Asset[q])
    BY <1>0, <1>1, GrantRoleAssumption, AccessAssumption DEF AccessInv
  <2>2. r \in user_roles(Without(u, ""))
    BY <2>1, OwnRoles
  <2>3. release.roles[r] \in RoleEntries(release, Without(u, ""))
    BY <1>0, <2>2 DEF RoleEntries
  <2>4. QED
    BY <1>0, <1>1, <2>3 DEF CoveredByRole
<1>2. CASE has_data_access_grant(Identity(u, p), t)
  <2>1. GrantFor(t) \in user_roles(Identity(u, p))
    BY <1>2 DEF has_data_access_grant, GrantFor
  <2>2. GrantFor(t) \notin user_roles(Without(u, ""))
    BY GrantRoleAssumption, GrantIsNotStatic DEF user_roles, Without, Identity
  <2>3. \E q \in approved : RequestedBy[q] = u /\ GrantFor(t) = GrantFor(Asset[q])
    <3> DEFINE r == GrantFor(t)
    <3>1. r \in user_roles(Identity(u, p)) /\ r \notin user_roles(Without(u, ""))
      BY <2>1, <2>2
    <3> HIDE DEF r
    <3>2. \E q \in approved : RequestedBy[q] = u /\ r = GrantFor(Asset[q])
      BY <3>1, OwnRoles
    <3>3. QED
      BY <3>2 DEF r
  <2>4. QED
    BY <2>3
<1>3. QED
  BY <1>1, <1>2 DEF role_allows_resource, RoleEntries

\* A purpose OPA accepts for a resource is one that is explained.
LEMMA RequiredIsExplained ==
  ASSUME AccessInv, NEW t \in Tables, NEW p \in resource_required_purposes(loaded, t)
  PROVE  Explained(<<t.catalog, t.schema, t.table>>, p) \/ Explained(GlobOf[t], p)
<1> DEFINE exact == <<t.catalog, t.schema, t.table>>
<1> DEFINE wild == <<t.catalog, t.schema, "*">>
<1>1. wild = GlobOf[t]
  BY AccessAssumption
<1>2. \/ exact \in DOMAIN loaded.purposes /\ p \in loaded.purposes[exact]
      \/ wild \in DOMAIN loaded.purposes /\ p \in loaded.purposes[wild]
  BY DEF resource_required_purposes
<1>3. \A k \in DOMAIN loaded.purposes : \A x \in loaded.purposes[k] : Explained(k, x)
  BY DEF AccessInv, SyncInv, Sound
<1>4. QED
  BY <1>1, <1>2, <1>3

\* In every state of grants, tokens, tags, bundles and deployments, a read
\* that OPA allows goes back to a role table that was deployed or to a request
\* of that user that was approved, under a purpose the repository or a tag of
\* the schema bound to it.
THEOREM ReadsExplained == Spec => []ReadsAreExplained
<1>1. AccessInv => ReadsAreExplained
  <2> SUFFICES ASSUME AccessInv, NEW u \in Users, NEW t \in Tables, NEW p \in Declared,
                      MayRead(u, t, p)
               PROVE  /\ \/ CoveredByRole(u, t)
                         \/ \E q \in approved :
                              RequestedBy[q] = u /\ GrantFor(Asset[q]) = GrantFor(t)
                      /\ \/ resource_required_purposes(loaded, t) = {}
                         \/ "*" \in user_allowed_purposes(loaded, Identity(u, p), t)
                         \/ Explained(<<t.catalog, t.schema, t.table>>, p)
                         \/ Explained(GlobOf[t], p)
    BY DEF ReadsAreExplained
  <2>1. /\ role_allows_resource(loaded, Identity(u, p), t)
        /\ purpose_allows_resource(loaded, Identity(u, p), t)
    BY DEF MayRead, allow, is_meta_op, is_write_op
  <2>2. Identity(u, p).purpose = p
    BY DEF Identity
  <2>3. QED
    BY <2>1, <2>2, ReadHasRole, RequiredIsExplained DEF purpose_allows_resource
<1>2. QED
  BY <1>1, AccessInitially, AccessInductive, PTL DEF Spec
-----------------------------------------------------------------------------
(* What a query shows: masks and row filters *)

\* Apart from the roles grants give, a user has the same roles with and
\* without their grants.
LEMMA GrantsAddGrantRoles ==
  ASSUME AccessInv, NEW u \in Users, NEW r, \A t \in Tables : r # GrantFor(t)
  PROVE  r \in user_roles(Identity(u, "")) <=> r \in user_roles(Without(u, ""))
<1>1. /\ Identity(u, "").groups = token[u] /\ Identity(u, "").user = u
      /\ Without(u, "").groups = Primary[u] /\ Without(u, "").user = u
  BY DEF Identity, Without
<1>2. \A x \in token[u] : x \in Primary[u] \/ (\E q \in approved : RequestedBy[q] = u /\ x = GrantFor(Asset[q]))
  BY DEF AccessInv, Justified
<1>3. Primary[u] \subseteq token[u]
  BY DEF AccessInv
<1>4. \A q \in approved : q \in Requests /\ Asset[q] \in Tables
  BY AccessAssumption DEF AccessInv
<1>5. r \in token[u] <=> r \in Primary[u]
  BY <1>2, <1>3, <1>4
<1>6. CASE token[u] = {} \/ Primary[u] # {}
  BY <1>1, <1>3, <1>5, <1>6 DEF user_roles
<1>7. CASE token[u] # {} /\ Primary[u] = {}
  <2>1. PICK q \in approved : RequestedBy[q] = u
    BY <1>2, <1>7
  <2>2. StaticRoles(u) = {}
    BY <1>4, <2>1, ServiceUsersAssumption
  <2>3. QED
    BY <1>1, <1>5, <1>7, <2>2 DEF user_roles
<1>8. QED
  BY <1>6, <1>7

\* A role of one word is no grant role.
LEMMA OneWordIsNoGrant ==
  ASSUME NEW name, NEW t \in Tables
  PROVE  <<name>> # GrantFor(t)
  BY DEF GrantFor, GrantRole

\* The role table has the same entries for a user with and without grants.
LEMMA GrantsHaveNoEntry ==
  ASSUME AccessInv, NEW u \in Users
  PROVE  RoleEntries(loaded, Identity(u, "")) = RoleEntries(loaded, Without(u, ""))
<1>1. PICK release \in Releases : loaded.roles = release.roles
  BY DEF AccessInv, SyncInv, Sound
<1>2. \A r \in DOMAIN loaded.roles : \A t \in Tables : r # GrantFor(t)
  BY <1>1, GrantRoleAssumption
<1>3. \A r \in DOMAIN loaded.roles :
        r \in user_roles(Identity(u, "")) <=> r \in user_roles(Without(u, ""))
  BY <1>2, GrantsAddGrantRoles
<1>4. user_roles(Identity(u, "")) \cap DOMAIN loaded.roles
        = user_roles(Without(u, "")) \cap DOMAIN loaded.roles
  BY <1>3
<1>5. QED
  BY <1>4 DEF RoleEntries

\* The capabilities and the crm role that masks depend on are the same too.
LEMMA GrantsKeepGuards ==
  ASSUME AccessInv, NEW u \in Users
  PROVE  /\ \A caps : Unless(loaded, Identity(u, ""), caps)
                        <=> Unless(loaded, Without(u, ""), caps)
         /\ CrmSeesOwnMask(Identity(u, "")) <=> CrmSeesOwnMask(Without(u, ""))
<1>1. \A caps : Unless(loaded, Identity(u, ""), caps)
                  <=> Unless(loaded, Without(u, ""), caps)
  BY GrantsHaveNoEntry DEF Unless, any_role_has_capability
<1>2. CrmSeesOwnMask(Identity(u, "")) <=> CrmSeesOwnMask(Without(u, ""))
  BY GrantsAddGrantRoles, OneWordIsNoGrant DEF CrmSeesOwnMask
<1>3. QED
  BY <1>1, <1>2

\* A token carries finitely many roles.
LEMMA TokensAreFinite ==
  ASSUME AccessInv, NEW u \in Users
  PROVE  IsFiniteSet(token[u])
<1> DEFINE image == {GrantFor(Asset[q]) : q \in Requests}
<1> DEFINE f == [q \in Requests |-> GrantFor(Asset[q])]
<1>1. f \in Surjection(Requests, image)
  BY DEF Surjection
<1>2. IsFiniteSet(image)
  BY <1>1, FS_Surjection, AccessAssumption
<1>3. token[u] \subseteq Primary[u] \union image
  BY DEF AccessInv, Justified
<1> HIDE DEF image
<1>4. IsFiniteSet(Primary[u] \union image)
  BY <1>2, FS_Union, AccessAssumption
<1>5. QED
  BY <1>3, <1>4, FS_Subset

\* The birth-date rule for a set of roles.
BirthYear(set) == <<"data_steward">> \in set /\ Cardinality(set) = 1

\* A birth date is masked with and without grants alike, unless the user is a
\* data steward by function and nothing else and the token carries a grant.
LEMMA GrantsAndBirthDates ==
  ASSUME AccessInv, NEW u \in Users,
         ~(BirthYear(user_roles(Identity(u, ""))) <=> BirthYear(user_roles(Without(u, ""))))
  PROVE  /\ Primary[u] = {<<"data_steward">>}
         /\ \E q \in approved : RequestedBy[q] = u /\ GrantFor(Asset[q]) \in token[u]
<1> DEFINE ds == <<"data_steward">>
<1> DEFINE with == user_roles(Identity(u, ""))
<1> DEFINE own == user_roles(Without(u, ""))
<1>1. /\ with = IF token[u] # {} THEN token[u] ELSE StaticRoles(u)
      /\ own = IF Primary[u] # {} THEN Primary[u] ELSE StaticRoles(u)
  BY DEF Identity, Without, user_roles
<1>2. /\ Primary[u] \subseteq token[u]
      /\ token[u] # Primary[u]
  <2>1. ASSUME token[u] = Primary[u] PROVE FALSE
    <3>1. own = with
      BY <2>1 DEF Without, Identity, user_roles
    <3>2. BirthYear(own) <=> BirthYear(with)
      BY <3>1 DEF BirthYear
    <3>3. QED
      BY <3>2
  <2>2. QED
    BY <2>1 DEF AccessInv
<1>3. PICK q \in approved : RequestedBy[q] = u /\ GrantFor(Asset[q]) \in token[u] \ Primary[u]
  BY <1>2 DEF AccessInv, Justified
<1>4. q \in Requests /\ Asset[q] \in Tables /\ StaticRoles(u) = {}
  BY <1>3, AccessAssumption, ServiceUsersAssumption DEF AccessInv
<1>5. with = token[u] /\ own = Primary[u]
  BY <1>1, <1>3, <1>4
<1>6. \A t \in Tables : ds # GrantFor(t)
  BY OneWordIsNoGrant
<1>7. ds \in with <=> ds \in own
  BY <1>6, GrantsAddGrantRoles
<1>8. GrantFor(Asset[q]) # ds /\ GrantFor(Asset[q]) \in with
  BY <1>3, <1>4, <1>5, <1>6
<1>9. ~BirthYear(with)
  <2>1. SUFFICES ASSUME ds \in with, Cardinality(with) = 1 PROVE FALSE
    BY DEF BirthYear
  <2>2. IsFiniteSet(with)
    BY <1>5, TokensAreFinite
  <2>3. PICK x : with = {x}
    BY <2>1, <2>2, FS_Singleton
  <2>4. QED
    BY <2>1, <2>3, <1>8
<1>10. ds \in own /\ Cardinality(own) = 1
  BY <1>9 DEF BirthYear
<1>11. IsFiniteSet(own)
  BY <1>5, AccessAssumption
<1>12. own = {ds}
  <2>1. PICK x : own = {x}
    BY <1>10, <1>11, FS_Singleton
  <2>2. QED
    BY <1>10, <2>1
<1>13. QED
  BY <1>3, <1>5, <1>12

\* In every state of grants, tokens and bundles an additive grant changes one
\* mask only, that of the birth date, only for a data steward without another
\* role, and only by a grant that was approved.
THEOREM UnmaskingGoesBack == Spec => []UnmaskingIsExplained
<1>1. AccessInv => UnmaskingIsExplained
  <2> SUFFICES ASSUME AccessInv, NEW u \in Users, NEW t \in Tables, NEW c \in Columns,
                      columnMask(loaded, Identity(u, ""), c, t.schema)
                        # columnMask(loaded, Without(u, ""), c, t.schema)
               PROVE  /\ c = "geboortedatum"
                      /\ Primary[u] = {<<"data_steward">>}
                      /\ \E q \in approved : RequestedBy[q] = u /\ GrantFor(Asset[q]) \in token[u]
    BY DEF UnmaskingIsExplained
  <2>2. \A caps : Unless(loaded, Identity(u, ""), caps) <=> Unless(loaded, Without(u, ""), caps)
    BY GrantsKeepGuards
  <2>3. CrmSeesOwnMask(Identity(u, "")) <=> CrmSeesOwnMask(Without(u, ""))
    BY GrantsKeepGuards
  <2>4. BsnHardMask(loaded, Identity(u, "")) <=> BsnHardMask(loaded, Without(u, ""))
    BY <2>2, <2>3 DEF BsnHardMask
  <2>5. c = "geboortedatum"
    BY <2>2, <2>3, <2>4 DEF columnMask
  <2>6. ~(BirthYear(user_roles(Identity(u, ""))) <=> BirthYear(user_roles(Without(u, ""))))
    BY <2>2, <2>3, <2>4 DEF columnMask, BirthYear
  <2>7. QED
    BY <2>5, <2>6, GrantsAndBirthDates
<1>2. QED
  BY <1>1, AccessInitially, AccessInductive, PTL DEF Spec

\* A set of which any two members are equal counts at most one.
LEMMA AtMostOne ==
  ASSUME NEW S, \A x, y \in S : x = y
  PROVE  Cardinality(S) <= 1
<1>1. CASE S = {}
  BY <1>1, FS_EmptySet
<1>2. CASE S # {}
  <2>1. PICK x : x \in S
    BY <1>2
  <2>2. S = {x}
    BY <2>1
  <2>3. QED
    BY <2>2, FS_Singleton
<1>3. QED
  BY <1>1, <1>2

\* The masks of a column exclude each other, for any identity and bundle.
LEMMA OneMask ==
  ASSUME NEW b, NEW id, NEW c, NEW schema
  PROVE  Cardinality(columnMask(b, id, c, schema)) <= 1
<1>1. ~(CrmSeesOwnMask(id) /\ BsnHardMask(b, id))
  BY DEF BsnHardMask
<1>2. \A m \in columnMask(b, id, c, schema) :
        \/ m = "last four digits" /\ c = "bsn" /\ CrmSeesOwnMask(id)
        \/ m = "last three digits" /\ c = "bsn" /\ BsnHardMask(b, id)
        \/ m = "NLxx XXXX XXXX XXXX" /\ c \in {"iban", "bankrekening"}
        \/ m = "NULL" /\ c \in {"diagnose", "icd10"}
        \/ m = "year of birth" /\ c = "geboortedatum"
        \/ m = "domein.event_type" /\ c = "event_label"
        \/ m = "***" /\ c = "source_ref_id"
  BY DEF columnMask
<1>3. \A x, y \in columnMask(b, id, c, schema) : x = y
  BY <1>1, <1>2
<1>4. QED
  BY <1>3, AtMostOne

\* The row filters exclude each other for an identity that is not both
\* wia_beoordelaar and ww_handhaver.
LEMMA OneFilter ==
  ASSUME NEW id, NEW t \in Tables,
         ~(<<"wia_beoordelaar">> \in user_roles(id) /\ <<"ww_handhaver">> \in user_roles(id))
  PROVE  Cardinality(rowFilters(id, t)) <= 1
<1>1. t.catalog = "sandbox" =>
        t.schema \notin {"wia", "uc01_wia_funnel", "uc04_tw_eligibility", "uc11_klantreis"}
  BY SandboxAssumption
<1>2. \A x, y \in rowFilters(id, t) : x = y
  BY <1>1 DEF rowFilters
<1>3. QED
  BY <1>2, AtMostOne

\* No mixture of grants, tokens and bundles makes two masks or two row filters
\* apply, except to a user who is both wia_beoordelaar and ww_handhaver by
\* function.
THEOREM RulesAgree == Spec => []RulesNeverConflict
<1>1. AccessInv => RulesNeverConflict
  <2> SUFFICES ASSUME AccessInv, NEW u \in Users, NEW t \in Tables,
                      ~({<<"wia_beoordelaar">>, <<"ww_handhaver">>} \subseteq Primary[u])
               PROVE  Cardinality(rowFilters(Identity(u, ""), t)) <= 1
    BY OneMask DEF RulesNeverConflict
  <2> DEFINE wia == <<"wia_beoordelaar">>
  <2> DEFINE ww == <<"ww_handhaver">>
  <2>1. ~(wia \in user_roles(Without(u, "")) /\ ww \in user_roles(Without(u, "")))
    <3>1. wia # <<"smoketest">> /\ wia # <<"nanitics_observer">> /\ wia # <<"nao_agent">>
      OBVIOUS
    <3>2. wia \notin StaticRoles(u)
      BY <3>1 DEF StaticRoles
    <3>3. Without(u, "").groups = Primary[u] /\ Without(u, "").user = u
      BY DEF Without, Identity
    <3>4. QED
      BY <3>2, <3>3 DEF user_roles
  <2>2. ~(wia \in user_roles(Identity(u, "")) /\ ww \in user_roles(Identity(u, "")))
    BY <2>1, GrantsAddGrantRoles, OneWordIsNoGrant
  <2>3. QED
    BY <2>2, OneFilter
<1>2. QED
  BY <1>1, AccessInitially, AccessInductive, PTL DEF Spec
=============================================================================
