----------------------------- MODULE DataAccess -----------------------------
(***************************************************************************)
(* Who can read what, end to end: approved access requests become          *)
(* Keycloak roles (GrantLedger, which the bridge implements), a token      *)
(* carries the roles a user had when it was issued, tags and deployments   *)
(* change the policy data (OmToOpaSync), and OPA decides every query from  *)
(* the token and the bundle it has loaded (OpaPolicy).  The four move      *)
(* independently, so a query meets any mixture of old and new.             *)
(***************************************************************************)
EXTENDS OmToOpaSync, OpaPolicy

CONSTANTS
  Users,      \* users of Trino
  Primary,    \* Primary[u]: realm roles the user has by function
  Requests,   \* access-request tasks
  RequestedBy,\* RequestedBy[q]: who asked
  Asset,      \* Asset[q]: the table asked for
  Declared,   \* purposes a query may declare; "" for none
  MaxRevokes  \* bound: roles an administrator takes away

ASSUME AccessAssumption ==
  /\ Tables \subseteq [catalog: STRING, schema: STRING, table: STRING]
  /\ \A t \in Tables : GlobOf[t] = <<t.catalog, t.schema, "*">>
  /\ Primary = [u \in Users |-> Primary[u]]
  /\ \A u \in Users : IsFiniteSet(Primary[u])
  /\ IsFiniteSet(Requests)
  /\ RequestedBy \in [Requests -> Users]
  /\ Asset \in [Requests -> Tables]
  /\ MaxRevokes \in Nat

VARIABLES
  approved,  \* requests a reviewer approved
  held,      \* <<user, role>> realm-role mappings of the bridge
  token,     \* token[u]: the roles in the token u's queries carry
  revokes

accessVars == <<approved, held, token, revokes>>
vars == <<syncVars, accessVars>>

GrantFor(t) == GrantRole(t.catalog, t.schema)

\* Grant roles come from the bridge alone: nobody holds one by function and
\* no role table gives one a meaning of its own.
ASSUME GrantRoleAssumption ==
  \A t \in Tables :
    /\ \A u \in Users : GrantFor(t) \notin Primary[u]
    /\ \A release \in Releases : GrantFor(t) \notin DOMAIN release.roles

\* Only people file access requests: the service users of Trino have no account
\* in OpenMetadata or the portal.
ASSUME ServiceUsersAssumption == \A q \in Requests : StaticRoles(RequestedBy[q]) = {}

\* The sandbox catalog has schemas of its own (sandbox, sandbox_uc09), none
\* named like a schema that has a row filter.
ASSUME SandboxAssumption ==
  \A t \in Tables :
    t.catalog = "sandbox" =>
      t.schema \notin {"wia", "uc01_wia_funnel", "uc04_tw_eligibility", "uc11_klantreis"}

Ledger == INSTANCE GrantLedger WITH
            Tasks <- Requests,
            Requester <- RequestedBy,
            About <- [q \in Requests |-> GrantFor(Asset[q])]

RolesOf(u) == Primary[u] \union {m[2] : m \in {g \in held : g[1] = u}}

Init ==
  /\ SyncInit
  /\ Ledger!Init
  /\ token = Primary
  /\ revokes = 0

Approve(q) ==
  /\ q \notin approved
  /\ Ledger!Approve(q)
  /\ UNCHANGED <<syncVars, token, revokes>>

Grant(q) ==
  /\ Ledger!Grant(q)
  /\ held' # held
  /\ UNCHANGED <<syncVars, token, revokes>>

Revoke(g) ==
  /\ revokes < MaxRevokes
  /\ revokes' = revokes + 1
  /\ Ledger!Revoke({g})
  /\ UNCHANGED <<syncVars, token>>

BugKeepsOldRoles(u) ==
  /\ token[u] # token[u] \union RolesOf(u)
  /\ token' = [token EXCEPT ![u] = @ \union RolesOf(u)]
  /\ UNCHANGED <<syncVars, approved, held, revokes>>

\* A token expires within 15 minutes; its successor carries today's roles.
RefreshToken(u) ==
  /\ token[u] # RolesOf(u)
  /\ token' = [token EXCEPT ![u] = RolesOf(u)]
  /\ UNCHANGED <<syncVars, approved, held, revokes>>

Next ==
  \/ SyncNext /\ UNCHANGED accessVars
  \/ \E q \in Requests : Approve(q) \/ Grant(q)
  \/ \E g \in held : Revoke(g)
  \/ \E u \in Users : RefreshToken(u)

Fairness ==
  /\ WF_vars(JobStep /\ UNCHANGED accessVars)
  /\ WF_vars(OpaLoads /\ UNCHANGED accessVars)
  /\ \A u \in Users : WF_vars(RefreshToken(u))

Spec == Init /\ [][Next]_vars
FairSpec == Spec /\ Fairness
-----------------------------------------------------------------------------
(* What a query of u for table t under purpose p meets right now *)

Identity(u, p) == [user |-> u, groups |-> token[u], purpose |-> p, regio |-> "ams"]

Without(u, p) == [Identity(u, p) EXCEPT !.groups = Primary[u]]

MayRead(u, t, p) == allow(loaded, Identity(u, p), "SelectFromColumns", t)

Columns == {"bsn", "voornaam", "iban", "diagnose", "geboortedatum", "event_label", "source_ref_id"}

\* Some deployed role table gives one of the user's own roles the schema.
CoveredByRole(u, t) ==
  \E release \in Releases : \E role \in RoleEntries(release, Without(u, "")) :
    t.catalog \in role.catalogs /\ (role.allSchemas \/ t.schema \in role.schemas)

\* Every read goes back to a decision someone took: the role table covers the
\* schema or a reviewer approved this user's request for it, and a declared
\* purpose the policy accepts was bound to the schema by the repository or by
\* a tag on one of its tables.
ReadsAreExplained ==
  \A u \in Users, t \in Tables, p \in Declared :
    MayRead(u, t, p) =>
      /\ \/ CoveredByRole(u, t)
         \/ \E q \in approved : RequestedBy[q] = u /\ GrantFor(Asset[q]) = GrantFor(t)
      /\ \/ resource_required_purposes(loaded, t) = {}
         \/ "*" \in user_allowed_purposes(loaded, Identity(u, p), t)
         \/ Explained(<<t.catalog, t.schema, t.table>>, p)
         \/ Explained(GlobOf[t], p)

\* A grant widens which schemas a user may read and changes one mask only: the
\* birth date of a data steward, whose rule counts the roles in the token
\* (trino-column-masks.rego:51).  Whoever sees it in clear has no other role by
\* function and a grant in the token that a reviewer approved for them.
UnmaskingIsExplained ==
  \A u \in Users, t \in Tables, c \in Columns :
    columnMask(loaded, Identity(u, ""), c, t.schema)
        # columnMask(loaded, Without(u, ""), c, t.schema) =>
      /\ c = "geboortedatum"
      /\ Primary[u] = {<<"data_steward">>}
      /\ \E q \in approved : RequestedBy[q] = u /\ GrantFor(Asset[q]) \in token[u]

\* Complete rules never disagree, whatever grants a user holds: OPA always has
\* one mask to answer with, and one row filter unless the user is both
\* wia_beoordelaar and ww_handhaver by function.
RulesNeverConflict ==
  \A u \in Users, t \in Tables :
    /\ ~({<<"wia_beoordelaar">>, <<"ww_handhaver">>} \subseteq Primary[u])
         => Cardinality(rowFilters(Identity(u, ""), t)) <= 1
    /\ \A c \in Columns : Cardinality(columnMask(loaded, Identity(u, ""), c, t.schema)) <= 1

\* A role taken away stops counting: in the end a user reads a schema only by
\* their own roles or by a grant that is still in force.
RevokedAccessEnds ==
  \A u \in Users, t \in Tables, p \in Declared :
    <>[](MayRead(u, t, p) =>
           role_allows_resource(loaded, Without(u, p), t) \/ <<u, GrantFor(t)>> \in held)

\* A grant takes effect: in the end its holder may read the schema under every
\* purpose bound to it, whatever their own roles are.
GrantsTakeEffect ==
  \A u \in Users, t \in Tables, p \in Declared :
    <>[](<<u, GrantFor(t)>> \in held /\ p \in resource_required_purposes(loaded, t)
           => MayRead(u, t, p))
=============================================================================
