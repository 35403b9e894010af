----------------------------- MODULE OpaPolicy -----------------------------
(***************************************************************************)
(* The Rego package `trino`: what OPA answers when Trino asks whether an   *)
(* identity may perform an operation on a resource, and with which row     *)
(* filters and column mask.  A bundle b is the document                    *)
(* uwv_role_mappings: b.roles maps role names to what the role may do,     *)
(* b.purposes maps <<catalog, schema, table or "*">> to the purposes bound *)
(* to it.  A Rego rule body that is undefined simply does not hold, so     *)
(* rules are disjuncts and guards test DOMAIN first.                       *)
(*                                                                         *)
(* An identity is [user, groups, purpose, regio]; a resource is            *)
(* [catalog, schema, table] with "" for a level the operation lacks.  A    *)
(* role name is a tuple: <<"wia_beoordelaar">> or, for a self-service      *)
(* grant, <<"data_access", catalog, schema>>.                              *)
(***************************************************************************)
EXTENDS Naturals, FiniteSets, Sequences

\* What a role's flags may let it see in cleartext.
Capabilities == {"can_see_pii", "can_see_medical", "can_see_bankrekening", "break_glass"}

is_read_op == {"SelectFromColumns", "ReadFromTable", "FilterColumns", "ShowSchemas",
               "ShowTables", "ShowColumns", "FilterCatalogs", "FilterSchemas",
               "FilterTables", "FilterViews"}
is_meta_op == {"ExecuteQuery", "AccessCatalog", "ImpersonateUser", "ReadSystemInformation"}
is_write_op == {"InsertIntoTable", "DeleteFromTable", "TruncateTable", "DropTable",
                "DropSchema", "CreateTable", "CreateSchema", "CreateView",
                "CreateViewWithSelectFromColumns", "DropView", "RenameTable",
                "RenameSchema", "RenameView", "SetSchemaAuthorization",
                "SetTableProperties", "AddColumn", "DropColumn", "RenameColumn",
                "ExecuteProcedure"}
Writers == {<<"data_engineer">>, <<"platform_admin">>, <<"smoketest">>}
-----------------------------------------------------------------------------
(* Roles *)

\* Users of the static password file and of service accounts without groups.
StaticRoles(user) ==
  CASE user = "smoketest"         -> {<<"smoketest">>}
    [] user = "nanitics-observer" -> {<<"nanitics_observer">>}
    [] user = "nao-agent"         -> {<<"nao_agent">>}
    [] OTHER                      -> {}

user_roles(id) == IF id.groups # {} THEN id.groups ELSE StaticRoles(id.user)

\* The entries of the role table for the identity's roles; grant roles and
\* unknown groups have none.
RoleEntries(b, id) == {b.roles[r] : r \in user_roles(id) \cap DOMAIN b.roles}

GrantRole(catalog, schema) == <<"data_access", catalog, schema>>

has_data_access_grant(id, res) == GrantRole(res.catalog, res.schema) \in user_roles(id)

BugAnyGrant(b, id, res) ==
  \/ \E role \in RoleEntries(b, id) :
       /\ res.catalog \in role.catalogs
       /\ role.allSchemas \/ res.schema \in role.schemas
  \/ \E r \in user_roles(id) : Len(r) = 3 /\ r[2] = res.catalog

role_allows_resource(b, id, res) ==
  \/ \E role \in RoleEntries(b, id) :
       /\ res.catalog \in role.catalogs
       /\ role.allSchemas \/ res.schema \in role.schemas
  \/ /\ res.catalog # ""
     /\ res.schema # ""
     /\ has_data_access_grant(id, res)

BugCapabilityByDefault(b, id, cap) ==
  \E r \in user_roles(id) : r \in DOMAIN b.roles => cap \in b.roles[r].caps

any_role_has_capability(b, id, cap) == \E role \in RoleEntries(b, id) : cap \in role.caps
-----------------------------------------------------------------------------
(* Doelbinding: the declared purpose must be bound to the resource and be
   one the identity may declare. *)

\* An exact entry for the table wins over the entry for its schema; a resource
\* without an entry is not restricted.
resource_required_purposes(b, res) ==
  LET exact == <<res.catalog, res.schema, res.table>>
      wild  == <<res.catalog, res.schema, "*">>
  IN  CASE exact \in DOMAIN b.purposes -> b.purposes[exact]
        [] exact \notin DOMAIN b.purposes /\ wild \in DOMAIN b.purposes -> b.purposes[wild]
        [] OTHER -> {}

BugRolePurposesOnly(b, id, res) == UNION {role.purposes : role \in RoleEntries(b, id)}

user_allowed_purposes(b, id, res) ==
  UNION {role.purposes : role \in RoleEntries(b, id)}
    \union {p \in resource_required_purposes(b, res) : has_data_access_grant(id, res)}

purpose_allows_resource(b, id, res) ==
  \/ resource_required_purposes(b, res) = {}
  \/ "*" \in user_allowed_purposes(b, id, res)
  \/ /\ id.purpose \in resource_required_purposes(b, res)
     /\ id.purpose \in user_allowed_purposes(b, id, res)
-----------------------------------------------------------------------------
authenticated(id) == id.user # ""

allow(b, id, op, res) ==
  /\ authenticated(id)
  /\ \/ op \in is_meta_op
     \/ /\ op \in is_read_op
        /\ role_allows_resource(b, id, res)
        /\ purpose_allows_resource(b, id, res)
     \/ /\ op \in is_write_op
        /\ user_roles(id) \cap Writers # {}
-----------------------------------------------------------------------------
(* Row filters and column masks are complete rules: when two of them apply
   with different values OPA reports a conflict and Trino fails the query;
   when none applies the default holds.  Each set below holds the values of
   the rules that apply. *)

\* A regio that is three letters; anything else makes the rule undefined.
RegioKnown(id) == id.regio \notin {"", "malformed"}

rowFilters(id, res) ==
  {f \in {"regio_code = own regio", "opt_out = false", "bsn_pseudo IS NOT NULL",
          "regio_code = own regio OR regio_code IS NULL", "no medical WIA outcomes"} :
     CASE f = "regio_code = own regio" ->
            /\ <<"wia_beoordelaar">> \in user_roles(id)
            /\ res.schema \in {"wia", "uc01_wia_funnel"}
            /\ RegioKnown(id)
       [] f = "opt_out = false" -> res.schema = "uc04_tw_eligibility"
       [] f = "bsn_pseudo IS NOT NULL" -> res.catalog = "sandbox"
       [] f = "regio_code = own regio OR regio_code IS NULL" ->
            /\ <<"wia_beoordelaar">> \in user_roles(id)
            /\ res.schema = "uc11_klantreis"
            /\ RegioKnown(id)
       [] f = "no medical WIA outcomes" ->
            /\ <<"ww_handhaver">> \in user_roles(id)
            /\ res.schema = "uc11_klantreis"}

CrmSeesOwnMask(id) == <<"crm_medewerker">> \in user_roles(id)

Unless(b, id, caps) == \A cap \in caps : ~any_role_has_capability(b, id, cap)

BugBsnHardMask(b, id) == Unless(b, id, {"can_see_pii"})

BsnHardMask(b, id) == ~CrmSeesOwnMask(id) /\ Unless(b, id, {"can_see_pii"})

columnMask(b, id, column, schema) ==
  {m \in {"last four digits", "last three digits", "NLxx XXXX XXXX XXXX", "NULL",
          "year of birth", "domein.event_type", "***"} :
     CASE m = "last four digits" -> column = "bsn" /\ CrmSeesOwnMask(id)
       [] m = "last three digits" -> column = "bsn" /\ BsnHardMask(b, id)
       [] m = "NLxx XXXX XXXX XXXX" ->
            /\ column \in {"iban", "bankrekening"}
            /\ Unless(b, id, {"can_see_bankrekening", "break_glass"})
       [] m = "NULL" ->
            /\ column \in {"diagnose", "icd10"}
            /\ Unless(b, id, {"can_see_medical", "break_glass"})
       [] m = "year of birth" ->
            /\ column = "geboortedatum"
            /\ <<"data_steward">> \in user_roles(id)
            /\ Cardinality(user_roles(id)) = 1
       [] m = "domein.event_type" ->
            /\ column = "event_label"
            /\ schema = "uc11_klantreis"
            /\ Unless(b, id, {"can_see_medical", "break_glass"})
       [] m = "***" ->
            /\ column = "source_ref_id"
            /\ schema = "uc11_klantreis"
            /\ ~CrmSeesOwnMask(id)
            /\ Unless(b, id, {"can_see_pii"})}
=============================================================================
